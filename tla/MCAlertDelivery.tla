-------------------------- MODULE MCAlertDelivery --------------------------
\* The instance of AlertDelivery that is model-checked.
EXTENDS AlertDelivery, TLC

CONSTANTS s1, h1, h2

\* 4 minutes of two units overflow where Half is 8.
Quiet  == [email |-> "off", webhook |-> "off", personal |-> TRUE, cooldown |-> 4]
Chatty == [email |-> "unset", webhook |-> "on", personal |-> TRUE, cooldown |-> 2]

TwoSaves == {Quiet, Chatty}
=============================================================================
