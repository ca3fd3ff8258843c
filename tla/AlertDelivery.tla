--------------------------- MODULE AlertDelivery ---------------------------
(***************************************************************************)
(* Alerts from the decision to the channels: the preferences of a user     *)
(* (internal/web/api_handlers.go, internal/db/queries.go), read by the     *)
(* staleness check and by syncs (internal/scheduler), the cooldown and the *)
(* goroutine that every alert is sent from (internal/notify).              *)
(*                                                                         *)
(* Module SyncStatus says when a source is judged stale or has recovered;  *)
(* here that may happen at any time.  One user stands for all, since       *)
(* nothing is shared between users.  Whether a request to a webhook or a   *)
(* mail server succeeds is logged and changes nothing else, so it is left  *)
(* out, and texts and addresses with it.                                   *)
(***************************************************************************)
EXTENDS Integers, Sequences

CONSTANTS
    Sources,    \* the user's sources
    Handlers,   \* request goroutines
    Saves,      \* the preferences people may save
    NoRow,      \* no row in user_alert_preferences
    NoCooldown, \* no cooldown of the user's own
    GlobalWebhook, GlobalEmail, \* the switches of the configuration
    GlobalUrl,                  \* whether it has a webhook address
    CooldownPeriod,             \* its cooldown, a time.Duration
    Minute,     \* time.Minute, in the units of a time.Duration
    Half,       \* durations go from -Half to Half - 1 (2^63 in the code)
    MaxTime,    \* bound on the minutes that go by
    MaxAlerts,  \* bound on the alerts
    MaxEvents   \* bound on faults, restarts and removed jobs

Switches == {"unset", "on", "off"}

Prefs == [email : Switches, webhook : Switches, personal : BOOLEAN,
          cooldown : Nat \cup {NoCooldown}]

\* ValidateConfig: what main starts with when a switch is on.
ValidConfig == (GlobalWebhook => GlobalUrl) /\ CooldownPeriod \in Minute .. Half - 1

\* With both switches off IsEnabled keeps every alert from being decided.
ASSUME AlertAssumption ==
    /\ Saves \subseteq Prefs
    /\ NoRow \notin Prefs /\ NoCooldown \notin Nat
    /\ GlobalWebhook \in BOOLEAN /\ GlobalEmail \in BOOLEAN /\ GlobalUrl \in BOOLEAN
    /\ GlobalWebhook \/ GlobalEmail
    /\ Minute \in Nat \ {0} /\ Half \in Nat \ {0} /\ ValidConfig
    /\ MaxTime \in Nat /\ MaxAlerts \in Nat /\ MaxEvents \in Nat

VARIABLES
    row,        \* the row of the user
    hpc,        \* hpc[h]: how far the save of handler h is
    hval,       \* hval[h]: the preferences it saves
    may,        \* history: what the row may say, judged by requests and answers
    over,       \* history: over[h]: what saves that overlap the one of h save
    clock,      \* minutes gone by
    marks,      \* Notifier.staleState
    lastAlert,  \* Notifier.lastAlertTimes; meaningful for marked sources
    reader,     \* reader[s][k]: what a check or a sync of s has read
    alerts,     \* every alert decided so far, with the goroutine that sends it
    era,        \* era[s]: history: how often the mark of s was taken away
    events      \* faults, restarts and removals so far

saveVars  == <<row, hpc, hval, may, over>>
alertVars == <<marks, lastAlert, reader, alerts, era>>
vars      == <<saveVars, clock, alertVars, events>>

Kinds    == {"stale", "recovery"}
Channels == {"webhook", "personal", "email"}

\* getUserAlertPrefs returns nil for no row and for a row it cannot read.
Defaults == [email |-> "unset", webhook |-> "unset", personal |-> FALSE,
             cooldown |-> NoCooldown]

Meant(value) == IF value = NoRow THEN Defaults ELSE value

Nobody == [busy |-> FALSE, prefs |-> Defaults, off |-> {}]

Event == events < MaxEvents /\ events' = events + 1

Init ==
    /\ row = NoRow
    /\ hpc = [h \in Handlers |-> "idle"]
    /\ hval = [h \in Handlers |-> Defaults]
    /\ may = {NoRow}
    /\ over = [h \in Handlers |-> {}]
    /\ clock = 0
    /\ marks = {}
    /\ lastAlert = [s \in Sources |-> 0]
    /\ reader = [s \in Sources |-> [k \in Kinds |-> Nobody]]
    /\ alerts = <<>>
    /\ era = [s \in Sources |-> 0]
    /\ events = 0

-----------------------------------------------------------------------------
(* APIUpdateAlertPreferences: UpsertUserAlertPreferences executes an       *)
(* UPDATE and, if that has met no row, an INSERT, in no transaction, and   *)
(* the answer goes out after that.  `may` is what a person who sees only   *)
(* requests and answers must reckon with: a request adds what it saves,    *)
(* and a 200 leaves only what saves at the same time may have stored       *)
(* over it.  Neither a 500 nor a broken connection tells anything.         *)

UnderWay == {h \in Handlers : hpc[h] # "idle"}

Requested(h, p) ==
    /\ hval' = [hval EXCEPT ![h] = p]
    /\ may' = may \cup {p}
    /\ over' = [g \in Handlers |->
          IF g = h THEN {p} \cup {hval[f] : f \in UnderWay}
          ELSE IF g \in UnderWay THEN over[g] \cup {p} ELSE over[g]]

\* Mutant: an UPDATE that has met no row counts as a success.
SaveUpdateOnly(h, p) ==
    /\ hpc[h] = "idle" /\ Requested(h, p)
    /\ row' = IF row = NoRow THEN row ELSE p
    /\ hpc' = [hpc EXCEPT ![h] = "stored"]

\* A valid request; invalid ones are answered 400 and change nothing, and so
\* does one whose UPDATE fails, with a 500.
SaveUpdate(h, p) ==
    /\ hpc[h] = "idle" /\ Requested(h, p)
    /\ \/ row # NoRow /\ row' = p /\ hpc' = [hpc EXCEPT ![h] = "stored"]
       \/ row = NoRow /\ row' = row /\ hpc' = [hpc EXCEPT ![h] = "insert"]

Answer(h) ==
    /\ hpc' = [hpc EXCEPT ![h] = "idle"]
    /\ hval' = [hval EXCEPT ![h] = Defaults]
    /\ over' = [over EXCEPT ![h] = {}]

\* user_id is UNIQUE: of two first saves at once the second is refused.  It
\* and one that fails for another reason are answered 500.
SaveInsert(h) ==
    /\ hpc[h] = "insert"
    /\ \/ /\ row = NoRow /\ row' = hval[h]
          /\ hpc' = [hpc EXCEPT ![h] = "stored"]
          /\ UNCHANGED <<hval, may, over, events>>
       \/ /\ row # NoRow \/ events < MaxEvents
          /\ events' = IF row # NoRow THEN events ELSE events + 1
          /\ Answer(h)
          /\ UNCHANGED <<row, may>>

\* The answer 200.
Confirm(h) ==
    /\ hpc[h] = "stored"
    /\ may' = may \cap over[h]
    /\ Answer(h)
    /\ UNCHANGED <<row, events>>

SaveStep(h) ==
    /\ \/ (\E p \in Saves : SaveUpdate(h, p)) /\ UNCHANGED events
       \/ SaveInsert(h)
       \/ Confirm(h)
    /\ UNCHANGED <<clock, alertVars>>

-----------------------------------------------------------------------------
(* Decisions.                                                              *)

\* What a person who sees only requests and answers knows to be switched off.
SurelyOff ==
    {switch \in {"webhook", "email"} : \A value \in may : Meant(value)[switch] = "off"}

\* checkStaleSources has found s stale, or executeSync has synced it: the
\* preferences are read, which may fail.
Read(s, k) ==
    /\ ~reader[s][k].busy /\ Len(alerts) < MaxAlerts
    /\ \E fails \in BOOLEAN :
          /\ reader' = [reader EXCEPT ![s][k] =
                [busy  |-> TRUE,
                 prefs |-> IF fails THEN Defaults ELSE Meant(row),
                 off   |-> IF fails THEN {} ELSE SurelyOff]]
          /\ IF fails THEN Event ELSE UNCHANGED events
    /\ UNCHANGED <<saveVars, clock, marks, lastAlert, alerts, era>>

Asked(p) == IF p.cooldown = NoCooldown THEN CooldownPeriod ELSE p.cooldown * Minute

\* getCooldownPeriod: the product is an int64 and wraps around.
Cooldown(p) ==
    IF Asked(p) < Half THEN Asked(p) ELSE ((Asked(p) + Half) % (2 * Half)) - Half

\* time.Since the last stale alert.
Since(s) == (clock - lastAlert[s]) * Minute

\* Mutant: a user cannot switch off what is on for everybody.
OnUnlessGlobal(switch, global) == switch = "on" \/ global

\* A switch of the user overrides the configuration.
On(switch, global) == IF switch = "unset" THEN global ELSE switch = "on"

\* The webhook switch governs both webhooks.
Chosen(p) ==
    {c \in Channels :
        \/ c = "webhook"  /\ GlobalUrl /\ On(p.webhook, GlobalWebhook)
        \/ c = "personal" /\ p.personal /\ On(p.webhook, TRUE)
        \/ c = "email"    /\ On(p.email, GlobalEmail)}

\* `go sendWithPrefs` with the preferences as they were read.
Launch(s, k) ==
    /\ Len(alerts) < MaxAlerts
    /\ alerts' = Append(alerts,
          [source |-> s, kind |-> k, at |-> clock, era |-> era[s],
           prefs |-> reader[s][k].prefs,
           off |-> reader[s][k].off,
           left |-> Chosen(reader[s][k].prefs), tried |-> {}, lost |-> FALSE])

Done(s, k) == reader' = [reader EXCEPT ![s][k] = Nobody]

\* Mutant: the user's cooldown is not asked.
SendStaleGlobal(s) ==
    /\ reader[s]["stale"].busy
    /\ IF s \in marks /\ Since(s) < CooldownPeriod
       THEN UNCHANGED <<marks, lastAlert, alerts>>
       ELSE /\ marks' = marks \cup {s}
            /\ lastAlert' = [lastAlert EXCEPT ![s] = clock]
            /\ Launch(s, "stale")
    /\ Done(s, "stale")
    /\ UNCHANGED <<saveVars, clock, era, events>>

\* Mutant: only the first alert is noted.
SendStaleUnnoted(s) ==
    /\ reader[s]["stale"].busy
    /\ IF s \in marks /\ Since(s) < Cooldown(reader[s]["stale"].prefs)
       THEN UNCHANGED <<marks, lastAlert, alerts>>
       ELSE /\ marks' = marks \cup {s}
            /\ lastAlert' = IF s \in marks THEN lastAlert
                           ELSE [lastAlert EXCEPT ![s] = clock]
            /\ Launch(s, "stale")
    /\ Done(s, "stale")
    /\ UNCHANGED <<saveVars, clock, era, events>>

\* SendStaleAlertWithPrefs.
SendStale(s) ==
    /\ reader[s]["stale"].busy
    /\ IF s \in marks /\ Since(s) < Cooldown(reader[s]["stale"].prefs)
       THEN UNCHANGED <<marks, lastAlert, alerts>>
       ELSE /\ marks' = marks \cup {s}
            /\ lastAlert' = [lastAlert EXCEPT ![s] = clock]
            /\ Launch(s, "stale")
    /\ Done(s, "stale")
    /\ UNCHANGED <<saveVars, clock, era, events>>

Unmark(s) ==
    /\ marks' = marks \ {s}
    /\ lastAlert' = [lastAlert EXCEPT ![s] = 0]
    /\ era' = [era EXCEPT ![s] = @ + 1]

\* SendRecoveryAlertWithPrefs.
SendRecovery(s) ==
    /\ reader[s]["recovery"].busy
    /\ IF s \in marks THEN Unmark(s) /\ Launch(s, "recovery")
       ELSE UNCHANGED <<marks, lastAlert, alerts, era>>
    /\ Done(s, "recovery")
    /\ UNCHANGED <<saveVars, clock, events>>

\* RemoveJob calls ClearStaleState.
ClearStaleState(s) ==
    /\ s \in marks /\ Event
    /\ Unmark(s)
    /\ UNCHANGED <<saveVars, clock, reader, alerts>>

-----------------------------------------------------------------------------
(* sendWithPrefs, one channel after the other.                             *)

\* Mutant: the first error ends it.
TryUntilError(i, c) ==
    /\ c \in alerts[i].left
    /\ \E rest \in {{}, alerts[i].left \ {c}} :
          alerts' = [alerts EXCEPT ![i].tried = @ \cup {c}, ![i].left = rest]
    /\ UNCHANGED <<saveVars, clock, marks, lastAlert, reader, era, events>>

\* An error is logged, and the next channel is tried.
Try(i, c) ==
    /\ c \in alerts[i].left
    /\ alerts' = [alerts EXCEPT ![i].tried = @ \cup {c}, ![i].left = @ \ {c}]
    /\ UNCHANGED <<saveVars, clock, marks, lastAlert, reader, era, events>>

SendWebhook(i) == Try(i, "webhook")

SendWebhookToURL(i) == "webhook" \notin alerts[i].left /\ Try(i, "personal")

SendEmail(i) == alerts[i].left = {"email"} /\ Try(i, "email")

Send(i) == SendWebhook(i) \/ SendWebhookToURL(i) \/ SendEmail(i)

-----------------------------------------------------------------------------
(* The environment.                                                        *)

\* Time after the last alert tells nothing.
Tick ==
    /\ clock < MaxTime /\ Len(alerts) < MaxAlerts
    /\ clock' = clock + 1
    /\ UNCHANGED <<saveVars, alertVars, events>>

\* The process ends and starts again.  Stop waits for loops and syncs, not
\* for the goroutines that send; only the row survives.
Restart ==
    /\ Event
    /\ hpc' = [h \in Handlers |-> "idle"]
    /\ hval' = [h \in Handlers |-> Defaults]
    /\ over' = [h \in Handlers |-> {}]
    /\ marks' = {}
    /\ lastAlert' = [s \in Sources |-> 0]
    /\ reader' = [s \in Sources |-> [k \in Kinds |-> Nobody]]
    /\ alerts' = [i \in DOMAIN alerts |->
          IF alerts[i].left = {} THEN alerts[i]
          ELSE [alerts[i] EXCEPT !.left = {}, !.lost = TRUE]]
    /\ era' = [s \in Sources |-> era[s] + 1]
    /\ UNCHANGED <<row, may, clock>>

Next ==
    \/ \E h \in Handlers : SaveStep(h)
    \/ \E s \in Sources : \/ \E k \in Kinds : Read(s, k)
                          \/ SendStale(s)
                          \/ SendRecovery(s)
                          \/ ClearStaleState(s)
    \/ \E i \in DOMAIN alerts : Send(i)
    \/ Tick
    \/ Restart

Spec == Init /\ [][Next]_vars

\* A goroutine that sends runs on: every request has a timeout, and a mail
\* server that hangs is the operator's to restart.  They are finitely many, so
\* it is enough that some goroutine goes on while there is one.
FairSpec == Spec /\ WF_vars(\E i \in DOMAIN alerts : Send(i))

-----------------------------------------------------------------------------
(* Properties.                                                             *)

Alerts == [source : Sources, kind : Kinds, at : Nat, era : Nat, prefs : Prefs,
           off : SUBSET {"webhook", "email"}, left : SUBSET Channels,
           tried : SUBSET Channels, lost : BOOLEAN]

TypeOK ==
    /\ row \in Prefs \cup {NoRow} /\ may \subseteq Prefs \cup {NoRow}
    /\ hpc \in [Handlers -> {"idle", "insert", "stored"}]
    /\ over \in [Handlers -> SUBSET Prefs]
    /\ hval \in [Handlers -> Prefs]
    /\ clock \in 0 .. MaxTime
    /\ marks \subseteq Sources
    /\ lastAlert \in [Sources -> 0 .. MaxTime]
    /\ reader \in [Sources -> [Kinds ->
          [busy : BOOLEAN, prefs : Prefs, off : SUBSET {"webhook", "email"}]]]
    /\ alerts \in Seq(Alerts) /\ Len(alerts) <= MaxAlerts
    /\ era \in [Sources -> Nat]
    /\ events \in 0 .. MaxEvents

\* What a save stores, its own answer must leave possible, and so must the
\* answers to the others.
SaveInv ==
    /\ \A h \in Handlers : hpc[h] = "stored" => row \in over[h]
    /\ \A h, g \in UnderWay : hval[g] \in over[h] \cap may

\* What was surely off when the preferences were read is off in them, unless
\* they could not be read, and an alert goes nowhere but where they say.
DecisionInv ==
    /\ \A s \in Sources, k \in Kinds :
          \A switch \in reader[s][k].off : reader[s][k].prefs[switch] = "off"
    /\ \A i \in DOMAIN alerts : LET a == alerts[i] IN
          /\ \A switch \in a.off : a.prefs[switch] = "off"
          /\ a.left \cup a.tried \subseteq Chosen(a.prefs)

\* Every stale alert of the present era is covered by the mark and the time
\* in lastAlertTimes, which the cooldown is counted from.
MarkInv ==
    \A i \in DOMAIN alerts : LET a == alerts[i] IN
        /\ a.at <= clock /\ a.era <= era[a.source]
        /\ a.kind = "stale" /\ a.era = era[a.source] =>
              a.source \in marks /\ a.at <= lastAlert[a.source]

\* Whatever the order in which saves of the user are stored and answered, and
\* wherever the process ends between the two, the row says what a person who
\* has seen only the answers reckons with: a save that was answered 200 is
\* stored unless another save was under way meanwhile or came later.
AckedStored == row \in may

\* Once nothing but "off" can be in the row, judged by the answers alone, no
\* alert whose preferences are read from then on is sent on that channel;
\* only if they could not be read do the global switches decide.
OptOutHonoured ==
    \A i \in DOMAIN alerts : LET a == alerts[i] IN
        /\ "webhook" \in a.off => a.tried \subseteq {"email"}
        /\ "email" \in a.off => "email" \notin a.tried

\* "How long to wait before re-alerting for same source" (notify.go:62): two
\* stale alerts about a source are as far apart as the user's cooldown at the
\* second one says, unless its mark was taken away in between or the product
\* of that cooldown and a minute does not fit into a duration.
CooldownKept ==
    \A i, j \in DOMAIN alerts : LET a == alerts[i]  b == alerts[j] IN
        /\ i < j
        /\ a.kind = "stale" /\ b.kind = "stale"
        /\ a.source = b.source /\ a.era = b.era
        /\ Asked(b.prefs) < Half
        => (b.at - a.at) * Minute >= Asked(b.prefs)

\* The inductive invariant of the proofs.
IInv == TypeOK /\ SaveInv /\ AckedStored /\ DecisionInv /\ MarkInv /\ CooldownKept

\* Every channel that the preferences of an alert ask for is tried, whatever
\* happens to the others, unless the process ends first.
EveryChannelTried ==
    []<>(\A i \in DOMAIN alerts :
            alerts[i].lost \/ Chosen(alerts[i].prefs) \subseteq alerts[i].tried)
=============================================================================
