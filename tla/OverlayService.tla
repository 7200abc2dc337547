--------------------------- MODULE OverlayService ---------------------------
(***************************************************************************)
(* The service around the store: the tables rules and operations of         *)
(* metadata.db, the pipe thread that serves one client request at a time,   *)
(* the driver's cache of enabled rules, and the stop and the start of the   *)
(* service, with the recovery of operations that were interrupted.          *)
(*                                                                          *)
(* What a commit or discard does to files and change records is in          *)
(* OverlayStore; here it succeeds or fails.  A rule is deleted only when it *)
(* has no change records, which is left open here.                          *)
(***************************************************************************)
EXTENDS Naturals, Sequences, FiniteSets

CONSTANTS
    Rules,           \* the rules that can be added
    Extra,           \* bound: those that play a part only in behaviours with "many" rules
    MaxDriverRules,  \* PATHOVERLAY_MAX_DRIVER_RULES
    MaxOps,          \* bound: rows of the table operations
    MaxStops,        \* bound: how often the service stops; once if it never ends abruptly
    Troubles         \* the combinations of trouble to look at

\* crash:    the service ends abruptly while it serves a request or starts
\* gap:      so it does when a failed or interrupted operation is marked as one
\*           already, and the rule it paused is not enabled again yet
\* driver:   a message to the driver fails
\* database: a statement on metadata.db fails
\* source:   the directories that a rule names come and go, or change
\* many:     there may be more rules than the driver holds
TroubleKinds == {"crash", "gap", "driver", "database", "source", "many"}

ASSUME BoundsAssumption == MaxDriverRules \in Nat /\ MaxOps \in Nat /\ MaxStops \in Nat
ASSUME RulesAssumption == IsFiniteSet(Rules)
ASSUME TroublesAssumption == Troubles \subseteq SUBSET TroubleKinds

VARIABLES
    trouble,    \* the kinds of trouble this behaviour meets
    rules,      \* the table rules: whether a rule is there, and enabled
    fit,        \* what a push makes of a rule: "fit", "invalid" to ValidateOverlayRule
                \* (its source is gone, a file or a reparse point, or its store is a
                \* file), or "unmapped": without NT paths that fit into the message
    wanted,     \* the rules that the user enabled last, for the properties
    ops,        \* the table operations, in the order of started_at
    cache,      \* the rules in the driver's cache
    connected,  \* the service has a connection to the driver
    pc,         \* where the service is
    push,       \* where PushDriverRules is
    succeeded,  \* the result of Commit or Discard
    stops       \* how often the service has stopped

vars == <<trouble, rules, fit, wanted, ops, cache, connected, pc, push, succeeded, stops>>
tables == <<rules, wanted, ops>>
driver == <<cache, connected>>
service == <<succeeded, stops, trouble, fit>>

\* The handler of commit and discard returns, and its local variables are gone.
Return ==
    /\ pc' = "idle"
    /\ push' = "none"
    /\ succeeded' = FALSE
    /\ UNCHANGED <<stops, trouble, fit>>

Enabled == {r \in Rules : rules[r] = "enabled"}

\* The operation of the request in hand.
Current == ops[Len(ops)]

\* UpdateOperationRecord of that operation.
Mark(status, phase) ==
    [ops EXCEPT ![Len(ops)].status = status, ![Len(ops)].phase = phase]

\* The same where the handler does not look at the outcome.
MarkIfPossible(status, phase) ==
    \/ ops' = Mark(status, phase)
    \/ "database" \in trouble /\ UNCHANGED ops

\* SetRuleEnabled in the table.
SetRule(r, state) == [rules EXCEPT ![r] = state]

\* The same where the handler does not look at the outcome.
EnableIfPossible(r) ==
    \/ rules' = SetRule(r, "enabled")
    \/ "database" \in trouble /\ UNCHANGED rules

-----------------------------------------------------------------------------
Init ==
    /\ trouble \in Troubles
    /\ rules = [r \in Rules |-> "absent"]
    /\ fit = [r \in Rules |-> "fit"]
    /\ wanted = {}
    /\ ops = <<>>
    /\ cache = {}
    /\ connected = FALSE
    /\ pc = "down"
    /\ push = "none"
    /\ succeeded = FALSE
    /\ stops = 0

(***************************************************************************)
(* PushDriverRules: the driver's cache is cleared, and then filled with one *)
(* message per enabled rule.  After a failure it is cleared again.          *)
(***************************************************************************)

\* The enabled rules are not too many, and each is valid still.
Pushable == Cardinality(Enabled) <= MaxDriverRules /\ \A r \in Enabled : fit[r] # "invalid"

\* Without a connection no message is sent.
ClearDriverRule ==
    /\ push = "clear"
    /\ \/ /\ connected
          /\ cache' = {}
          /\ \/ push' = IF Pushable THEN "set" ELSE "failed"
             \/ pc = "starting" /\ "database" \in trouble /\ push' = "failed"
       \/ /\ ~connected \/ "driver" \in trouble
          /\ push' = "failed"
          /\ UNCHANGED cache
    /\ UNCHANGED <<tables, connected, pc, service>>

PushDriverRule(r) ==
    /\ push = "set"
    /\ r \in Enabled \ cache
    /\ fit[r] = "fit"
    /\ cache' = cache \union {r}
    /\ UNCHANGED <<tables, connected, pc, push, service>>

\* Variant: the cache is not cleared again for a rule without an NT path.
FailPushHalfway ==
    /\ push = "set"
    /\ \E r \in Enabled \ cache : fit[r] # "fit" \/ "driver" \in trouble
    /\ push' = "failed"
    /\ UNCHANGED <<tables, cache, connected, pc, service>>

\* The next rule is not fit, or its message fails; the one that clears may fail too.
FailPush ==
    /\ push = "set"
    /\ \E r \in Enabled \ cache : fit[r] # "fit" \/ "driver" \in trouble
    /\ cache' \in {{}} \union (IF "driver" \in trouble THEN {cache} ELSE {})
    /\ push' = "failed"
    /\ UNCHANGED <<tables, connected, pc, service>>

FinishPush ==
    /\ push = "set"
    /\ Enabled \subseteq cache
    /\ push' = "ok"
    /\ UNCHANGED <<tables, driver, pc, service>>

(***************************************************************************)
(* rule add, rule enable, rule disable, rule delete.  The client is told    *)
(* about a failed push, but the table is not changed back.                  *)
(***************************************************************************)

\* The push is not tried when the rules cannot be listed.
Sync ==
    /\ pc' = "sync"
    /\ push' \in {"clear"} \union (IF "database" \in trouble THEN {"failed"} ELSE {})

\* The rule and all rules in the table, enabled or not, have to be valid.
AddRule(r) ==
    /\ pc = "idle"
    /\ rules[r] = "absent"
    /\ \A q \in Rules : fit[q] = "invalid" => q # r /\ rules[q] = "absent"
    /\ rules' = SetRule(r, "enabled")
    /\ wanted' = wanted \union {r}
    /\ Sync
    /\ UNCHANGED <<ops, driver, service>>

SetRuleEnabled(r, state) ==
    /\ pc = "idle"
    /\ rules[r] # "absent"
    /\ rules' = SetRule(r, state)
    /\ wanted' = IF state = "enabled" THEN wanted \union {r} ELSE wanted \ {r}
    /\ Sync
    /\ UNCHANGED <<ops, driver, service>>

\* Variant: foreign keys are not enforced.
DeleteRuleOnly(r) ==
    /\ pc = "idle"
    /\ rules[r] # "absent"
    /\ rules' = SetRule(r, "absent")
    /\ wanted' = wanted \ {r}
    /\ Sync
    /\ UNCHANGED <<ops, driver, service>>

\* Such a sequence lists the rows of operations that stay without the rule, in order.
Keeps(rows, r) ==
    /\ \A i, j \in DOMAIN rows : i < j => rows[i] < rows[j]
    /\ {rows[i] : i \in DOMAIN rows} = {i \in DOMAIN ops : ops[i].rule # r}

\* The rows of operations that name the rule go with it.
DeleteRule(r) ==
    /\ pc = "idle"
    /\ rules[r] # "absent"
    /\ rules' = SetRule(r, "absent")
    /\ wanted' = wanted \ {r}
    /\ \E n \in 0 .. Len(ops) : \E rows \in [1 .. n -> DOMAIN ops] :
           Keeps(rows, r) /\ ops' = [i \in 1 .. n |-> ops[rows[i]]]
    /\ Sync
    /\ UNCHANGED <<driver, service>>

Answer ==
    /\ pc \in {"sync", "starting"}
    /\ push \in {"ok", "failed"}
    /\ pc' = "idle"
    /\ push' = "none"
    /\ UNCHANGED <<tables, driver, service>>

(***************************************************************************)
(* commit and discard.                                                      *)
(***************************************************************************)

Begin(r) ==
    /\ pc = "idle"
    /\ rules[r] # "absent"
    /\ Len(ops) < MaxOps
    /\ ops' = Append(ops, [rule |-> r, status |-> "running", phase |-> "created",
                           wasEnabled |-> rules[r] = "enabled"])
    /\ pc' = "created"
    /\ UNCHANGED <<rules, wanted, driver, push, service>>

\* Nobody holds a file of the rule's changes.
Precheck ==
    /\ pc = "created"
    /\ ops' = Mark("running", "prechecked")
    /\ pc' = IF Current.wasEnabled THEN "pause" ELSE "apply"
    /\ UNCHANGED <<rules, wanted, driver, push, service>>

Refuse ==
    /\ pc = "created"
    /\ MarkIfPossible("failed", "created")
    /\ Return
    /\ UNCHANGED <<rules, wanted, driver>>

\* The handler returns because it cannot update the operation.
FailUpdate ==
    /\ "database" \in trouble
    /\ pc \in {"created", "apply", "applying", "finish"}
    /\ Return
    /\ UNCHANGED <<tables, driver>>

\* Variant: the driver is not told that the rule is paused.
PauseSilently ==
    /\ pc = "pause"
    /\ rules' = SetRule(Current.rule, "disabled")
    /\ pc' = "pausing"
    /\ push' = "ok"
    /\ UNCHANGED <<wanted, ops, driver, service>>

\* Without a connection the push is skipped.
Pause ==
    /\ pc = "pause"
    /\ rules' = SetRule(Current.rule, "disabled")
    /\ pc' = "pausing"
    /\ push' = IF connected THEN "clear" ELSE "ok"
    /\ UNCHANGED <<wanted, ops, driver, service>>

\* The rule cannot be disabled, or the rules not be listed.
FailPause ==
    /\ pc = "pause"
    /\ "database" \in trouble
    /\ rules' \in {rules, SetRule(Current.rule, "disabled")}
    /\ MarkIfPossible("failed", "prechecked")
    /\ Return
    /\ UNCHANGED <<wanted, driver>>

Paused ==
    /\ pc = "pausing"
    /\ push = "ok"
    /\ ops' = Mark("running", "rule_paused")
    /\ pc' = "apply"
    /\ push' = "none"
    /\ UNCHANGED <<rules, wanted, driver, service>>

\* Variant: the operation ends and the rule stays disabled.
GiveUpPaused ==
    /\ pc = "pausing"
    /\ push = "failed" /\ MarkIfPossible("failed", "prechecked")
    /\ Return
    /\ UNCHANGED <<rules, wanted, driver>>

\* The push failed, or the operation cannot be updated after it: the rule is
\* enabled in the table again, but not pushed again.
GiveUp ==
    /\ pc = "pausing"
    /\ \/ push = "failed" /\ MarkIfPossible("failed", "prechecked")
       \/ push = "ok" /\ "database" \in trouble /\ UNCHANGED ops
    /\ EnableIfPossible(Current.rule)
    /\ Return
    /\ UNCHANGED <<wanted, driver>>

Apply ==
    /\ pc = "apply"
    /\ ops' = Mark("running", "applying")
    /\ pc' = "applying"
    /\ UNCHANGED <<rules, wanted, driver, push, service>>

Applied ==
    /\ pc = "applying"
    /\ ops' = Mark("running", "cleanup")
    /\ succeeded' = TRUE
    /\ pc' = IF Current.wasEnabled THEN "restore" ELSE "finish"
    /\ UNCHANGED <<rules, fit, wanted, driver, push, stops, trouble>>

FailApply ==
    /\ pc = "applying"
    /\ MarkIfPossible("failed", "applying")
    /\ IF Current.wasEnabled
       THEN pc' = "restore" /\ UNCHANGED <<push, service>>
       ELSE Return
    /\ UNCHANGED <<rules, wanted, driver>>

\* The operation is marked whether Commit or Discard succeeded or not.
Restore ==
    /\ pc = "restore"
    /\ MarkIfPossible("running", "restoring_rule")
    /\ pc' = "enable"
    /\ UNCHANGED <<rules, wanted, driver, push, service>>

Enable ==
    /\ pc = "enable"
    /\ rules' = SetRule(Current.rule, "enabled")
    /\ pc' = "restoring"
    /\ push' = IF connected THEN "clear" ELSE "ok"
    /\ UNCHANGED <<wanted, ops, driver, service>>

FailEnable ==
    /\ pc = "enable"
    /\ "database" \in trouble
    /\ rules' \in {rules, SetRule(Current.rule, "enabled")}
    /\ MarkIfPossible("failed", "restoring_rule")
    /\ Return
    /\ UNCHANGED <<wanted, driver>>

\* Variant: the outcome of the push is not looked at.
RestoredAnyway ==
    /\ pc = "restoring"
    /\ push \in {"ok", "failed"}
    /\ IF succeeded
       THEN pc' = "finish" /\ push' = "none" /\ UNCHANGED service
       ELSE Return
    /\ UNCHANGED <<tables, driver>>

Restored ==
    /\ pc = "restoring"
    /\ push = "ok"
    /\ IF succeeded
       THEN pc' = "finish" /\ push' = "none" /\ UNCHANGED service
       ELSE Return
    /\ UNCHANGED <<tables, driver>>

FailRestore ==
    /\ pc = "restoring"
    /\ push = "failed"
    /\ MarkIfPossible("failed", "restoring_rule")
    /\ Return
    /\ UNCHANGED <<rules, wanted, driver>>

Finish ==
    /\ pc = "finish"
    /\ ops' = Mark("done", "finished")
    /\ Return
    /\ UNCHANGED <<rules, wanted, driver>>

(***************************************************************************)
(* The service stops, or ends abruptly, and is started again.  The driver   *)
(* keeps its cache when the connection goes.                                *)
(***************************************************************************)

FailedUnrestored == pc = "restore" /\ Current.status = "failed"

Stop ==
    /\ stops < MaxStops /\ ("crash" \notin trouble => stops = 0)
    /\ pc # "down"
    /\ \/ pc = "idle"
       \/ "crash" \in trouble /\ (FailedUnrestored => "gap" \in trouble)
    /\ stops' = stops + 1
    /\ connected' = FALSE
    /\ pc' = "down"
    /\ push' = "none"
    /\ succeeded' = FALSE
    /\ UNCHANGED <<tables, cache, trouble, fit>>

Launch ==
    /\ pc = "down"
    /\ pc' = "recovering"
    /\ UNCHANGED <<tables, driver, push, service>>

Interrupted == {i \in DOMAIN ops : ops[i].status = "running"}

First(S) == CHOOSE i \in S : \A j \in S : i <= j

RecoveredStatus(op) ==
    IF op.phase \in {"applying", "cleanup"} THEN "failed" ELSE "recoverable"

\* Variant: the rule is not enabled again.
MarkInterrupted ==
    /\ pc = "recovering"
    /\ Interrupted # {}
    /\ ops' = [ops EXCEPT ![First(Interrupted)].status = RecoveredStatus(ops[First(Interrupted)])]
    /\ UNCHANGED <<rules, wanted, driver, pc, push, service>>

\* RecoverInterruptedOperations for the next operation: it is marked first, and
\* then its rule enabled, if it was before; the service may end in between.
RecoverInterrupted ==
    /\ pc = "recovering"
    /\ Interrupted # {}
    /\ LET i == First(Interrupted)
       IN  /\ ops' = [ops EXCEPT ![i].status = RecoveredStatus(ops[i])]
           /\ \/ ops[i].wasEnabled /\ rules' = SetRule(ops[i].rule, "enabled")
              \/ /\ ops[i].wasEnabled => trouble \intersect {"database", "gap"} # {}
                 /\ UNCHANGED rules
    /\ UNCHANGED <<wanted, driver, pc, push, service>>

\* ConnectDriverPort and SyncDriverRuleCache.
Start ==
    /\ pc = "recovering"
    /\ Interrupted = {}
    /\ connected' \in {TRUE} \union (IF "driver" \in trouble THEN {FALSE} ELSE {})
    /\ push' = IF connected' THEN "clear" ELSE "ok"
    /\ pc' = "starting"
    /\ UNCHANGED <<tables, cache, service>>

\* Somebody removes, replaces or moves the directories that a rule names.
ChangeSource(r) ==
    /\ "source" \in trouble
    /\ fit' \in {[fit EXCEPT ![r] = state] : state \in {"fit", "invalid", "unmapped"}}
    /\ UNCHANGED <<tables, driver, pc, push, succeeded, stops, trouble>>

-----------------------------------------------------------------------------
PushStep == ClearDriverRule \/ FailPush \/ FinishPush \/ \E r \in Rules : PushDriverRule(r)

OperationStep ==
    \/ Precheck \/ Refuse \/ FailUpdate \/ Pause \/ FailPause \/ Paused \/ GiveUp
    \/ Apply \/ Applied \/ FailApply \/ Restore \/ Enable \/ FailEnable
    \/ Restored \/ FailRestore \/ Finish

ServiceStep == PushStep \/ OperationStep \/ Answer \/ RecoverInterrupted \/ Start

UserStep ==
    \E r \in Rules :
        \/ (r \in Extra => "many" \in trouble) /\ (AddRule(r) \/ ChangeSource(r))
        \/ DeleteRule(r) \/ Begin(r)
        \/ \E state \in {"enabled", "disabled"} : SetRuleEnabled(r, state)

Next == ServiceStep \/ UserStep \/ Stop \/ Launch

\* The service's threads run on while it is up.  Nobody has to use it or, with
\* SERVICE_DEMAND_START, to start it.
Spec == Init /\ [][Next]_vars /\ WF_vars(ServiceStep)
-----------------------------------------------------------------------------
(***************************************************************************)
(* Properties.                                                              *)
(***************************************************************************)

Phases == {"created", "prechecked", "rule_paused", "applying", "cleanup",
           "restoring_rule", "finished"}

Operations == [rule : Rules, status : {"running", "done", "failed", "recoverable"},
               phase : Phases, wasEnabled : BOOLEAN]

\* Every variable holds a value of its type; an operation names a rule that is there.
TypeOK ==
    /\ trouble \in Troubles
    /\ rules \in [Rules -> {"absent", "disabled", "enabled"}]
    /\ fit \in [Rules -> {"fit", "invalid", "unmapped"}]
    /\ wanted \subseteq Rules
    /\ ops \in Seq(Operations)
    /\ \A i \in DOMAIN ops : rules[ops[i].rule] # "absent"
    /\ cache \subseteq Rules
    /\ connected \in BOOLEAN
    /\ pc \in {"down", "recovering", "starting", "idle", "sync", "created", "pause",
               "pausing", "apply", "applying", "restore", "enable", "restoring", "finish"}
    /\ push \in {"none", "clear", "set", "ok", "failed"}
    /\ succeeded \in BOOLEAN
    /\ stops \in 0 .. MaxStops

\* While files are committed or discarded the rule is disabled, so that the service
\* refuses requests for it, and the driver it paused does not redirect them.
AppliesWhilePaused ==
    pc = "applying" =>
        /\ rules[Current.rule] = "disabled"
        /\ connected /\ Current.wasEnabled => Current.rule \notin cache

\* An operation is marked done only when a rule that it paused is enabled again and
\* the driver has exactly the enabled rules.
DoneIsRestored ==
    [][pc = "finish" /\ pc' = "idle" /\ ops' # ops /\ Current.wasEnabled =>
            rules[Current.rule] = "enabled" /\ (connected => cache = Enabled)]_vars

\* A rule that the user enabled and that is not enabled has an operation from which
\* the recovery at the next start enables it, wherever else the service ends.  A
\* failed statement, or an end in the gap, leaves the rule disabled for good.
PauseIsRecoverable ==
    trouble \intersect {"database", "gap"} = {} /\ ~FailedUnrestored =>
        \A r \in wanted : rules[r] = "disabled" =>
            \E i \in Interrupted : ops[i].rule = r /\ ops[i].wasEnabled

\* Between requests a connected driver has the enabled rules, or none of them: when
\* they are too many or, by the time PushDriverRules validates and maps them, one of
\* them is no longer fit.  It is never left with a part of them, or with one that is
\* disabled, deleted or paused.  A failed message or statement can leave it so.
CacheFollowsRules ==
    pc = "idle" /\ connected /\ trouble \intersect {"database", "driver"} = {} =>
        \/ cache = Enabled /\ Cardinality(Enabled) <= MaxDriverRules
        \/ cache = {} /\ (Cardinality(Enabled) > MaxDriverRules \/ "source" \in trouble)

\* A rule that the user enabled does not stay paused while the service is up.
PausedIsResumed ==
    trouble \intersect {"database", "gap"} = {} =>
        \A r \in Rules :
            (r \in wanted /\ rules[r] = "disabled" /\ pc # "down")
                ~> (r \notin wanted \/ rules[r] = "enabled" \/ pc = "down")
=============================================================================
