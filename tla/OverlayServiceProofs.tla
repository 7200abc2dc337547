------------------------- MODULE OverlayServiceProofs -------------------------
(***************************************************************************)
(* Theorems about OverlayService for any finite set of rules, any limit of  *)
(* the driver and any bounds, in any trouble.                               *)
(***************************************************************************)
EXTENDS OverlayService, FiniteSetTheorems, SequenceTheorems, WellFoundedInduction, TLAPS

-----------------------------------------------------------------------------
(***************************************************************************)
(* The inductive form of TypeOK.  What is added is that a request in hand   *)
(* has its operation.                                                       *)
(***************************************************************************)

\* Where the pipe thread is while it serves a commit or a discard.
Busy == {"created", "pause", "pausing", "apply", "applying", "restore", "enable", "restoring", "finish"}

TypeInv == TypeOK /\ (pc \in Busy => ops # <<>>)

(***************************************************************************)
(* The operation in hand and its rule.                                      *)
(***************************************************************************)

\* The rule of the operation in hand is as the operation found it, or paused, or
\* enabled again.
PauseInv ==
    pc \in Busy =>
        /\ pc \in {"pause", "pausing", "restore", "enable", "restoring"} => Current.wasEnabled
        /\ ~Current.wasEnabled => rules[Current.rule] = "disabled"
        /\ pc \in {"created", "pause", "restoring", "finish"} /\ Current.wasEnabled =>
               rules[Current.rule] = "enabled"
        /\ pc \in {"pausing", "apply", "applying"} => rules[Current.rule] = "disabled"

(***************************************************************************)
(* The driver's cache during and after a push.                              *)
(***************************************************************************)
Fits == Cardinality(Enabled) <= MaxDriverRules

PushInv ==
    /\ push # "none" => pc \in {"sync", "starting", "pausing", "restoring"}
    /\ pc \in {"down", "recovering"} => ~connected
    /\ push = "set" => connected /\ cache \subseteq Enabled /\ Fits
    /\ push = "ok" /\ connected => cache = Enabled /\ Fits
    /\ pc \in {"apply", "applying"} /\ connected /\ Current.wasEnabled => Current.rule \notin cache
    /\ pc = "finish" /\ connected /\ Current.wasEnabled => cache = Enabled

\* A push may fail where every message and statement succeeds.
Unfit == ~Fits \/ "source" \in trouble

\* Where every message and statement succeeds, only too many rules, or one whose
\* directories have changed, make a push fail; and the cache is empty then.
CacheInv ==
    /\ "source" \notin trouble => \A r \in Rules : fit[r] = "fit"
    /\ trouble \intersect {"database", "driver"} = {} /\ connected =>
           /\ push = "failed" => cache = {} /\ Unfit
           /\ push = "none" => (cache = Enabled /\ Fits) \/ (cache = {} /\ Unfit)

(***************************************************************************)
(* What the recovery finds.                                                 *)
(***************************************************************************)

\* An operation from which a start of the service enables r again.
Witnesses(r) == {i \in Interrupted : ops[i].rule = r /\ ops[i].wasEnabled}

RecoverInv ==
    trouble \intersect {"database", "gap"} = {} =>
        /\ pc \in Busy \ {"restore"} => Current.status = "running"
        /\ \A r \in wanted : rules[r] = "disabled" =>
               \/ Witnesses(r) # {}
               \/ FailedUnrestored /\ r = Current.rule

-----------------------------------------------------------------------------
\* The rows of operations as they are typed, and the one in hand.
LEMMA OpsFacts ==
    ASSUME TypeInv
    PROVE  /\ ops \in Seq(Operations) /\ Len(ops) \in Nat /\ DOMAIN ops = 1 .. Len(ops)
           /\ \A i \in 1 .. Len(ops) : ops[i] \in Operations /\ ops[i].rule \in Rules
           /\ pc \in Busy => /\ Len(ops) \in 1 .. Len(ops) /\ Current \in Operations
                            /\ Current.rule \in Rules /\ rules[Current.rule] # "absent"
<1>1. ops \in Seq(Operations) /\ \A i \in DOMAIN ops : rules[ops[i].rule] # "absent"
  BY DEF TypeInv, TypeOK
<1>2. Len(ops) \in Nat /\ DOMAIN ops = 1 .. Len(ops)
  BY <1>1, LenProperties
<1>3. \A i \in 1 .. Len(ops) : ops[i] \in Operations
  BY <1>1, ElementOfSeq
<1>4. \A i \in 1 .. Len(ops) : ops[i].rule \in Rules
  BY <1>3 DEF Operations
<1>5. pc \in Busy => Len(ops) \in 1 .. Len(ops)
  BY <1>1, <1>2, EmptySeq DEF TypeInv
<1>6. QED
  BY <1>1, <1>2, <1>3, <1>4, <1>5 DEF Current

\* The rows of operations are the same but for their status and phase.
RowsKept ==
    /\ ops' \in Seq(Operations) /\ Len(ops') = Len(ops)
    /\ \A i \in 1 .. Len(ops) : ops'[i].rule = ops[i].rule /\ ops'[i].wasEnabled = ops[i].wasEnabled

\* Of the rows of operations only the one in hand changes, if any.
OthersKept == \A i \in 1 .. Len(ops) : i # Len(ops) => ops'[i] = ops[i]

\* UpdateOperationRecord changes the status and the phase of the operation in hand.
LEMMA MarkEffect ==
    ASSUME TypeInv, pc \in Busy, NEW status \in {"running", "done", "failed", "recoverable"},
           NEW phase \in Phases, ops' = Mark(status, phase)
    PROVE  RowsKept /\ OthersKept /\ Current'.status = status
<1> DEFINE n == Len(ops)
           marked == [ops EXCEPT ![n].status = status]
           row == [ops[n] EXCEPT !.status = status, !.phase = phase]
<1>1. n \in 1 .. n /\ n \in Nat /\ ops \in Seq(Operations) /\ DOMAIN ops = 1 .. n /\ ops[n] \in Operations
  BY OpsFacts
<1>2. row \in Operations /\ row.rule = ops[n].rule /\ row.wasEnabled = ops[n].wasEnabled
          /\ row.status = status
  BY <1>1 DEF Operations
<1>3. ops' = [marked EXCEPT ![n].phase = phase]
  BY DEF Mark
<1>4. \A i \in 1 .. n : ops'[i] = IF i = n THEN row ELSE ops[i]
  BY <1>1, <1>3
<1>5. ops' = [i \in 1 .. n |-> ops'[i]]
  BY <1>1, <1>3
<1>6. \A i \in 1 .. n : ops'[i] \in Operations
  BY <1>1, <1>2, <1>4, OpsFacts
<1>7. ops' \in Seq(Operations) /\ Len(ops') = n
  <2>1. ops' \in [1 .. n -> Operations]
    BY <1>5, <1>6
  <2>2. QED
    BY <1>1, <2>1, SeqDef, LenProperties
<1>8. QED
  BY <1>1, <1>2, <1>4, <1>7 DEF RowsKept, OthersKept, Current

\* So the operation in hand remains that of the same rule.
LEMMA SameInHand ==
    ASSUME TypeInv, pc \in Busy, RowsKept
    PROVE  Current'.rule = Current.rule /\ Current'.wasEnabled = Current.wasEnabled
<1>1. Len(ops) \in 1 .. Len(ops) /\ Len(ops') = Len(ops)
  BY OpsFacts DEF RowsKept
<1>2. QED
  BY <1>1 DEF RowsKept, Current

\* A table that does not change keeps its rows.
LEMMA UnchangedRows ==
    ASSUME TypeInv, UNCHANGED ops
    PROVE  RowsKept /\ OthersKept
  BY OpsFacts DEF RowsKept, OthersKept

\* Every step of a commit or discard has its operation in hand, and changes no more
\* of the table than its status and phase.
LEMMA OperationRows ==
    ASSUME TypeInv, OperationStep
    PROVE  /\ pc \in Busy /\ pc' \in Busy \union {"idle"}
           /\ RowsKept /\ OthersKept
           /\ UNCHANGED ops \/ \E status \in {"running", "done", "failed", "recoverable"} :
                                    Current'.status = status
<1>1. pc \in Busy /\ pc' \in Busy \union {"idle"}
  BY DEF OperationStep, Precheck, Refuse, FailUpdate, Pause, FailPause, Paused, GiveUp, Apply, Applied,
         FailApply, Restore, Enable, FailEnable, Restored, FailRestore, Finish, Return, Busy
<1>2. UNCHANGED ops \/ \E status \in {"running", "done", "failed"}, phase \in Phases : ops' = Mark(status, phase)
  BY DEF OperationStep, Precheck, Refuse, FailUpdate, Pause, FailPause, Paused, GiveUp, Apply, Applied,
         FailApply, Restore, Enable, FailEnable, Restored, FailRestore, Finish, MarkIfPossible, Phases, tables
<1>3. QED
  BY <1>1, <1>2, MarkEffect, UnchangedRows

-----------------------------------------------------------------------------
(***************************************************************************)
(* Types.                                                                   *)
(***************************************************************************)

\* The service starts down and with empty tables.
LEMMA InitTypes ==
    ASSUME Init
    PROVE  TypeInv
<1>1. ops \in Seq(Operations) /\ DOMAIN ops = {}
  BY EmptySeq, LenProperties DEF Init
<1>2. stops \in 0 .. MaxStops
  BY BoundsAssumption DEF Init
<1>3. rules \in [Rules -> {"absent", "disabled", "enabled"}]
  BY DEF Init
<1>4. TypeOK
  BY <1>1, <1>2, <1>3 DEF Init, TypeOK
<1>5. QED
  BY <1>4 DEF Init, TypeInv, Busy

\* A step of the push changes the cache and the push alone.
LEMMA PushTypes ==
    ASSUME TypeInv, PushStep
    PROVE  TypeInv'
<1>1. UNCHANGED <<trouble, fit, rules, wanted, ops, connected, pc, succeeded, stops>>
  BY DEF PushStep, ClearDriverRule, FailPush, FinishPush, PushDriverRule, tables, driver, service
<1>2. cache' \subseteq Rules /\ push' \in {"clear", "set", "ok", "failed"}
  BY DEF PushStep, ClearDriverRule, FailPush, FinishPush, PushDriverRule, tables, driver, service,
         Enabled, TypeInv, TypeOK
<1>3. QED
  BY <1>1, <1>2 DEF TypeInv, TypeOK

\* A step of a commit or discard leaves each rule in the table.
LEMMA OperationTypes ==
    ASSUME TypeInv, OperationStep
    PROVE  TypeInv'
<1>1. UNCHANGED <<trouble, fit, wanted, cache, connected, stops>>
  BY DEF OperationStep, Precheck, Refuse, FailUpdate, Pause, FailPause, Paused, GiveUp, Apply, Applied,
         FailApply, Restore, Enable, FailEnable, Restored, FailRestore, Finish, Return,
         tables, driver, service
<1>2. /\ push' \in {push, "none", "clear", "ok"}
      /\ succeeded' \in {succeeded, TRUE, FALSE}
  BY DEF OperationStep, Precheck, Refuse, FailUpdate, Pause, FailPause, Paused, GiveUp, Apply, Applied,
         FailApply, Restore, Enable, FailEnable, Restored, FailRestore, Finish, Return,
         tables, driver, service
<1>3. \/ UNCHANGED rules
      \/ \E state \in {"enabled", "disabled"} : rules' = SetRule(Current.rule, state)
  BY DEF OperationStep, Precheck, Refuse, FailUpdate, Pause, FailPause, Paused, GiveUp, Apply, Applied,
         FailApply, Restore, Enable, FailEnable, Restored, FailRestore, Finish, Return,
         EnableIfPossible, tables, driver, service
<1>4. /\ rules' \in [Rules -> {"absent", "disabled", "enabled"}]
      /\ \A r \in Rules : rules[r] # "absent" => rules'[r] # "absent"
  BY <1>3 DEF SetRule, TypeInv, TypeOK
<1>5. pc \in Busy /\ pc' \in Busy \union {"idle"} /\ RowsKept
  BY OperationRows
<1>6. \A i \in DOMAIN ops' : rules'[ops'[i].rule] # "absent"
  <2>1. DOMAIN ops' = 1 .. Len(ops)
    BY <1>5, LenProperties DEF RowsKept
  <2>2. QED
    BY <1>4, <1>5, <2>1, OpsFacts DEF RowsKept, TypeInv, TypeOK
<1>7. ops' # <<>>
  BY <1>5, OpsFacts, EmptySeq DEF RowsKept
<1>8. QED
  BY <1>1, <1>2, <1>4, <1>5, <1>6, <1>7 DEF RowsKept, TypeInv, TypeOK, Busy

\* A request for a rule keeps to the rules there are.
LEMMA AddTypes ==
    ASSUME TypeInv, NEW r \in Rules, AddRule(r)
    PROVE  TypeInv'
<1>1. /\ rules' \in [Rules -> {"absent", "disabled", "enabled"}]
      /\ \A q \in Rules : rules[q] # "absent" => rules'[q] # "absent"
  BY DEF AddRule, SetRule, TypeInv, TypeOK
<1>2. UNCHANGED <<trouble, fit, ops, cache, connected, succeeded, stops>>
  BY DEF AddRule, driver, service
<1>3. wanted' \subseteq Rules /\ pc' = "sync" /\ push' \in {"clear", "failed"}
  BY DEF AddRule, Sync, TypeInv, TypeOK
<1>4. \A i \in DOMAIN ops : rules'[ops[i].rule] # "absent"
  BY <1>1, OpsFacts DEF TypeInv, TypeOK
<1>5. QED
  BY <1>1, <1>2, <1>3, <1>4 DEF TypeInv, TypeOK, Busy

\* The same for enable and disable.
LEMMA SwitchTypes ==
    ASSUME TypeInv, NEW r \in Rules, NEW state \in {"enabled", "disabled"}, SetRuleEnabled(r, state)
    PROVE  TypeInv'
<1>1. /\ rules' \in [Rules -> {"absent", "disabled", "enabled"}]
      /\ \A q \in Rules : rules[q] # "absent" => rules'[q] # "absent"
  BY DEF SetRuleEnabled, SetRule, TypeInv, TypeOK
<1>2. UNCHANGED <<trouble, fit, ops, cache, connected, succeeded, stops>>
  BY DEF SetRuleEnabled, driver, service
<1>3. wanted' \subseteq Rules /\ pc' = "sync" /\ push' \in {"clear", "failed"}
  BY DEF SetRuleEnabled, Sync, TypeInv, TypeOK
<1>4. \A i \in DOMAIN ops : rules'[ops[i].rule] # "absent"
  BY <1>1, OpsFacts DEF TypeInv, TypeOK
<1>5. QED
  BY <1>1, <1>2, <1>3, <1>4 DEF TypeInv, TypeOK, Busy

\* With a rule go the operations that name it, and no others.
LEMMA DeletedRows ==
    ASSUME TypeInv, NEW r \in Rules, DeleteRule(r)
    PROVE  /\ ops' \in Seq(Operations)
           /\ \A i \in DOMAIN ops' : \E j \in DOMAIN ops : ops'[i] = ops[j] /\ ops[j].rule # r
           /\ \A j \in DOMAIN ops : ops[j].rule # r => \E i \in DOMAIN ops' : ops'[i] = ops[j]
<1>1. PICK n \in 0 .. Len(ops) : \E rows \in [1 .. n -> DOMAIN ops] :
               Keeps(rows, r) /\ ops' = [i \in 1 .. n |-> ops[rows[i]]]
  BY DEF DeleteRule
<1>2. PICK rows \in [1 .. n -> DOMAIN ops] : Keeps(rows, r) /\ ops' = [i \in 1 .. n |-> ops[rows[i]]]
  BY <1>1
<1>3. n \in Nat
  BY OpsFacts
<1>4. \A i \in 1 .. n : rows[i] \in DOMAIN ops /\ ops[rows[i]] \in Operations /\ ops[rows[i]].rule # r
  BY <1>2, OpsFacts DEF Keeps
<1>5. ops' \in Seq(Operations) /\ DOMAIN ops' = 1 .. n
  <2>1. ops' \in [1 .. n -> Operations]
    BY <1>2, <1>4
  <2>2. QED
    BY <1>3, <2>1, SeqDef
<1>6. \A j \in DOMAIN ops : ops[j].rule # r => \E i \in 1 .. n : rows[i] = j
  BY <1>2 DEF Keeps
<1>7. \A j \in DOMAIN ops : ops[j].rule # r => \E i \in 1 .. n : ops'[i] = ops[j]
  BY <1>2, <1>6
<1>8. \A i \in 1 .. n : ops'[i] = ops[rows[i]]
  BY <1>2
<1>9. QED
  BY <1>4, <1>5, <1>7, <1>8

\* So no operation is left that names the deleted rule.
LEMMA DeleteTypes ==
    ASSUME TypeInv, NEW r \in Rules, DeleteRule(r)
    PROVE  TypeInv'
<1>1. /\ rules' \in [Rules -> {"absent", "disabled", "enabled"}]
      /\ \A q \in Rules \ {r} : rules'[q] = rules[q]
  BY DEF DeleteRule, SetRule, TypeInv, TypeOK
<1>2. UNCHANGED <<trouble, fit, cache, connected, succeeded, stops>>
  BY DEF DeleteRule, driver, service
<1>3. wanted' \subseteq Rules /\ pc' = "sync" /\ push' \in {"clear", "failed"}
  BY DEF DeleteRule, Sync, TypeInv, TypeOK
<1>4. \A i \in DOMAIN ops' : rules'[ops'[i].rule] # "absent"
  BY <1>1, DeletedRows, OpsFacts DEF TypeInv, TypeOK
<1>5. QED
  BY <1>1, <1>2, <1>3, <1>4, DeletedRows DEF TypeInv, TypeOK, Busy

\* A request to commit or discard adds its operation at the end.
LEMMA BegunRows ==
    ASSUME TypeInv, NEW r \in Rules, Begin(r)
    PROVE  /\ ops' \in Seq(Operations) /\ Len(ops') = Len(ops) + 1
           /\ DOMAIN ops' = 1 .. Len(ops) + 1
           /\ \A i \in 1 .. Len(ops) : ops'[i] = ops[i]
           /\ Current' = [rule |-> r, status |-> "running", phase |-> "created",
                          wasEnabled |-> rules[r] = "enabled"]
<1> DEFINE op == [rule |-> r, status |-> "running", phase |-> "created",
                  wasEnabled |-> rules[r] = "enabled"]
<1>1. op \in Operations
  BY DEF Operations, Phases
<1>2. ops' = Append(ops, op)
  BY DEF Begin
<1> HIDE DEF op
<1>3. /\ ops' \in Seq(Operations) /\ Len(ops') = Len(ops) + 1
      /\ \A i \in 1 .. Len(ops) : ops'[i] = ops[i]
      /\ ops'[Len(ops) + 1] = op
  BY <1>1, <1>2, OpsFacts, AppendProperties
<1>4. DOMAIN ops' = 1 .. Len(ops) + 1
  BY <1>3, LenProperties
<1>5. QED
  BY <1>3, <1>4 DEF Current, op

\* Its rule is in the table.
LEMMA BeginTypes ==
    ASSUME TypeInv, NEW r \in Rules, Begin(r)
    PROVE  TypeInv'
<1>1. UNCHANGED <<trouble, fit, rules, wanted, cache, connected, push, succeeded, stops>>
          /\ pc' = "created" /\ rules[r] # "absent"
  BY DEF Begin, driver, service
<1>2. Current'.rule = r /\ Len(ops') = Len(ops) + 1
  BY BegunRows
<1>3. \A i \in DOMAIN ops' : rules[ops'[i].rule] # "absent"
  <2>1. SUFFICES ASSUME NEW i \in 1 .. Len(ops) + 1
                 PROVE  rules[ops'[i].rule] # "absent"
    BY BegunRows
  <2>2. CASE i = Len(ops) + 1
    BY <1>1, <1>2, <2>2 DEF Current
  <2>3. CASE i # Len(ops) + 1
    <3>1. i \in 1 .. Len(ops) /\ i \in DOMAIN ops
      BY <2>3, OpsFacts
    <3>2. rules[ops[i].rule] # "absent"
      BY <3>1 DEF TypeInv, TypeOK
    <3>3. QED
      BY <3>1, <3>2, BegunRows
  <2>4. QED
    BY <2>2, <2>3
<1>4. ops' # <<>>
  BY BegunRows, OpsFacts, EmptySeq
<1>5. QED
  BY <1>1, <1>3, <1>4, BegunRows DEF TypeInv, TypeOK

\* The least number of a set of rows.
LEMMA FirstOfRows ==
    ASSUME TypeInv, Interrupted # {}
    PROVE  First(Interrupted) \in Interrupted
<1>1. Interrupted \subseteq Nat
  BY OpsFacts DEF Interrupted
<1>2. PICK i \in Interrupted : \A j \in Interrupted : i <= j
  <2> DEFINE Below == {p \in Nat \X Nat : p[1] < p[2]}
  <2>1. IsWellFoundedOn(Below, Nat)
    BY NatLessThanWellFounded, Zenon DEF OpToRel
  <2> HIDE DEF Below
  <2>2. PICK i \in Interrupted : \A j \in Interrupted : ~ (<<j, i>> \in Below)
    BY <1>1, <2>1, WFMin
  <2>3. \A j \in Nat : j < i => <<j, i>> \in Below
    BY <1>1, <2>2 DEF Below
  <2>4. \A j \in Interrupted : ~ (j < i)
    BY <1>1, <2>2, <2>3, Zenon
  <2>5. QED
    BY <1>1, <2>2, <2>4
<1>3. QED
  BY <1>2 DEF First

\* The recovery marks one operation, and leaves the others as they are.
LEMMA RecoveredRows ==
    ASSUME TypeInv, RecoverInterrupted, NEW n, n = First(Interrupted)
    PROVE  /\ n \in Interrupted /\ n \in 1 .. Len(ops) /\ RowsKept
           /\ \A i \in 1 .. Len(ops) : i # n => ops'[i] = ops[i]
           /\ ops'[n].status \in {"failed", "recoverable"}
           /\ Interrupted' = Interrupted \ {n}
<1> DEFINE row == [ops[n] EXCEPT !.status = RecoveredStatus(ops[n])]
<1>1. n \in Interrupted /\ n \in 1 .. Len(ops) /\ ops \in Seq(Operations) /\ ops[n] \in Operations
  BY FirstOfRows, OpsFacts DEF RecoverInterrupted, Interrupted
<1>2. RecoveredStatus(ops[n]) \in {"failed", "recoverable"}
  BY DEF RecoveredStatus
<1>3. row \in Operations /\ row.rule = ops[n].rule /\ row.wasEnabled = ops[n].wasEnabled
          /\ row.status \in {"failed", "recoverable"}
  BY <1>1, <1>2 DEF Operations
<1>4. ops' = [ops EXCEPT ![n] = row]
  BY DEF RecoverInterrupted
<1> HIDE DEF row
<1>5. /\ ops' \in Seq(Operations) /\ Len(ops') = Len(ops)
      /\ \A i \in 1 .. Len(ops) : ops'[i] = IF i = n THEN row ELSE ops[i]
  BY <1>1, <1>3, <1>4, ExceptSeq
<1>6. DOMAIN ops' = 1 .. Len(ops) /\ DOMAIN ops = 1 .. Len(ops)
  BY <1>5, LenProperties, OpsFacts
<1>7. Interrupted' = Interrupted \ {n}
  BY <1>1, <1>3, <1>5, <1>6 DEF Interrupted
<1>8. QED
  BY <1>1, <1>3, <1>5, <1>7 DEF RowsKept

\* A rule that is enabled again was in the table.
LEMMA RecoverTypes ==
    ASSUME TypeInv, RecoverInterrupted
    PROVE  TypeInv'
<1> DEFINE n == First(Interrupted)
<1>1. n \in 1 .. Len(ops) /\ RowsKept
  BY RecoveredRows
<1>2. UNCHANGED <<trouble, fit, wanted, cache, connected, pc, push, succeeded, stops>> /\ pc = "recovering"
  BY DEF RecoverInterrupted, driver, service
<1>3. UNCHANGED rules \/ rules' = SetRule(ops[n].rule, "enabled")
  BY DEF RecoverInterrupted
<1>4. /\ rules' \in [Rules -> {"absent", "disabled", "enabled"}]
      /\ \A r \in Rules : rules[r] # "absent" => rules'[r] # "absent"
  BY <1>3 DEF SetRule, TypeInv, TypeOK
<1>5. DOMAIN ops' = 1 .. Len(ops)
  BY <1>1, LenProperties DEF RowsKept
<1>6. \A i \in DOMAIN ops' : rules'[ops'[i].rule] # "absent"
  BY <1>1, <1>4, <1>5, OpsFacts DEF RowsKept, TypeInv, TypeOK
<1>7. QED
  BY <1>1, <1>2, <1>4, <1>6 DEF RowsKept, TypeInv, TypeOK, Busy

\* Start, stop, launch and answer leave the tables alone.
LEMMA LifecycleTypes ==
    ASSUME TypeInv, Answer \/ Start \/ Stop \/ Launch
    PROVE  TypeInv'
<1>1. UNCHANGED <<trouble, fit, rules, wanted, ops, cache>>
  BY DEF Answer, Start, Stop, Launch, tables, driver, service
<1>2. /\ pc' \in {"idle", "down", "starting", "recovering"}
      /\ push' \in {"none", "clear", "ok", push}
      /\ connected' \in {connected, TRUE, FALSE}
      /\ succeeded' \in {succeeded, FALSE}
  BY DEF Answer, Start, Stop, Launch, tables, driver, service
<1>3. stops' \in 0 .. MaxStops
  <2>1. MaxStops \in Nat /\ stops \in Nat /\ stops <= MaxStops
    BY BoundsAssumption DEF TypeInv, TypeOK
  <2>2. stops' = stops \/ (stops < MaxStops /\ stops' = stops + 1)
    BY DEF Answer, Start, Stop, Launch, service
  <2>3. QED
    BY <2>1, <2>2
<1>4. QED
  BY <1>1, <1>2, <1>3 DEF TypeInv, TypeOK, Busy

\* What the directories of a rule become is of one of three kinds.
LEMMA SourceTypes ==
    ASSUME TypeInv, NEW r \in Rules, ChangeSource(r)
    PROVE  TypeInv'
<1>1. UNCHANGED <<trouble, rules, wanted, ops, cache, connected, pc, push, succeeded, stops>>
  BY DEF ChangeSource, tables, driver
<1>2. fit' \in [Rules -> {"fit", "invalid", "unmapped"}]
  BY DEF ChangeSource, TypeInv, TypeOK
<1>3. QED
  BY <1>1, <1>2 DEF TypeInv, TypeOK

\* Nothing changes in a stuttering step.
LEMMA StutterTypes ==
    ASSUME TypeInv, UNCHANGED vars
    PROVE  TypeInv'
  BY DEF TypeInv, TypeOK, vars

\* Every step keeps the types.
LEMMA TypesKept ==
    ASSUME TypeInv, [Next]_vars
    PROVE  TypeInv'
<1>1. CASE PushStep
  BY <1>1, PushTypes
<1>2. CASE OperationStep
  BY <1>2, OperationTypes
<1>3. CASE RecoverInterrupted
  BY <1>3, RecoverTypes
<1>4. CASE Answer \/ Start \/ Stop \/ Launch
  BY <1>4, LifecycleTypes
<1>5. CASE UserStep
  BY <1>5, AddTypes, SwitchTypes, DeleteTypes, BeginTypes, SourceTypes DEF UserStep
<1>6. CASE UNCHANGED vars
  BY <1>6, StutterTypes
<1>7. QED
  BY <1>1, <1>2, <1>3, <1>4, <1>5, <1>6 DEF Next, ServiceStep

\* In any trouble each variable holds a value of its type, and no row of operations
\* names a rule that is not in the table: a rule goes with its operations.
THEOREM ServiceTypeCorrect == Spec => []TypeOK
<1>1. Init => TypeInv
  BY InitTypes
<1>2. TypeInv /\ [Next]_vars => TypeInv'
  BY TypesKept
<1>3. TypeInv => TypeOK
  BY DEF TypeInv
<1>4. QED
  BY <1>1, <1>2, <1>3, PTL DEF Spec

-----------------------------------------------------------------------------
(***************************************************************************)
(* The rule of the operation in hand.                                       *)
(***************************************************************************)

\* A step of a commit or discard.
LEMMA OperationPause ==
    ASSUME TypeInv, PauseInv, OperationStep
    PROVE  PauseInv'
<1>1. SUFFICES ASSUME pc' \in Busy
               PROVE  PauseInv'
  BY DEF PauseInv
<1>2. pc \in Busy /\ Current'.rule = Current.rule /\ Current'.wasEnabled = Current.wasEnabled
  BY OperationRows, SameInHand
<1>3. Current.rule \in Rules /\ rules \in [Rules -> {"absent", "disabled", "enabled"}]
  BY <1>2, OpsFacts DEF TypeInv, TypeOK
<1>4. CASE Precheck \/ Apply \/ Applied \/ Paused \/ Restore
  BY <1>2, <1>3, <1>4 DEF Precheck, Apply, Applied, Paused, Restore, PauseInv, Busy
<1>5. CASE Pause \/ Enable
  BY <1>2, <1>3, <1>5 DEF Pause, Enable, SetRule, PauseInv, Busy
<1>6. CASE FailApply \/ Restored
  BY <1>1, <1>2, <1>3, <1>6 DEF FailApply, Restored, Return, PauseInv, Busy, tables
<1>7. CASE Refuse \/ FailUpdate \/ FailPause \/ GiveUp \/ FailEnable \/ FailRestore \/ Finish
  BY <1>1, <1>7 DEF Refuse, FailUpdate, FailPause, GiveUp, FailEnable, FailRestore, Finish, Return, Busy
<1>8. QED
  BY <1>4, <1>5, <1>6, <1>7 DEF OperationStep

\* Every other step ends outside a commit or discard, or begins one, or pushes.
LEMMA PauseKept ==
    ASSUME TypeInv, PauseInv, [Next]_vars
    PROVE  PauseInv'
<1>1. CASE OperationStep
  BY <1>1, OperationPause
<1>2. CASE PushStep \/ UNCHANGED vars \/ \E r \in Rules : ChangeSource(r)
  <2>1. UNCHANGED <<ops, rules, pc>>
    BY <1>2 DEF PushStep, ClearDriverRule, FailPush, FinishPush, PushDriverRule, ChangeSource, tables, vars
  <2>2. QED
    BY <2>1 DEF PauseInv, Current
<1>3. CASE RecoverInterrupted \/ Answer \/ Start \/ Stop \/ Launch
  <2>1. pc' \notin Busy
    BY <1>3 DEF RecoverInterrupted, Answer, Start, Stop, Launch, Busy
  <2>2. QED
    BY <2>1 DEF PauseInv
<1>4. ASSUME NEW r \in Rules, Begin(r)
      PROVE  PauseInv'
  <2>1. pc' = "created" /\ rules' = rules /\ rules[r] \in {"disabled", "enabled"}
    BY <1>4 DEF Begin, TypeInv, TypeOK
  <2>2. Current'.rule = r /\ Current'.wasEnabled = (rules[r] = "enabled")
    BY <1>4, BegunRows
  <2>3. QED
    BY <2>1, <2>2 DEF PauseInv
<1>5. ASSUME NEW r \in Rules, NEW state \in {"enabled", "disabled"},
             AddRule(r) \/ DeleteRule(r) \/ SetRuleEnabled(r, state)
      PROVE  PauseInv'
  <2>1. pc' \notin Busy
    BY <1>5 DEF AddRule, DeleteRule, SetRuleEnabled, Sync, Busy
  <2>2. QED
    BY <2>1 DEF PauseInv
<1>6. QED
  BY <1>1, <1>2, <1>3, <1>4, <1>5 DEF Next, ServiceStep, UserStep

-----------------------------------------------------------------------------
(***************************************************************************)
(* The driver's cache.                                                      *)
(***************************************************************************)

\* The enabled rules can be counted.
LEMMA EnabledFinite == IsFiniteSet(Enabled) /\ Cardinality(Enabled) \in Nat /\ MaxDriverRules \in Nat
  BY RulesAssumption, BoundsAssumption, FS_Subset, FS_CardinalityType DEF Enabled

\* A push that succeeds leaves the driver with the enabled rules.
LEMMA PushPush ==
    ASSUME TypeInv, PauseInv, PushInv, PushStep
    PROVE  PushInv'
<1>1. /\ UNCHANGED <<rules, ops, connected, pc>>
      /\ push \in {"clear", "set"} /\ push' \in {"set", "ok", "failed"}
  BY DEF PushStep, ClearDriverRule, FailPush, FinishPush, PushDriverRule, tables, driver
<1>2. Current' = Current /\ Enabled' = Enabled /\ Fits' = Fits
  BY <1>1 DEF Current, Enabled, Fits
<1>3. pc \in {"sync", "starting", "pausing", "restoring"} /\ (pc \in {"down", "recovering"} => ~connected)
  BY <1>1 DEF PushInv
<1>4. CASE ClearDriverRule
  <2>1. push' = "failed" \/ (push' = "set" /\ connected /\ cache' = {} /\ Fits)
    BY <1>4 DEF ClearDriverRule, Pushable, Fits
  <2>2. QED
    BY <1>1, <1>2, <1>3, <2>1 DEF PushInv
<1>5. CASE FailPush \/ FinishPush \/ \E r \in Rules : PushDriverRule(r)
  <2>1. \/ push' = "failed"
        \/ push' = "ok" /\ Enabled \subseteq cache /\ cache' = cache
        \/ push' = "set" /\ cache' \subseteq cache \union Enabled
    BY <1>5 DEF FailPush, FinishPush, PushDriverRule, driver
  <2>2. connected /\ cache \subseteq Enabled /\ Fits
    BY <1>5 DEF FailPush, FinishPush, PushDriverRule, PushInv
  <2>3. QED
    BY <1>1, <1>2, <1>3, <2>1, <2>2 DEF PushInv
<1>6. QED
  BY <1>4, <1>5 DEF PushStep

\* A commit or discard applies without the rule it paused in the cache, and finishes
\* with the enabled rules in it.
LEMMA OperationPush ==
    ASSUME TypeInv, PauseInv, PushInv, OperationStep
    PROVE  PushInv'
<1>1. pc \in Busy /\ pc' \in Busy \union {"idle"} /\ UNCHANGED <<cache, connected>>
  <2>1. UNCHANGED <<cache, connected>>
    BY DEF OperationStep, Precheck, Refuse, FailUpdate, Pause, FailPause, Paused, GiveUp, Apply, Applied,
           FailApply, Restore, Enable, FailEnable, Restored, FailRestore, Finish, driver
  <2>2. QED
    BY <2>1, OperationRows
<1>2. Current'.rule = Current.rule /\ Current'.wasEnabled = Current.wasEnabled
  BY <1>1, OperationRows, SameInHand
<1>3. UNCHANGED rules => Enabled' = Enabled /\ Fits' = Fits
  BY DEF Enabled, Fits
<1>4. CASE Precheck \/ Apply \/ Applied \/ Restore
  BY <1>1, <1>2, <1>3, <1>4 DEF Precheck, Apply, Applied, Restore, PushInv, PauseInv, Busy
<1>5. CASE Paused
  <2>1. Current.rule \notin Enabled
    BY <1>5 DEF Paused, PauseInv, Busy, Enabled
  <2>2. QED
    BY <1>1, <1>2, <1>3, <1>5, <2>1 DEF Paused, PushInv
<1>6. CASE Pause \/ Enable
  BY <1>1, <1>2, <1>6 DEF Pause, Enable, PushInv, Busy
<1>7. CASE FailApply \/ Restored
  BY <1>1, <1>2, <1>3, <1>7 DEF FailApply, Restored, Return, PushInv, Busy, tables
<1>8. CASE Refuse \/ FailUpdate \/ FailPause \/ GiveUp \/ FailEnable \/ FailRestore \/ Finish
  BY <1>8 DEF Refuse, FailUpdate, FailPause, GiveUp, FailEnable, FailRestore, Finish, Return, PushInv
<1>9. QED
  BY <1>4, <1>5, <1>6, <1>7, <1>8 DEF OperationStep

\* Every other step begins a push, or waits for one.
LEMMA PushKept ==
    ASSUME TypeInv, PauseInv, PushInv, [Next]_vars
    PROVE  PushInv'
<1>1. CASE PushStep
  BY <1>1, PushPush
<1>2. CASE OperationStep
  BY <1>2, OperationPush
<1>3. CASE RecoverInterrupted
  BY <1>3 DEF RecoverInterrupted, PushInv, driver
<1>4. CASE Answer \/ Stop \/ Launch
  BY <1>4 DEF Answer, Stop, Launch, PushInv, driver
<1>5. CASE Start
  BY <1>5 DEF Start, PushInv
<1>6. ASSUME NEW r \in Rules, Begin(r)
      PROVE  PushInv'
  BY <1>6 DEF Begin, PushInv, driver
<1>7. ASSUME NEW r \in Rules, NEW state \in {"enabled", "disabled"},
             AddRule(r) \/ DeleteRule(r) \/ SetRuleEnabled(r, state)
      PROVE  PushInv'
  BY <1>7 DEF AddRule, DeleteRule, SetRuleEnabled, Sync, PushInv
<1>8. CASE UNCHANGED vars \/ \E r \in Rules : ChangeSource(r)
  <2>1. UNCHANGED <<cache, connected, pc, push>> /\ Current' = Current /\ Enabled' = Enabled
    BY <1>8 DEF vars, ChangeSource, tables, driver, Current, Enabled
  <2>2. QED
    BY <2>1 DEF PushInv, Fits
<1>9. QED
  BY <1>1, <1>2, <1>3, <1>4, <1>5, <1>6, <1>7, <1>8 DEF Next, ServiceStep, UserStep

\* While files are committed or discarded, their rule is disabled in the table, and
\* a driver that was connected when the rule was paused does not have it: its
\* requests are let through to the real files while the service changes them.
THEOREM ApplyMeansPaused == Spec => []AppliesWhilePaused
<1> DEFINE Inv == TypeInv /\ PauseInv /\ PushInv
<1>1. Init => Inv
  BY InitTypes DEF Init, PauseInv, PushInv, Busy
<1>2. Inv /\ [Next]_vars => Inv'
  BY TypesKept, PauseKept, PushKept
<1>3. Inv => AppliesWhilePaused
  <2>1. SUFFICES ASSUME Inv, pc = "applying"
                 PROVE  /\ rules[Current.rule] = "disabled"
                        /\ connected /\ Current.wasEnabled => Current.rule \notin cache
    BY DEF AppliesWhilePaused
  <2>2. QED
    BY <2>1 DEF PauseInv, PushInv, Busy
<1>4. QED
  BY <1>1, <1>2, <1>3, PTL DEF Spec

\* The service marks an operation done only when the rule it paused is enabled again
\* and a connected driver has exactly the enabled rules.
THEOREM DoneMeansRestored == Spec => DoneIsRestored
<1> DEFINE Inv == TypeInv /\ PauseInv /\ PushInv
           Done == pc = "finish" /\ pc' = "idle" /\ ops' # ops /\ Current.wasEnabled =>
                       rules[Current.rule] = "enabled" /\ (connected => cache = Enabled)
<1>1. Init => Inv
  BY InitTypes DEF Init, PauseInv, PushInv, Busy
<1>2. Inv /\ [Next]_vars => Inv'
  BY TypesKept, PauseKept, PushKept
<1>3. Inv => Done
  BY DEF PauseInv, PushInv, Busy
<1>4. Spec => [][Done]_vars
  <2>1. Inv /\ [Next]_vars => [Done]_vars
    BY <1>3
  <2>2. QED
    BY <1>1, <1>2, <2>1, PTL DEF Spec
<1>5. QED
  BY <1>4 DEF DoneIsRestored

-----------------------------------------------------------------------------
(***************************************************************************)
(* The cache between requests.                                              *)
(***************************************************************************)

\* More enabled rules fit no better.
LEMMA MoreDoNotFit ==
    ASSUME TypeInv, ~Fits, Enabled \subseteq Enabled', Enabled' \subseteq Rules
    PROVE  ~Fits'
<1>1. IsFiniteSet(Enabled') /\ Cardinality(Enabled) <= Cardinality(Enabled')
  <2>1. IsFiniteSet(Enabled')
    BY RulesAssumption, FS_Subset
  <2>2. QED
    BY <2>1, FS_Subset
<1>2. Cardinality(Enabled') \in Nat
  BY <1>1, FS_CardinalityType
<1>3. QED
  BY <1>1, <1>2, EnabledFinite DEF Fits

\* A step is one of somebody's on the directories of a rule, or leaves them alone.
LEMMA FitKept ==
    ASSUME [Next]_vars
    PROVE  trouble' = trouble /\ (fit' = fit \/ \E r \in Rules : ChangeSource(r))
<1>1. CASE OperationStep
  BY <1>1 DEF OperationStep, Precheck, Refuse, FailUpdate, Pause, FailPause, Paused, GiveUp, Apply, Applied,
     FailApply, Restore, Enable, FailEnable, Restored, FailRestore, Finish, Return, service
<1>2. CASE PushStep \/ Answer \/ RecoverInterrupted \/ Start \/ Stop \/ Launch \/ UNCHANGED vars
  BY <1>2 DEF PushStep, ClearDriverRule, FailPush, FinishPush, PushDriverRule, Answer, RecoverInterrupted,
     Start, Stop, Launch, service, vars
<1>3. CASE UserStep
  BY <1>3 DEF UserStep, AddRule, DeleteRule, SetRuleEnabled, Begin, ChangeSource, service
<1>4. QED
  BY <1>1, <1>2, <1>3 DEF Next, ServiceStep

\* Where no message and no statement fails, only too many rules, or one that is no
\* longer fit, make the push fail, and then the cache is empty.
LEMMA CacheKept ==
    ASSUME TypeInv, PauseInv, PushInv, CacheInv, [Next]_vars
    PROVE  CacheInv'
<1>0. trouble' = trouble /\ ("source" \notin trouble => \A r \in Rules : fit'[r] = "fit")
  <2>1. "source" \notin trouble => fit' = fit
    BY FitKept DEF ChangeSource
  <2>2. QED
    BY <2>1, FitKept DEF CacheInv
<1>1. SUFFICES ASSUME trouble \intersect {"database", "driver"} = {}, connected'
               PROVE  CacheInv'
  BY <1>0 DEF CacheInv
<1>2. "database" \notin trouble /\ "driver" \notin trouble
  BY <1>1
<1>3. UNCHANGED rules => Enabled' = Enabled /\ Fits' = Fits /\ Unfit' = Unfit
  BY <1>0 DEF Enabled, Fits, Unfit
<1>4. connected => /\ push = "failed" => cache = {} /\ Unfit
                   /\ push = "none" => (cache = Enabled /\ Fits) \/ (cache = {} /\ Unfit)
  BY <1>1 DEF CacheInv
<1> DEFINE Goal == /\ push' = "failed" => cache' = {} /\ Unfit'
                   /\ push' = "none" => (cache' = Enabled' /\ Fits') \/ (cache' = {} /\ Unfit')
<1>5. SUFFICES Goal
  BY <1>0 DEF CacheInv
<1>6. CASE ClearDriverRule
  <2>1. UNCHANGED <<rules, connected>>
    BY <1>6 DEF ClearDriverRule, tables
  <2>2. cache' = {} /\ push' = IF Pushable THEN "set" ELSE "failed"
    BY <1>1, <1>2, <1>6, <2>1 DEF ClearDriverRule
  <2>3. ~Pushable => Unfit
    BY DEF Pushable, Unfit, Fits, CacheInv, Enabled
  <2>4. QED
    BY <1>3, <2>1, <2>2, <2>3
<1>7. CASE FinishPush \/ \E r \in Rules : PushDriverRule(r)
  BY <1>7 DEF FinishPush, PushDriverRule
<1>8. CASE GiveUp
  <2>1. push = "failed" /\ rules' = SetRule(Current.rule, "enabled") /\ push' = "none"
            /\ UNCHANGED <<cache, connected>>
    BY <1>2, <1>8 DEF GiveUp, EnableIfPossible, Return, driver
  <2>2. Enabled \subseteq Enabled' /\ Enabled' \subseteq Rules
    BY <2>1 DEF SetRule, Enabled, TypeInv, TypeOK
  <2>3. Unfit => Unfit'
    BY <1>0, <2>2, MoreDoNotFit DEF Unfit
  <2>4. QED
    BY <1>1, <1>4, <2>1, <2>3
<1>9. CASE Pause \/ Enable \/ Start
  BY <1>1, <1>9 DEF Pause, Enable, Start, driver
<1>10. CASE Answer \/ Paused \/ Restored \/ FailRestore
  <2>1. UNCHANGED <<rules, cache, connected>>
    BY <1>10 DEF Answer, Paused, Restored, FailRestore, tables, driver
  <2>2. push \in {"ok", "failed"} /\ push' = "none"
    BY <1>10 DEF Answer, Paused, Restored, FailRestore, Return
  <2>3. push = "ok" => cache = Enabled /\ Fits
    BY <1>1, <2>1 DEF PushInv
  <2>4. QED
    BY <1>1, <1>3, <1>4, <2>1, <2>2, <2>3
<1>11. CASE Precheck \/ Apply \/ Applied \/ Restore \/ Refuse \/ FailApply \/ Finish \/ \E r \in Rules : Begin(r)
  <2>1. UNCHANGED <<rules, cache, connected>>
    BY <1>11 DEF Precheck, Apply, Applied, Restore, Refuse, FailApply, Finish, Begin, tables, driver
  <2>2. push = "none" /\ push' = "none"
    <3>1. push = "none"
      BY <1>11 DEF Precheck, Apply, Applied, Restore, Refuse, FailApply, Finish, Begin, PushInv
    <3>2. push' \in {push, "none"}
      BY <1>11 DEF Precheck, Apply, Applied, Restore, Refuse, FailApply, Finish, Begin, Return
    <3>3. QED
      BY <3>1, <3>2
  <2>3. QED
    BY <1>1, <1>3, <1>4, <2>1, <2>2
<1>12. CASE FailUpdate \/ FailPause \/ FailEnable
  BY <1>2, <1>12 DEF FailUpdate, FailPause, FailEnable
<1>17. CASE FailPush
  <2>1. UNCHANGED rules /\ cache' = {} /\ push' = "failed" /\ \E r \in Rules : fit[r] # "fit"
    BY <1>2, <1>17 DEF FailPush, tables, Enabled
  <2>2. "source" \in trouble
    BY <2>1 DEF CacheInv
  <2>3. QED
    BY <1>3, <2>1, <2>2 DEF Unfit
<1>13. CASE RecoverInterrupted \/ Stop \/ Launch
  BY <1>1, <1>13 DEF RecoverInterrupted, Stop, Launch, PushInv, driver
<1>14. ASSUME NEW r \in Rules, NEW state \in {"enabled", "disabled"},
              AddRule(r) \/ DeleteRule(r) \/ SetRuleEnabled(r, state)
       PROVE  Goal
  BY <1>2, <1>14 DEF AddRule, DeleteRule, SetRuleEnabled, Sync
<1>15. CASE UNCHANGED vars \/ \E r \in Rules : ChangeSource(r)
  <2>1. UNCHANGED <<rules, cache, connected, push>>
    BY <1>15 DEF vars, ChangeSource, tables, driver
  <2>2. QED
    BY <1>1, <1>3, <1>4, <2>1
<1> HIDE DEF Goal
<1>16. QED
  BY <1>6, <1>7, <1>8, <1>9, <1>10, <1>11, <1>12, <1>13, <1>14, <1>15, <1>17
     DEF Next, ServiceStep, PushStep, OperationStep, UserStep

\* Between requests a connected driver has exactly the enabled rules, or no rule when
\* they are more than it holds or where the directories that rules name come and go
\* (PushDriverRules validates and maps them again): no request leaves it with a part of
\* them or with rules of an earlier table.
THEOREM CacheFollows == Spec => []CacheFollowsRules
<1> DEFINE Inv == TypeInv /\ PauseInv /\ PushInv /\ CacheInv
<1>1. Init => Inv
  BY InitTypes DEF Init, PauseInv, PushInv, CacheInv, Busy
<1>2. Inv /\ [Next]_vars => Inv'
  BY TypesKept, PauseKept, PushKept, CacheKept
<1>3. Inv => CacheFollowsRules
  <2>1. SUFFICES ASSUME Inv, pc = "idle", connected, trouble \intersect {"database", "driver"} = {}
                 PROVE  \/ cache = Enabled /\ Fits
                        \/ cache = {} /\ (~Fits \/ "source" \in trouble)
    BY EnabledFinite DEF CacheFollowsRules, Fits
  <2>2. push = "none"
    BY <2>1 DEF PushInv
  <2>3. QED
    BY <2>1, <2>2 DEF CacheInv, Unfit
<1>4. QED
  BY <1>1, <1>2, <1>3, PTL DEF Spec

-----------------------------------------------------------------------------
(***************************************************************************)
(* What the recovery finds.                                                 *)
(***************************************************************************)

\* Updating the operation in hand takes no other witness away, and takes none while
\* it stays running.
LEMMA WitnessesKept ==
    ASSUME TypeInv, pc \in Busy, RowsKept, OthersKept, NEW r
    PROVE  /\ Witnesses(r) \ {Len(ops)} \subseteq Witnesses(r)'
           /\ Current'.status = "running" => Witnesses(r) \subseteq Witnesses(r)'
           /\ Current'.status = "running" /\ Current.rule = r /\ Current.wasEnabled => Witnesses(r)' # {}
<1>1. DOMAIN ops' = 1 .. Len(ops) /\ DOMAIN ops = 1 .. Len(ops)
  BY OpsFacts, LenProperties DEF RowsKept
<1>2. \A i \in 1 .. Len(ops) : i # Len(ops) => ops'[i] = ops[i]
  BY DEF OthersKept
<1>3. /\ Current' = ops'[Len(ops)] /\ Current = ops[Len(ops)] /\ Len(ops) \in 1 .. Len(ops)
      /\ Current'.rule = Current.rule /\ Current'.wasEnabled = Current.wasEnabled
  BY SameInHand, OpsFacts DEF RowsKept, Current
<1>4. Witnesses(r)' = {i \in 1 .. Len(ops) : ops'[i].status = "running" /\ ops'[i].rule = r /\ ops'[i].wasEnabled}
  BY <1>1 DEF Witnesses, Interrupted
<1>5. Witnesses(r) = {i \in 1 .. Len(ops) : ops[i].status = "running" /\ ops[i].rule = r /\ ops[i].wasEnabled}
  BY <1>1 DEF Witnesses, Interrupted
<1>6. QED
  BY <1>2, <1>3, <1>4, <1>5

\* A step of a commit or discard leaves its operation running, or ends it with its
\* rule enabled, or not paused, or about to be enabled.
LEMMA OperationStatus ==
    ASSUME TypeInv, PauseInv, RecoverInv, OperationStep, trouble \intersect {"database", "gap"} = {}
    PROVE  /\ \/ UNCHANGED ops
              \/ Current'.status = "running"
              \/ /\ Current'.status \in {"failed", "done"} /\ pc' \notin Busy \ {"restore"}
                 /\ \/ ~Current.wasEnabled
                    \/ rules'[Current.rule] = "enabled"
                    \/ pc' = "restore" /\ Current'.status = "failed"
           /\ \A r \in Rules \ {Current.rule} : rules'[r] = rules[r]
           /\ rules'[Current.rule] = "disabled" /\ rules[Current.rule] # "disabled" => Current.wasEnabled
           /\ UNCHANGED <<trouble, wanted>>
           /\ pc = "restore" => Current'.status = "running"
<1>1. "database" \notin trouble
  OBVIOUS
<1>2. pc \in Busy /\ Current.rule \in Rules /\ rules \in [Rules -> {"absent", "disabled", "enabled"}]
  BY OperationRows, OpsFacts DEF TypeInv, TypeOK
<1>3. UNCHANGED <<trouble, wanted>>
  BY DEF OperationStep, Precheck, Refuse, FailUpdate, Pause, FailPause, Paused, GiveUp, Apply, Applied,
         FailApply, Restore, Enable, FailEnable, Restored, FailRestore, Finish, Return, tables, service
<1>4. Current'.rule = Current.rule /\ Current'.wasEnabled = Current.wasEnabled
  BY OperationRows, SameInHand
<1>5. CASE Precheck \/ Paused \/ Apply \/ Applied \/ Restore
  <2>1. UNCHANGED rules
    BY <1>5 DEF Precheck, Paused, Apply, Applied, Restore
  <2>2. PICK phase \in Phases : ops' = Mark("running", phase)
    BY <1>1, <1>5 DEF Precheck, Paused, Apply, Applied, Restore, MarkIfPossible, Phases
  <2>3. Current'.status = "running"
    BY <1>2, <2>2, MarkEffect
  <2>4. QED
    BY <1>3, <2>1, <2>3
<1>6. CASE Pause \/ Enable
  <2>1. UNCHANGED ops /\ Current.wasEnabled /\ pc \in {"pause", "enable"}
    BY <1>2, <1>6 DEF Pause, Enable, PauseInv, Busy
  <2>2. \A r \in Rules \ {Current.rule} : rules'[r] = rules[r]
    BY <1>2, <1>6 DEF Pause, Enable, SetRule
  <2>3. QED
    BY <1>3, <2>1, <2>2
<1>7. CASE Restored
  <2>1. UNCHANGED <<ops, rules>> /\ pc = "restoring"
    BY <1>7 DEF Restored, tables
  <2>2. QED
    BY <1>3, <2>1
<1>8. CASE Refuse \/ FailApply \/ FailRestore \/ Finish
  <2>1. UNCHANGED rules /\ pc # "restore"
    BY <1>8 DEF Refuse, FailApply, FailRestore, Finish
  <2>2. PICK status \in {"failed", "done"}, phase \in Phases :
            ops' = Mark(status, phase) /\ (FailApply => status = "failed")
    BY <1>1, <1>8 DEF Refuse, FailApply, FailRestore, Finish, MarkIfPossible, Phases
  <2>3. Current'.status = status
    BY <1>2, <2>2, MarkEffect
  <2>4. pc' \in {"idle", "restore"}
    BY <1>8 DEF Refuse, FailApply, FailRestore, Finish, Return
  <2>5. \/ ~Current.wasEnabled
        \/ rules[Current.rule] = "enabled"
        \/ FailApply /\ pc' = "restore"
    BY <1>2, <1>8 DEF Refuse, FailApply, FailRestore, Finish, PauseInv
  <2>6. QED
    BY <1>3, <2>1, <2>2, <2>3, <2>4, <2>5 DEF Busy
<1>9. CASE GiveUp
  <2>1. /\ ops' = Mark("failed", "prechecked") /\ rules' = SetRule(Current.rule, "enabled")
        /\ pc' = "idle" /\ pc = "pausing"
    BY <1>1, <1>9 DEF GiveUp, MarkIfPossible, EnableIfPossible, Return
  <2>2. Current'.status = "failed"
    BY <1>2, <2>1, MarkEffect DEF Phases
  <2>3. rules'[Current.rule] = "enabled" /\ \A r \in Rules \ {Current.rule} : rules'[r] = rules[r]
    BY <1>2, <2>1 DEF SetRule
  <2>4. QED
    BY <1>3, <2>1, <2>2, <2>3 DEF Busy
<1>10. CASE FailUpdate \/ FailPause \/ FailEnable
  BY <1>1, <1>10 DEF FailUpdate, FailPause, FailEnable
<1>11. QED
  BY <1>5, <1>6, <1>7, <1>8, <1>9, <1>10 DEF OperationStep

\* So a paused rule keeps a witness.
LEMMA OperationRecover ==
    ASSUME TypeInv, PauseInv, RecoverInv, OperationStep
    PROVE  RecoverInv'
<1>1. CASE trouble \intersect {"database", "gap"} # {}
  <2>1. UNCHANGED trouble
    BY DEF OperationStep, Precheck, Refuse, FailUpdate, Pause, FailPause, Paused, GiveUp, Apply, Applied,
           FailApply, Restore, Enable, FailEnable, Restored, FailRestore, Finish, Return, service
  <2>2. QED
    BY <1>1, <2>1 DEF RecoverInv
<1>2. CASE trouble \intersect {"database", "gap"} = {}
  <2>1. /\ pc \in Busy /\ RowsKept /\ OthersKept /\ Current.rule \in Rules
        /\ Current'.rule = Current.rule /\ Current'.wasEnabled = Current.wasEnabled
    BY OperationRows, SameInHand, OpsFacts
  <2>2. Current'.status = "running" \/ pc' \notin Busy \ {"restore"}
    <3>1. CASE UNCHANGED ops
      BY <1>2, <2>1, <3>1, OperationStatus DEF RecoverInv, Current
    <3>2. CASE ~UNCHANGED ops
      BY <1>2, <3>2, OperationStatus
    <3>3. QED
      BY <3>1, <3>2
  <2>3. ASSUME NEW r \in wanted, rules'[r] = "disabled"
        PROVE  Witnesses(r)' # {} \/ (FailedUnrestored' /\ r = Current'.rule)
    <3>1. r \in Rules
      BY <2>3 DEF TypeInv, TypeOK
    <3>2. CASE Current'.status = "running"
      <4>1. CASE r = Current.rule /\ Current.wasEnabled
        BY <2>1, <3>2, <4>1, WitnessesKept
      <4>2. CASE ~(r = Current.rule /\ Current.wasEnabled)
        <5>1. rules[r] = "disabled"
          BY <1>2, <2>1, <2>3, <3>1, <4>2, OperationStatus DEF TypeInv, TypeOK
        <5>2. Witnesses(r) # {} \/ (FailedUnrestored /\ r = Current.rule)
          BY <1>2, <2>3, <5>1 DEF RecoverInv
        <5>3. FailedUnrestored => Current.wasEnabled
          BY <2>1 DEF FailedUnrestored, PauseInv
        <5>4. QED
          BY <2>1, <3>2, <4>2, <5>2, <5>3, WitnessesKept
      <4>3. QED
        BY <4>1, <4>2
    <3>3. CASE UNCHANGED ops /\ Current'.status # "running"
      <4>1. Current' = Current /\ Witnesses(r)' = Witnesses(r) /\ pc # "restore"
        BY <1>2, <3>3, OperationStatus DEF Current, Witnesses, Interrupted
      <4>2. FALSE
        BY <1>2, <2>1, <3>3, <4>1 DEF RecoverInv
      <4>3. QED
        BY <4>2
    <3>4. CASE ~UNCHANGED ops /\ Current'.status # "running"
      <4>1. /\ \/ ~Current.wasEnabled
               \/ rules'[Current.rule] = "enabled"
               \/ pc' = "restore" /\ Current'.status = "failed"
            /\ ~FailedUnrestored
        BY <1>2, <3>4, OperationStatus DEF FailedUnrestored
      <4>2. CASE r = Current.rule /\ Current.wasEnabled
        BY <2>1, <2>3, <4>1, <4>2 DEF FailedUnrestored
      <4>3. CASE ~(r = Current.rule /\ Current.wasEnabled)
        <5>1. rules[r] = "disabled"
          BY <1>2, <2>1, <2>3, <3>1, <4>3, OperationStatus DEF TypeInv, TypeOK
        <5>2. Witnesses(r) # {}
          BY <1>2, <2>3, <4>1, <5>1 DEF RecoverInv
        <5>3. Len(ops) \notin Witnesses(r)
          BY <4>3 DEF Witnesses, Current
        <5>4. QED
          BY <2>1, <5>2, <5>3, WitnessesKept
      <4>4. QED
        BY <4>2, <4>3
    <3>5. QED
      BY <3>2, <3>3, <3>4
  <2>4. UNCHANGED wanted
    BY <1>2, OperationStatus
  <2>5. QED
    BY <2>2, <2>3, <2>4 DEF RecoverInv
<1>3. QED
  BY <1>1, <1>2

\* Every other step ends no operation, or ends one with its rule enabled again.
LEMMA RecoverKept ==
    ASSUME TypeInv, PauseInv, RecoverInv, [Next]_vars
    PROVE  RecoverInv'
<1>1. SUFFICES ASSUME trouble \intersect {"database", "gap"} = {}, ~OperationStep, UNCHANGED trouble
               PROVE  RecoverInv'
  <2>1. OperationStep \/ UNCHANGED trouble
    BY DEF Next, ServiceStep, UserStep, PushStep, ClearDriverRule, FailPush, FinishPush, PushDriverRule,
           Answer, RecoverInterrupted, Start, AddRule, DeleteRule, SetRuleEnabled, Begin, ChangeSource,
           Stop, Launch, service, vars
  <2>2. QED
    BY <2>1, OperationRecover DEF RecoverInv
<1>2. /\ pc \in Busy \ {"restore"} => Current.status = "running"
      /\ \A r \in wanted : rules[r] = "disabled" =>
             Witnesses(r) # {} \/ (FailedUnrestored /\ r = Current.rule)
  BY <1>1 DEF RecoverInv
<1>3. rules \in [Rules -> {"absent", "disabled", "enabled"}] /\ wanted \subseteq Rules
  BY DEF TypeInv, TypeOK
<1>4. SUFFICES /\ pc' \in Busy \ {"restore"} => Current'.status = "running"
               /\ \A r \in wanted' : rules'[r] = "disabled" =>
                      Witnesses(r)' # {} \/ (FailedUnrestored' /\ r = Current'.rule)
  BY DEF RecoverInv
<1>5. UNCHANGED ops => Current' = Current /\ \A r \in Rules : Witnesses(r)' = Witnesses(r)
  BY DEF Current, Witnesses, Interrupted
<1>6. CASE PushStep \/ Answer \/ UNCHANGED vars \/ \E r \in Rules : ChangeSource(r)
  <2>1. UNCHANGED <<ops, rules, wanted>> /\ (UNCHANGED pc \/ (pc \in {"sync", "starting"} /\ pc' = "idle"))
    BY <1>6 DEF PushStep, ClearDriverRule, FailPush, FinishPush, PushDriverRule, Answer, ChangeSource, tables, vars
  <2>2. QED
    BY <1>2, <1>3, <1>5, <2>1 DEF FailedUnrestored, Busy
<1>7. CASE Start \/ Stop \/ Launch
  <2>1. UNCHANGED <<ops, rules, wanted>> /\ pc' \in {"starting", "down", "recovering"} /\ ~FailedUnrestored
    BY <1>1, <1>7 DEF Start, Stop, Launch, tables, FailedUnrestored
  <2>2. QED
    BY <1>2, <1>3, <1>5, <2>1 DEF Busy
<1>8. CASE RecoverInterrupted
  <2>1. PICK n : n = First(Interrupted)
    OBVIOUS
  <2>2. /\ n \in Interrupted /\ n \in 1 .. Len(ops) /\ RowsKept /\ Interrupted' = Interrupted \ {n}
        /\ \A i \in 1 .. Len(ops) : i # n => ops'[i] = ops[i]
    BY <1>8, <2>1, RecoveredRows
  <2>3. \/ ops[n].wasEnabled /\ rules' = SetRule(ops[n].rule, "enabled")
        \/ ~ops[n].wasEnabled /\ UNCHANGED rules
    BY <1>1, <1>8, <2>1 DEF RecoverInterrupted
  <2>4. UNCHANGED wanted /\ pc = "recovering" /\ pc' = "recovering" /\ ~FailedUnrestored
    BY <1>8 DEF RecoverInterrupted, FailedUnrestored
  <2>5. ops[n].rule \in Rules /\ Interrupted \subseteq 1 .. Len(ops)
    BY <2>2, OpsFacts DEF Interrupted
  <2>6. ASSUME NEW r \in wanted, rules'[r] = "disabled"
        PROVE  Witnesses(r)' # {}
    <3>1. rules[r] = "disabled" /\ ~(r = ops[n].rule /\ ops[n].wasEnabled)
      BY <1>3, <2>3, <2>5, <2>6 DEF SetRule
    <3>2. PICK i \in Interrupted : ops[i].rule = r /\ ops[i].wasEnabled
      BY <1>2, <2>4, <3>1 DEF Witnesses
    <3>3. i \in Interrupted' /\ ops'[i] = ops[i]
      BY <2>2, <2>5, <3>1, <3>2
    <3>4. QED
      BY <3>2, <3>3 DEF Witnesses
  <2>7. QED
    BY <2>4, <2>6 DEF Busy
<1>9. ASSUME NEW r \in Rules, Begin(r)
      PROVE  RecoverInv'
  <2>1. UNCHANGED <<rules, wanted>> /\ pc' = "created" /\ ~FailedUnrestored
    BY <1>9 DEF Begin, FailedUnrestored
  <2>2. Current'.status = "running"
    BY <1>9, BegunRows
  <2>3. \A q : Witnesses(q) \subseteq Witnesses(q)'
    <3>1. \A i \in DOMAIN ops : i \in DOMAIN ops' /\ ops'[i] = ops[i]
      BY <1>9, BegunRows, OpsFacts
    <3>2. QED
      BY <3>1 DEF Witnesses, Interrupted
  <2>4. QED
    BY <1>2, <2>1, <2>2, <2>3 DEF RecoverInv
<1>10. ASSUME NEW r \in Rules, NEW state \in {"enabled", "disabled"}, AddRule(r) \/ SetRuleEnabled(r, state)
       PROVE  RecoverInv'
  <2>1. UNCHANGED ops /\ pc' = "sync" /\ ~FailedUnrestored
    BY <1>10 DEF AddRule, SetRuleEnabled, Sync, FailedUnrestored
  <2>2. \A q \in wanted' : rules'[q] = "disabled" => q \in wanted /\ rules[q] = "disabled"
    BY <1>3, <1>10 DEF AddRule, SetRuleEnabled, SetRule
  <2>3. QED
    BY <1>2, <1>3, <1>5, <2>1, <2>2 DEF RecoverInv, Busy
<1>11. ASSUME NEW r \in Rules, DeleteRule(r)
       PROVE  RecoverInv'
  <2>1. pc' = "sync" /\ ~FailedUnrestored
    BY <1>11 DEF DeleteRule, Sync, FailedUnrestored
  <2>2. \A q \in wanted' : q \in wanted /\ q # r /\ rules'[q] = rules[q]
    BY <1>3, <1>11 DEF DeleteRule, SetRule
  <2>3. ASSUME NEW q, q # r, Witnesses(q) # {}
        PROVE  Witnesses(q)' # {}
    <3>1. PICK j \in DOMAIN ops : ops[j].status = "running" /\ ops[j].rule = q /\ ops[j].wasEnabled
      BY <2>3 DEF Witnesses, Interrupted
    <3>2. PICK i \in DOMAIN ops' : ops'[i] = ops[j]
      BY <1>11, <2>3, <3>1, DeletedRows
    <3>3. QED
      BY <3>1, <3>2 DEF Witnesses, Interrupted
  <2>4. QED
    BY <1>2, <2>1, <2>2, <2>3 DEF RecoverInv, Busy
<1>12. QED
  BY <1>1, <1>6, <1>7, <1>8, <1>9, <1>10, <1>11 DEF Next, ServiceStep, UserStep, RecoverInv

\* A rule that the user enabled and that is not enabled has an operation from which
\* the recovery enables it, wherever the service ends, unless a statement fails or the
\* service ends between marking an operation and enabling its rule.
THEOREM PauseRecovers == Spec => []PauseIsRecoverable
<1> DEFINE Inv == TypeInv /\ PauseInv /\ RecoverInv
<1>1. Init => Inv
  BY InitTypes DEF Init, PauseInv, RecoverInv, Busy
<1>2. Inv /\ [Next]_vars => Inv'
  BY TypesKept, PauseKept, RecoverKept
<1>3. Inv => PauseIsRecoverable
  BY DEF RecoverInv, PauseIsRecoverable, Witnesses
<1>4. QED
  BY <1>1, <1>2, <1>3, PTL DEF Spec

=============================================================================
