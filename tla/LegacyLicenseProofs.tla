-------------------------- MODULE LegacyLicenseProofs --------------------------
(***************************************************************************)
(* Proofs about LegacyLicense, for any number of calls, rows, machines and *)
(* hashes, any plans and any bounds.                                       *)
(***************************************************************************)
EXTENDS LegacyLicense, FiniteSetTheorems, TLAPS

\* The record of a call that does nothing, and of a new request.
LEMMA IdleFacts ==
  /\ Idle \in Locals /\ Idle.pc = "idle" /\ Idle.accepts = "v1 and v2" /\ Idle.plan = 0
  /\ Idle.target = NoRow /\ Idle.old = {} /\ Idle.op = "validate"
  /\ AnyHash \in Hashes /\ NoDevice \in Devices
  /\ NoDevice.state = "none" /\ NoDevice.aliases = {}
<1>1. AnyHash \in Hashes
  BY LegacyAssumption DEF AnyHash
<1>2. QED
  BY <1>1 DEF Idle, Locals, Steps, Prints, NoDevice, Devices

LEMMA RequestFacts ==
  ASSUME NEW f \in Hashes
  PROVE  /\ Request(f) \in Locals /\ Request(f).hash = f /\ Request(f).key = f
         /\ Request(f).pc = "idle" /\ Request(f).accepts = "v1 and v2" /\ Request(f).plan = 0
         /\ Request(f).target = NoRow /\ Request(f).old = {}
         /\ Request(f).op = "validate"
BY IdleFacts DEF Request, Locals, Prints

LEMMA V2Typed ==
  ASSUME NEW f \in Hashes
  PROVE  MachineOf[f] \in Machines /\ MachineOf[f] \in Prints /\ MachineOf[f] \notin Hashes
BY LegacyAssumption DEF Prints

\* A call whose locals are replaced by l leaves the others as they are.
LEMMA NowFacts ==
  ASSUME NEW p \in Calls, NEW l \in Locals, call \in [Calls -> Locals], Now(p, l)
  PROVE  /\ call' \in [Calls -> Locals] /\ call'[p] = l
         /\ \A q \in Calls : q # p => call'[q] = call[q]
BY DEF Now

LEMMA LogFailureFacts ==
  ASSUME NEW p \in Calls, NEW suspicious \in BOOLEAN, TypeOK, LogFailure(p, suspicious)
  PROVE  /\ call' \in [Calls -> Locals]
         /\ call'[p].pc = "suspect" /\ call'[p].op = "validate"
         /\ call'[p].old = {} /\ call'[p].target = NoRow /\ call'[p].accepts = "v1 and v2"
         /\ call'[p].plan = 0
         /\ \A q \in Calls : q # p => call'[q] = call[q]
         /\ failures' \in 0 .. Threshold /\ transfers' = transfers
<1>1. [Idle EXCEPT !.pc = "suspect"] \in Locals
  BY IdleFacts DEF Locals, Steps
<1>2. failures' \in 0 .. Threshold
  BY LegacyAssumption DEF LogFailure, TypeOK
<1>3. QED
  BY <1>1, <1>2, IdleFacts DEF LogFailure, TypeOK, Now, Locals

\* The steps a call takes: its locals become typed locals, and so does the
\* row it writes.
LEMMA ServedFacts ==
  ASSUME NEW p \in Calls, TypeOK, Served(p)
  PROVE  /\ call' \in [Calls -> Locals]
         /\ call'[p].pc \in {"idle", "record"}
         /\ call'[p].pc = "record" => call'[p].op = "transfer"
         /\ call'[p].op = "transfer" => call[p].op = "transfer"
         /\ call'[p].pc = "idle" => call'[p].op = "validate"
         /\ call'[p].old = {} /\ call'[p].target = NoRow /\ call'[p].accepts = "v1 and v2"
         /\ call'[p].plan = 0
         /\ \A q \in Calls : q # p => call'[q] = call[q]
<1> DEFINE l == [Idle EXCEPT !.pc = "record", !.op = "transfer"]
<1>1. /\ l \in Locals /\ l.pc = "record" /\ l.op = "transfer" /\ l.old = {}
      /\ l.target = NoRow /\ l.accepts = "v1 and v2" /\ l.plan = 0
  BY IdleFacts DEF Locals, Steps
<1> HIDE DEF l
<1>2. CASE call[p].op = "transfer"
  <2>1. call[p].op = "transfer"
    BY <1>2 DEF TypeOK, Locals
  <2>2. Now(p, l)
    BY <1>2 DEF Served, l
  <2>3. QED
    BY <1>1, <2>1, <2>2, NowFacts DEF TypeOK
<1>3. CASE call[p].op # "transfer"
  <2>1. Now(p, Idle)
    BY <1>3 DEF Served, Finish
  <2>2. QED
    BY <2>1, NowFacts, IdleFacts DEF TypeOK
<1>4. QED
  BY <1>2, <1>3

\* What each way of continuing does to the locals of a call.
LEMMA GotoFacts ==
  ASSUME NEW p \in Calls, TypeOK, NEW step \in Steps,
         Goto(p, step)
  PROVE  /\ call' \in [Calls -> Locals]
         /\ call'[p].pc = step
         /\ call'[p].hash = call[p].hash
         /\ call'[p].accepts = call[p].accepts
         /\ call'[p].plan = call[p].plan
         /\ call'[p].target = call[p].target
         /\ call'[p].old = call[p].old
         /\ call'[p].key = call[p].key
         /\ call'[p].op = call[p].op
         /\ \A q \in Calls : q # p => call'[q] = call[q]
<1> DEFINE l == [call[p] EXCEPT !.pc = step]
<1>1. call[p] \in Locals
  BY DEF TypeOK
<1>2. /\ l \in Locals
      /\ l.pc = step
      /\ l.hash = call[p].hash
      /\ l.accepts = call[p].accepts
      /\ l.plan = call[p].plan
      /\ l.target = call[p].target
      /\ l.old = call[p].old
      /\ l.key = call[p].key
      /\ l.op = call[p].op
  BY <1>1 DEF Locals, Steps
<1>3. Now(p, l)
  BY DEF Goto, Matched
<1> HIDE DEF l
<1>4. QED
  BY <1>2, <1>3, NowFacts DEF TypeOK

LEMMA PlanFacts ==
  ASSUME NEW p \in Calls, TypeOK, 
         Now(p, [call[p] EXCEPT !.pc = "exact", !.plan = max])
  PROVE  /\ call' \in [Calls -> Locals]
         /\ call'[p].pc = "exact"
         /\ call'[p].hash = call[p].hash
         /\ call'[p].accepts = call[p].accepts
         /\ call'[p].plan = max
         /\ call'[p].target = call[p].target
         /\ call'[p].old = call[p].old
         /\ call'[p].key = call[p].key
         /\ call'[p].op = call[p].op
         /\ \A q \in Calls : q # p => call'[q] = call[q]
<1> DEFINE l == [call[p] EXCEPT !.pc = "exact", !.plan = max]
<1>1. call[p] \in Locals /\ max \in PlanSizes
  BY DEF TypeOK
<1>2. /\ l \in Locals
      /\ l.pc = "exact"
      /\ l.hash = call[p].hash
      /\ l.accepts = call[p].accepts
      /\ l.plan = max
      /\ l.target = call[p].target
      /\ l.old = call[p].old
      /\ l.key = call[p].key
      /\ l.op = call[p].op
  BY <1>1 DEF Locals, Steps
<1>3. Now(p, l)
  BY DEF Goto, Matched
<1> HIDE DEF l
<1>4. QED
  BY <1>2, <1>3, NowFacts DEF TypeOK

LEMMA PromotedFacts ==
  ASSUME NEW p \in Calls, TypeOK, 
         Now(p, [call[p] EXCEPT !.pc = "limit", !.old = {}])
  PROVE  /\ call' \in [Calls -> Locals]
         /\ call'[p].pc = "limit"
         /\ call'[p].hash = call[p].hash
         /\ call'[p].accepts = call[p].accepts
         /\ call'[p].plan = call[p].plan
         /\ call'[p].target = call[p].target
         /\ call'[p].old = {}
         /\ call'[p].key = call[p].key
         /\ call'[p].op = call[p].op
         /\ \A q \in Calls : q # p => call'[q] = call[q]
<1> DEFINE l == [call[p] EXCEPT !.pc = "limit", !.old = {}]
<1>1. call[p] \in Locals
  BY DEF TypeOK
<1>2. /\ l \in Locals
      /\ l.pc = "limit"
      /\ l.hash = call[p].hash
      /\ l.accepts = call[p].accepts
      /\ l.plan = call[p].plan
      /\ l.target = call[p].target
      /\ l.old = {}
      /\ l.key = call[p].key
      /\ l.op = call[p].op
  BY <1>1 DEF Locals, Steps
<1>3. Now(p, l)
  BY DEF Goto, Matched
<1> HIDE DEF l
<1>4. QED
  BY <1>2, <1>3, NowFacts DEF TypeOK

LEMMA MatchedFacts ==
  ASSUME NEW p \in Calls, TypeOK, NEW r \in Rows,
         Matched(p, r)
  PROVE  /\ call' \in [Calls -> Locals]
         /\ call'[p].pc = "alias"
         /\ call'[p].hash = call[p].hash
         /\ call'[p].accepts = call[p].accepts
         /\ call'[p].plan = call[p].plan
         /\ call'[p].target = r
         /\ call'[p].old = ({device[r].primary} \cap Hashes) \cup {call[p].hash}
         /\ call'[p].key = call[p].key
         /\ call'[p].op = call[p].op
         /\ \A q \in Calls : q # p => call'[q] = call[q]
<1> DEFINE hashes == ({device[r].primary} \cap Hashes) \cup {call[p].hash}
           l == [call[p] EXCEPT !.pc = "alias", !.target = r, !.old = hashes]
<1>1. call[p] \in Locals /\ hashes \in SUBSET Hashes
  BY DEF TypeOK, Locals
<1>2. Now(p, l)
  BY DEF Matched
<1> HIDE DEF hashes
<1>3. /\ l \in Locals
      /\ l.pc = "alias"
      /\ l.hash = call[p].hash
      /\ l.accepts = call[p].accepts
      /\ l.plan = call[p].plan
      /\ l.target = r
      /\ l.old = hashes
      /\ l.key = call[p].key
      /\ l.op = call[p].op
  BY <1>1 DEF Locals, Steps
<1> HIDE DEF l
<1>4. QED
  BY <1>2, <1>3, NowFacts DEF TypeOK, hashes

LEMMA StartFacts ==
  ASSUME NEW p \in Calls, NEW request \in Locals, TypeOK, Start(p, request)
  PROVE  /\ call' \in [Calls -> Locals]
         /\ \A q \in Calls : q # p => call'[q] = call[q]
         /\ failures' \in 0 .. Threshold /\ transfers' = transfers
         /\ \/ /\ status = "ativa" /\ failures' = failures
               /\ call'[p].pc = "subscription" /\ call'[p].hash = request.hash
               /\ call'[p].accepts = IF fallback THEN "v1 and v2" ELSE "v2"
               /\ call'[p].plan = request.plan /\ call'[p].target = request.target
               /\ call'[p].old = request.old /\ call'[p].op = request.op
            \/ /\ status # "ativa" /\ LogFailure(p, TRUE)
<1> DEFINE l == [request EXCEPT !.pc = "subscription", !.accepts =
                                 IF fallback THEN "v1 and v2" ELSE "v2"]
<1>1. /\ l \in Locals /\ l.pc = "subscription" /\ l.hash = request.hash
      /\ l.accepts = IF fallback THEN "v1 and v2" ELSE "v2"
      /\ l.plan = request.plan /\ l.target = request.target
      /\ l.old = request.old /\ l.op = request.op
  BY DEF Locals, Steps
<1> HIDE DEF l
<1>2. CASE status = "ativa"
  <2>1. Now(p, l) /\ UNCHANGED counts
    BY <1>2 DEF Start, l
  <2>2. QED
    BY <1>1, <1>2, <2>1, NowFacts DEF TypeOK, counts
<1>3. CASE status # "ativa"
  <2>1. LogFailure(p, TRUE)
    BY <1>3 DEF Start
  <2>2. QED
    BY <1>3, <2>1, LogFailureFacts
<1>4. QED
  BY <1>2, <1>3

\* The row an action writes is a row.
LEMMA PutTyped ==
  ASSUME TypeOK, NEW r \in Rows, NEW row \in Devices, Put(r, row)
  PROVE  /\ device' \in [Rows -> Devices] /\ device'[r] = row
         /\ \A s \in Rows : s # r => device'[s] = device[s]
BY DEF TypeOK, Put

LEMMA AliasesTyped ==
  ASSUME TypeOK, NEW r \in Rows, NEW hashes \in SUBSET Hashes,
         Put(r, [device[r] EXCEPT !.aliases = @ \cup (IF fallback THEN hashes ELSE {})])
  PROVE  /\ device' \in [Rows -> Devices]
         /\ device'[r].state = device[r].state /\ device'[r].primary = device[r].primary
         /\ device'[r].aliases = IF fallback THEN device[r].aliases \cup hashes
                                             ELSE device[r].aliases
         /\ \A s \in Rows : s # r => device'[s] = device[s]
<1> DEFINE new == device[r].aliases \cup (IF fallback THEN hashes ELSE {})
           row == [device[r] EXCEPT !.aliases = new]
<1>1. device[r] \in Devices /\ new \in SUBSET Hashes
  BY DEF TypeOK, Devices
<1>2. Put(r, row)
  OBVIOUS
<1>3. new = IF fallback THEN device[r].aliases \cup hashes ELSE device[r].aliases
  OBVIOUS
<1> HIDE DEF new
<1>4. /\ row \in Devices /\ row.state = device[r].state
      /\ row.primary = device[r].primary /\ row.aliases = new
  BY <1>1 DEF Devices
<1> HIDE DEF row
<1>5. QED
  BY <1>2, <1>3, <1>4, PutTyped

LEMMA DeactivatedTyped ==
  ASSUME TypeOK, NEW r \in Rows \cup {NoRow}, Deactivated(r)
  PROVE  /\ device' \in [Rows -> Devices]
         /\ \A s \in Rows : /\ device'[s].primary = device[s].primary
                            /\ device'[s].aliases = device[s].aliases
                            /\ device'[s].state = "none" <=> device[s].state = "none"
                            /\ device'[s].state = "active" => device[s].state = "active"
<1>1. CASE r \in Rows /\ Exists(r)
  <2> DEFINE row == [device[r] EXCEPT !.state = "inactive"]
  <2>1. /\ row \in Devices /\ row.state = "inactive"
        /\ row.primary = device[r].primary /\ row.aliases = device[r].aliases
    BY <1>1 DEF TypeOK, Devices
  <2>2. Put(r, row) /\ device[r].state # "none"
    BY <1>1 DEF Deactivated, Exists
  <2> HIDE DEF row
  <2>3. QED
    BY <1>1, <2>1, <2>2, PutTyped
<1>2. CASE ~(r \in Rows /\ Exists(r))
  BY <1>2 DEF Deactivated, TypeOK
<1>3. QED
  BY <1>1, <1>2

----------------------------------------------------------------------------
(* What the steps of a call do, in terms of these.                          *)

\* Call p, and no other, takes a step.
CallStep(p) ==
  /\ call' \in [Calls -> Locals]
  /\ \A q \in Calls : q # p => call'[q] = call[q]

\* It goes on with the same request, ...
Moves(p, step, r, hashes) ==
  /\ call'[p].pc = step /\ call'[p].hash = call[p].hash
  /\ call'[p].accepts = call[p].accepts /\ call'[p].plan = call[p].plan
  /\ call'[p].op = call[p].op
  /\ call'[p].target = r /\ call'[p].old = hashes
  /\ UNCHANGED counts

\* ... or it ends, is about to, or has been refused.
Fresh(p) ==
  /\ call'[p].target = NoRow /\ call'[p].old = {}
  /\ call'[p].accepts = "v1 and v2" /\ call'[p].plan = 0
Ends(p) ==
  /\ Fresh(p) /\ call'[p].pc \in {"idle", "record"}
  /\ call'[p].pc = "record" => call'[p].op = "transfer"
  /\ call'[p].op = "transfer" => call[p].op = "transfer"
  /\ call'[p].pc = "idle" => call'[p].op = "validate"
  /\ UNCHANGED counts
Refused(p) ==
  /\ Fresh(p) /\ call'[p].pc = "suspect" /\ call'[p].op = "validate"
  /\ UNCHANGED counts

LEMMA RefusedFacts ==
  ASSUME NEW p \in Calls, TypeOK, LogFailure(p, FALSE)
  PROVE  CallStep(p) /\ Refused(p)
<1>1. failures' = failures
  BY DEF LogFailure
<1>2. QED
  BY <1>1, LogFailureFacts DEF CallStep, Refused, Fresh, counts

LEMMA GotoMoves ==
  ASSUME NEW p \in Calls, TypeOK, NEW step \in Steps, Goto(p, step), UNCHANGED counts
  PROVE  CallStep(p) /\ Moves(p, step, call[p].target, call[p].old)
BY GotoFacts DEF CallStep, Moves

LEMMA TargetMoves ==
  ASSUME NEW p \in Calls, TypeOK, NEW step \in Steps, NEW r \in Rows \cup {NoRow},
         Now(p, [call[p] EXCEPT !.pc = step, !.target = r]), UNCHANGED counts
  PROVE  CallStep(p) /\ Moves(p, step, r, call[p].old)
<1> DEFINE l == [call[p] EXCEPT !.pc = step, !.target = r]
<1>1. call[p] \in Locals
  BY DEF TypeOK
<1>2. l \in Locals
  BY <1>1 DEF Locals
<1>3. /\ l.pc = step
      /\ l.hash = call[p].hash
      /\ l.accepts = call[p].accepts
      /\ l.plan = call[p].plan
      /\ l.target = r
      /\ l.old = call[p].old
      /\ l.key = call[p].key
      /\ l.op = call[p].op
  BY <1>1 DEF Locals
<1>4. Now(p, l)
  OBVIOUS
<1> HIDE DEF l
<1>5. QED
  BY <1>2, <1>3, <1>4, NowFacts DEF TypeOK, CallStep, Moves

LEMMA MatchedMoves ==
  ASSUME NEW p \in Calls, TypeOK, NEW r \in Rows, Matched(p, r), UNCHANGED counts
  PROVE  /\ CallStep(p)
         /\ Moves(p, "alias", r, ({device[r].primary} \cap Hashes) \cup {call[p].hash})
BY MatchedFacts DEF CallStep, Moves

LEMMA ServedEnds ==
  ASSUME NEW p \in Calls, TypeOK, Served(p), UNCHANGED counts
  PROVE  CallStep(p) /\ Ends(p)
BY ServedFacts DEF CallStep, Ends, Fresh

LEMMA FinishEnds ==
  ASSUME NEW p \in Calls, TypeOK, Finish(p)
  PROVE  /\ CallStep(p) /\ call'[p].pc = "idle" /\ call'[p].op = "validate" /\ Fresh(p)
BY IdleFacts, NowFacts DEF TypeOK, CallStep, Fresh, Finish

LEMMA ReadSubscriptionFacts ==
  ASSUME NEW p \in Calls, TypeOK, ReadSubscription(p)
  PROVE  /\ CallStep(p)
         /\ \/ /\ call'[p].pc = "exact" /\ call'[p].plan = max
               /\ call'[p].hash = call[p].hash /\ call'[p].accepts = call[p].accepts
               /\ call'[p].op = call[p].op /\ call'[p].target = call[p].target
               /\ call'[p].old = call[p].old /\ UNCHANGED counts
            \/ Refused(p)
<1>1. CASE LogFailure(p, FALSE)
  BY <1>1, RefusedFacts
<1>2. CASE /\ Now(p, [call[p] EXCEPT !.pc = "exact", !.plan = max])
           /\ UNCHANGED counts
  BY <1>2, PlanFacts DEF CallStep
<1>3. QED
  BY <1>1, <1>2 DEF ReadSubscription

LEMMA MatchExactFacts ==
  ASSUME NEW p \in Calls, TypeOK, MatchExact(p)
  PROVE  /\ CallStep(p)
         /\ \/ \E r \in Holders(V2(p)) \cap ActiveRows : Moves(p, "limit", r, call[p].old)
            \/ /\ Holders(V2(p)) \cap ActiveRows = {}
               /\ Moves(p, "legacy", call[p].target, call[p].old)
<1>1. UNCHANGED counts
  BY DEF MatchExact
<1>2. CASE \E r \in Holders(V2(p)) \cap ActiveRows :
             Now(p, [call[p] EXCEPT !.pc = "limit", !.target = r])
  <2>1. PICK r \in Holders(V2(p)) \cap ActiveRows :
               Now(p, [call[p] EXCEPT !.pc = "limit", !.target = r])
    BY <1>2
  <2>2. r \in Rows \cup {NoRow}
    BY DEF ActiveRows
  <2>3. CallStep(p) /\ Moves(p, "limit", r, call[p].old)
    BY <1>1, <2>1, <2>2, TargetMoves DEF Steps
  <2>4. QED
    BY <2>3
<1>3. CASE Holders(V2(p)) \cap ActiveRows = {} /\ Goto(p, "legacy")
  BY <1>1, <1>3, GotoMoves DEF Steps
<1>4. QED
  BY <1>2, <1>3 DEF MatchExact

LEMMA LegacyMatchesFacts ==
  ASSUME NEW p \in Calls, NEW r \in LegacyMatches(p)
  PROVE  /\ r \in Rows /\ Active(r)
         /\ device[r].primary = call[p].hash \/ call[p].hash \in device[r].aliases
BY DEF LegacyMatches, Holders, Answering, ActiveRows

LEMMA MatchLegacyFacts ==
  ASSUME NEW p \in Calls, TypeOK, MatchLegacy(p)
  PROVE  /\ CallStep(p)
         /\ \/ Refused(p)
            \/ \E r \in LegacyMatches(p) :
                 Moves(p, "alias", r, ({device[r].primary} \cap Hashes) \cup {call[p].hash})
            \/ Moves(p, "reconcile", call[p].target, call[p].old)
            \/ /\ call[p].accepts = "v2"
               /\ Moves(p, "limit", call[p].target, call[p].old)
<1>1. CASE call[p].accepts = "v1 and v2" /\ UNCHANGED counts
           /\ \E r \in LegacyMatches(p) : Matched(p, r)
  <2>1. PICK r \in LegacyMatches(p) : Matched(p, r)
    BY <1>1
  <2>2. r \in Rows
    BY LegacyMatchesFacts
  <2>3. /\ CallStep(p)
        /\ Moves(p, "alias", r, ({device[r].primary} \cap Hashes) \cup {call[p].hash})
    BY <1>1, <2>1, <2>2, MatchedMoves
  <2>4. QED
    BY <2>3
<1>2. CASE UNCHANGED counts /\ Goto(p, "reconcile")
  BY <1>2, GotoMoves DEF Steps
<1>3. CASE LogFailure(p, FALSE)
  BY <1>3, RefusedFacts
<1>4. CASE call[p].accepts = "v2" /\ Goto(p, "limit") /\ UNCHANGED counts
  BY <1>4, GotoMoves DEF Steps
<1>5. QED
  BY <1>1, <1>2, <1>3, <1>4 DEF MatchLegacy

SameMachine(p) ==
  {r \in ActiveRows : \E x \in {device[r].primary} \cup device[r].aliases : Owner(x) = V2(p)}

LEMMA ReconcileFacts ==
  ASSUME NEW p \in Calls, TypeOK, Reconcile(p)
  PROVE  /\ CallStep(p)
         /\ \/ \E r \in SameMachine(p) :
                 Moves(p, "alias", r, ({device[r].primary} \cap Hashes) \cup {call[p].hash})
            \/ SameMachine(p) = {} /\ Moves(p, "limit", call[p].target, call[p].old)
<1>1. UNCHANGED counts
  BY DEF Reconcile
<1>2. CASE \E r \in SameMachine(p) : Matched(p, r)
  <2>1. PICK r \in SameMachine(p) : Matched(p, r)
    BY <1>2
  <2>2. r \in Rows
    BY DEF SameMachine, ActiveRows
  <2>3. QED
    BY <1>1, <2>1, <2>2, MatchedMoves
<1>3. CASE SameMachine(p) = {} /\ Goto(p, "limit")
  BY <1>1, <1>3, GotoMoves DEF Steps
<1>4. QED
  BY <1>2, <1>3 DEF Reconcile, SameMachine

\* A call that writes a row has one.
Targets ==
  \A p \in Calls : call[p].pc \in {"alias", "promote", "registerAlias"} => call[p].target \in Rows
Typed == TypeOK /\ Targets

\* The aliases of row r after hashes have been added.
Aliased(r, hashes) ==
  /\ device' \in [Rows -> Devices]
  /\ device'[r].state = device[r].state /\ device'[r].primary = device[r].primary
  /\ device'[r].aliases = IF fallback THEN device[r].aliases \cup hashes
                                      ELSE device[r].aliases
  /\ \A s \in Rows : s # r => device'[s] = device[s]

LEMMA PromoteAliasesFacts ==
  ASSUME NEW p \in Calls, Typed, PromoteAliases(p)
  PROVE  /\ CallStep(p) /\ call[p].pc = "alias" /\ call[p].target \in Rows
         /\ \/ /\ Exists(call[p].target) /\ Aliased(call[p].target, call[p].old)
               /\ Moves(p, "promote", call[p].target, call[p].old)
            \/ Refused(p) /\ UNCHANGED device
<1> DEFINE r == call[p].target
           hashes == call[p].old
<1>1. /\ r \in Rows /\ hashes \in SUBSET Hashes /\ TypeOK /\ call[p].pc = "alias"
      /\ AddAliases(p, r, hashes, "promote")
  BY DEF Typed, Targets, TypeOK, Locals, PromoteAliases, At
<1>2. call[p].target = r /\ call[p].old = hashes
  OBVIOUS
<1> HIDE DEF r, hashes
<1>3. CASE LogFailure(p, FALSE) /\ UNCHANGED device
  BY <1>1, <1>2, <1>3, RefusedFacts
<1>4. CASE /\ Exists(r) /\ Goto(p, "promote") /\ UNCHANGED counts
           /\ Put(r, [device[r] EXCEPT !.aliases = @ \cup (IF fallback THEN hashes ELSE {})])
  <2>1. Aliased(r, hashes)
    BY <1>1, <1>4, AliasesTyped DEF Aliased
  <2>2. CallStep(p) /\ Moves(p, "promote", r, hashes)
    BY <1>1, <1>2, <1>4, GotoMoves DEF Steps
  <2>3. QED
    BY <1>1, <1>2, <1>4, <2>1, <2>2
<1>5. QED
  BY <1>1, <1>3, <1>4 DEF AddAliases

\* Row r active, with another primary.
Promotes(r, x) ==
  /\ device' \in [Rows -> Devices]
  /\ device'[r].state = "active" /\ device'[r].primary = x
  /\ device'[r].aliases = device[r].aliases
  /\ \A s \in Rows : s # r => device'[s] = device[s]

LEMMA PromoteFacts ==
  ASSUME NEW p \in Calls, Typed, Promote(p)
  PROVE  /\ CallStep(p) /\ call[p].pc = "promote" /\ call[p].target \in Rows
         /\ \/ /\ Exists(call[p].target) /\ Holders(V2(p)) \subseteq {call[p].target}
               /\ Promotes(call[p].target, V2(p))
               /\ Moves(p, "limit", call[p].target, {})
            \/ /\ ~Exists(call[p].target) /\ UNCHANGED device
               /\ Moves(p, "limit", call[p].target, {})
            \/ Refused(p) /\ UNCHANGED device
<1> DEFINE r == call[p].target
           row == [device[r] EXCEPT !.primary = V2(p), !.state = "active"]
           Promoted == Now(p, [call[p] EXCEPT !.pc = "limit", !.old = {}])
<1>1. r \in Rows /\ TypeOK /\ call[p].pc = "promote" /\ V2(p) \in Prints
  BY V2Typed DEF Typed, Targets, TypeOK, Locals, Promote, At, V2
<1>2. ASSUME Promoted, UNCHANGED counts
      PROVE  CallStep(p) /\ Moves(p, "limit", r, {})
  BY <1>1, <1>2, PromotedFacts DEF CallStep, Moves
<1>3. /\ row \in Devices /\ row.state = "active" /\ row.primary = V2(p)
      /\ row.aliases = device[r].aliases
  BY <1>1 DEF TypeOK, Devices
<1>4. call[p].target = r
  OBVIOUS
<1>5. CASE LogFailure(p, FALSE) /\ UNCHANGED device
  BY <1>1, <1>4, <1>5, RefusedFacts
<1>6. CASE ~Exists(r) /\ Promoted /\ UNCHANGED <<device, counts>>
  BY <1>1, <1>2, <1>4, <1>6
<1>7. CASE /\ Exists(r) /\ Holders(V2(p)) \subseteq {r} /\ Put(r, row)
           /\ Promoted /\ UNCHANGED counts
  <2>1. CallStep(p) /\ Moves(p, "limit", r, {})
    BY <1>2, <1>7
  <2> HIDE DEF row
  <2>2. Promotes(r, V2(p))
    BY <1>1, <1>3, <1>7, PutTyped DEF Promotes
  <2>3. QED
    BY <1>1, <1>4, <1>7, <2>1, <2>2
<1>8. QED
  BY <1>5, <1>6, <1>7 DEF Promote

LEMMA CheckDeviceLimitFacts ==
  ASSUME NEW p \in Calls, Typed, CheckDeviceLimit(p)
  PROVE  /\ CallStep(p) /\ call[p].pc = "limit"
         /\ \/ Ends(p) \/ Refused(p)
            \/ /\ call[p].target = NoRow /\ Cardinality(ActiveRows) < call[p].plan
               /\ Moves(p, "register", call[p].target, call[p].old)
<1>1. TypeOK /\ call[p].pc = "limit"
  BY DEF Typed, CheckDeviceLimit, At
<1>2. CASE Served(p) /\ UNCHANGED counts
  BY <1>1, <1>2, ServedEnds
<1>3. CASE LogFailure(p, FALSE)
  BY <1>1, <1>3, RefusedFacts
<1>4. CASE /\ call[p].target = NoRow /\ Cardinality(ActiveRows) < call[p].plan
           /\ Goto(p, "register") /\ UNCHANGED counts
  BY <1>1, <1>4, GotoMoves DEF Steps
<1>5. QED
  BY <1>2, <1>3, <1>4 DEF CheckDeviceLimit

LEMMA RegisterFacts ==
  ASSUME NEW p \in Calls, Typed, Register(p)
  PROVE  /\ CallStep(p) /\ call[p].pc = "register"
         /\ \E r \in Rows :
              /\ IF Holders(V2(p)) # {} THEN r \in Holders(V2(p)) ELSE r \in FreshRows
              /\ device' \in [Rows -> Devices]
              /\ device'[r].state = "active" /\ device'[r].primary = V2(p)
              /\ device'[r].aliases = IF Exists(r) THEN device[r].aliases ELSE {}
              /\ \A s \in Rows : s # r => device'[s] = device[s]
              /\ Moves(p, "registerAlias", r, call[p].old)
<1>1. TypeOK /\ call[p].pc = "register" /\ V2(p) \in Prints /\ UNCHANGED counts
  BY V2Typed DEF Typed, TypeOK, Locals, Register, At, V2
<1>2. PICK r \in Rows :
        /\ IF Holders(V2(p)) # {} THEN r \in Holders(V2(p))
           ELSE FreshRows # {} /\ r = CHOOSE x \in FreshRows : TRUE
        /\ Put(r, IF Exists(r) THEN [device[r] EXCEPT !.state = "active"]
                  ELSE [state |-> "active", primary |-> V2(p), aliases |-> {}])
        /\ Now(p, [call[p] EXCEPT !.pc = "registerAlias", !.target = r])
  BY DEF Register
<1> DEFINE row == IF Exists(r) THEN [device[r] EXCEPT !.state = "active"]
                  ELSE [state |-> "active", primary |-> V2(p), aliases |-> {}]
<1>3. IF Holders(V2(p)) # {} THEN r \in Holders(V2(p)) ELSE r \in FreshRows
  BY <1>2
<1>4. /\ row \in Devices /\ row.state = "active" /\ row.primary = V2(p)
      /\ row.aliases = IF Exists(r) THEN device[r].aliases ELSE {}
  <2>1. CASE Exists(r)
    <3>1. device[r].primary = V2(p) /\ device[r] \in Devices
      BY <1>1, <1>3, <2>1 DEF Holders, FreshRows, TypeOK
    <3>2. QED
      BY <2>1, <3>1 DEF Devices
  <2>2. CASE ~Exists(r)
    BY <1>1, <2>2 DEF Devices
  <2>3. QED
    BY <2>1, <2>2
<1>5. CallStep(p) /\ Moves(p, "registerAlias", r, call[p].old)
  <2>1. r \in Rows \cup {NoRow}
    OBVIOUS
  <2>2. QED
    BY <1>1, <1>2, <2>1, TargetMoves DEF Steps
<1>6. Put(r, row)
  BY <1>2
<1> HIDE DEF row
<1>7. /\ device' \in [Rows -> Devices] /\ device'[r] = row
      /\ \A s \in Rows : s # r => device'[s] = device[s]
  BY <1>1, <1>4, <1>6, PutTyped
<1>8. QED
  BY <1>1, <1>3, <1>4, <1>5, <1>7

LEMMA RegisterAliasFacts ==
  ASSUME NEW p \in Calls, Typed, RegisterAlias(p)
  PROVE  /\ CallStep(p) /\ call[p].pc = "registerAlias" /\ call[p].target \in Rows
         /\ \/ /\ Exists(call[p].target) /\ Aliased(call[p].target, {call[p].hash})
               /\ Ends(p)
            \/ Refused(p) /\ UNCHANGED device
<1> DEFINE r == call[p].target
           hashes == {call[p].hash}
<1>1. /\ r \in Rows /\ hashes \in SUBSET Hashes /\ TypeOK
      /\ call[p].pc = "registerAlias"
  BY DEF Typed, Targets, TypeOK, Locals, RegisterAlias, At
<1>2. call[p].target = r /\ {call[p].hash} = hashes
  OBVIOUS
<1>3. \/ /\ Exists(r) /\ Served(p) /\ UNCHANGED counts
         /\ Put(r, [device[r] EXCEPT !.aliases = @ \cup (IF fallback THEN hashes ELSE {})])
      \/ LogFailure(p, FALSE) /\ UNCHANGED device
  BY DEF RegisterAlias
<1> HIDE DEF r, hashes
<1>4. CASE LogFailure(p, FALSE) /\ UNCHANGED device
  BY <1>1, <1>2, <1>4, RefusedFacts
<1>5. CASE /\ Exists(r) /\ Served(p) /\ UNCHANGED counts
           /\ Put(r, [device[r] EXCEPT !.aliases = @ \cup (IF fallback THEN hashes ELSE {})])
  <2>1. Aliased(r, hashes)
    BY <1>1, <1>5, AliasesTyped DEF Aliased
  <2>2. CallStep(p) /\ Ends(p)
    BY <1>1, <1>5, ServedEnds
  <2>3. QED
    BY <1>1, <1>2, <1>5, <2>1, <2>2
<1>6. QED
  BY <1>3, <1>4, <1>5

LEMMA CheckSuspiciousActivityFacts ==
  ASSUME NEW p \in Calls, Typed, CheckSuspiciousActivity(p)
  PROVE  /\ CallStep(p)
         /\ \/ Ends(p)
            \/ /\ failures >= Threshold
               /\ Moves(p, "autoblock", call[p].target, call[p].old)
<1>1. TypeOK /\ UNCHANGED counts
  BY DEF Typed, CheckSuspiciousActivity
<1>2. CASE failures >= Threshold /\ Goto(p, "autoblock")
  BY <1>1, <1>2, GotoMoves DEF Steps
<1>3. CASE Finish(p)
  BY <1>1, <1>3, FinishEnds DEF Ends
<1>4. QED
  BY <1>2, <1>3 DEF CheckSuspiciousActivity

LEMMA StartOutcome ==
  ASSUME NEW p \in Calls, NEW request \in Locals, Typed, Start(p, request)
  PROVE  /\ CallStep(p) /\ failures' \in 0 .. Threshold /\ transfers' = transfers
         /\ call'[p].op \in {"validate", request.op}
         /\ \/ /\ status = "ativa" /\ failures' = failures
               /\ call'[p].pc = "subscription"
               /\ call'[p].accepts = IF fallback THEN "v1 and v2" ELSE "v2"
               /\ call'[p].plan = request.plan
               /\ call'[p].target = request.target /\ call'[p].old = request.old
               /\ call'[p].hash = request.hash
            \/ /\ status # "ativa" /\ Fresh(p) /\ call'[p].pc = "suspect"
<1>1. TypeOK
  BY DEF Typed
<1>2. CASE status # "ativa" /\ LogFailure(p, TRUE)
  <2>1. /\ CallStep(p) /\ failures' \in 0 .. Threshold /\ transfers' = transfers
        /\ Fresh(p) /\ call'[p].pc = "suspect"
    BY <1>1, <1>2, LogFailureFacts DEF CallStep, Fresh
  <2>2. call'[p].op = "validate"
    BY <1>1, <1>2, LogFailureFacts
  <2>3. QED
    BY <1>2, <2>1, <2>2
<1>3. CASE ~(status # "ativa" /\ LogFailure(p, TRUE))
  BY <1>1, <1>3, StartFacts DEF CallStep
<1>4. QED
  BY <1>2, <1>3

\* A deactivation under way, by the v2 or the v1 hash.
Deactivating(p) ==
  /\ call'[p].pc \in {"tryV1", "resolve", "deactivate"} /\ call'[p].old = {}
  /\ call'[p].accepts = "v1 and v2" /\ call'[p].plan = 0 /\ call'[p].op = "validate"
  /\ UNCHANGED counts

LEMMA ValidateFacts ==
  ASSUME NEW p \in Calls, Typed, Validate(p)
  PROVE  \E f \in Hashes : Start(p, Request(f)) /\ Request(f) \in Locals
BY RequestFacts DEF Validate

LEMMA MalformedFacts ==
  ASSUME NEW p \in Calls, Typed, Malformed(p)
  PROVE  /\ CallStep(p) /\ Fresh(p) /\ call'[p].pc = "suspect" /\ call'[p].op = "validate"
         /\ failures' \in 0 .. Threshold /\ transfers' = transfers /\ abused' = TRUE
BY LogFailureFacts DEF Typed, Malformed, CallStep, Fresh

LEMMA TransferFacts ==
  ASSUME NEW p \in Calls, Typed, Transfer(p)
  PROVE  /\ CallStep(p) /\ Fresh(p) /\ call'[p].pc = "counted"
         /\ call'[p].op = "transfer" /\ transfers < MaxTransfers /\ UNCHANGED counts
<1>1. PICK f \in Hashes :
        Now(p, [Request(f) EXCEPT !.pc = "counted", !.op = "transfer"])
  BY DEF Transfer
<1> DEFINE request == Request(f)
           l == [request EXCEPT !.pc = "counted", !.op = "transfer"]
<1>2. /\ request \in Locals /\ request.target = NoRow /\ request.old = {}
      /\ request.accepts = "v1 and v2" /\ request.plan = 0
      /\ request.op = "validate"
  BY RequestFacts
<1>3. Now(p, l)
  BY <1>1
<1> HIDE DEF request
<1>4. /\ l \in Locals /\ l.pc = "counted" /\ l.op = "transfer" /\ l.target = NoRow
      /\ l.old = {} /\ l.accepts = "v1 and v2" /\ l.plan = 0
  BY <1>2 DEF Locals, Steps
<1> HIDE DEF l
<1>5. QED
  BY <1>3, <1>4, NowFacts DEF Typed, TypeOK, CallStep, Fresh, Transfer

LEMMA DeactivateFacts ==
  ASSUME NEW p \in Calls, Typed, Deactivate(p)
  PROVE  CallStep(p) /\ Deactivating(p)
<1>1. UNCHANGED counts
  BY DEF Deactivate
<1>2. CASE \E f \in Hashes :
             Now(p, [Request(f) EXCEPT !.pc = "resolve", !.key = MachineOf[f]])
  <2>1. PICK f \in Hashes :
               Now(p, [Request(f) EXCEPT !.pc = "resolve", !.key = MachineOf[f]])
    BY <1>2
  <2> DEFINE request == Request(f)
             l == [request EXCEPT !.pc = "resolve", !.key = MachineOf[f]]
  <2>2. /\ request \in Locals /\ request.target = NoRow /\ request.old = {}
        /\ request.accepts = "v1 and v2" /\ request.plan = 0
        /\ request.op = "validate"
    BY RequestFacts
  <2>3. Now(p, l)
    BY <2>1
  <2> HIDE DEF request
  <2>4. /\ l \in Locals /\ l.pc = "resolve" /\ l.op = "validate"
        /\ l.old = {} /\ l.accepts = "v1 and v2" /\ l.plan = 0
    BY <2>2, V2Typed DEF Locals, Steps
  <2> HIDE DEF l
  <2>5. QED
    BY <1>1, <2>3, <2>4, NowFacts DEF Typed, TypeOK, CallStep, Deactivating
<1>3. CASE \E f \in Hashes : Now(p, [Request(f) EXCEPT !.pc = "tryV1"])
  <2>1. PICK f \in Hashes : Now(p, [Request(f) EXCEPT !.pc = "tryV1"])
    BY <1>3
  <2> DEFINE request == Request(f)
             l == [request EXCEPT !.pc = "tryV1"]
  <2>2. /\ request \in Locals /\ request.target = NoRow /\ request.old = {}
        /\ request.accepts = "v1 and v2" /\ request.plan = 0
        /\ request.op = "validate"
    BY RequestFacts
  <2>3. Now(p, l)
    BY <2>1
  <2> HIDE DEF request
  <2>4. /\ l \in Locals /\ l.pc = "tryV1" /\ l.op = "validate"
        /\ l.old = {} /\ l.accepts = "v1 and v2" /\ l.plan = 0
    BY <2>2 DEF Locals, Steps
  <2> HIDE DEF l
  <2>5. QED
    BY <1>1, <2>3, <2>4, NowFacts DEF Typed, TypeOK, CallStep, Deactivating
<1>4. QED
  BY <1>2, <1>3 DEF Deactivate

LEMMA ResolveDeviceFacts ==
  ASSUME NEW p \in Calls, Typed, ResolveDevice(p)
  PROVE  \E r \in Rows \cup {NoRow} : CallStep(p) /\ Moves(p, "deactivate", r, call[p].old)
<1>1. TypeOK /\ UNCHANGED counts
  BY DEF Typed, ResolveDevice
<1>2. PICK r \in Resolved(call[p].key) :
        Now(p, [call[p] EXCEPT !.pc = "deactivate", !.target = r])
  BY DEF ResolveDevice
<1>3. r \in Rows \cup {NoRow}
  BY DEF Resolved, Answering
<1>4. CallStep(p) /\ Moves(p, "deactivate", r, call[p].old)
  BY <1>1, <1>2, <1>3, TargetMoves DEF Steps
<1>5. QED
  BY <1>3, <1>4

LEMMA TryV1Facts ==
  ASSUME NEW p \in Calls, Typed, TryV1(p)
  PROVE  /\ CallStep(p)
         /\ Ends(p) \/ Moves(p, "resolve", call[p].target, call[p].old)
<1>1. TypeOK /\ UNCHANGED counts
  BY DEF Typed, TryV1
<1>2. CASE Goto(p, "resolve")
  BY <1>1, <1>2, GotoMoves DEF Steps
<1>3. CASE Finish(p)
  BY <1>1, <1>3, FinishEnds DEF Ends
<1>4. QED
  BY <1>2, <1>3 DEF TryV1

----------------------------------------------------------------------------
(* What the steps of a plan change do.                                      *)

LEMMA CommitFacts ==
  ASSUME Typed, NEW size \in PlanSizes, Commit(size)
  PROVE  /\ max' = size /\ peak' \in PlanSizes /\ peak' >= peak /\ peak' >= size
         /\ UNCHANGED <<status, fallback, twins, abused>>
BY LegacyAssumption DEF Typed, TypeOK, Commit

LEMMA StartDowngradeFacts ==
  ASSUME Typed, StartDowngrade
  PROVE  /\ change' \in Changes /\ change'.todo = {}
         /\ (\E size \in PlanSizes : Commit(size)) \/ UNCHANGED <<license, history>>
<1>1. PICK size \in PlanSizes :
        \/ Commit(size) /\ change' = [NoChange EXCEPT !.pc = "list"]
        \/ change' = [NoChange EXCEPT !.pc = "list", !.new = size] /\ UNCHANGED <<license, history>>
  BY DEF StartDowngrade
<1>2. CASE Commit(size) /\ change' = [NoChange EXCEPT !.pc = "list"]
  BY <1>2 DEF NoChange, Changes
<1>3. CASE /\ change' = [NoChange EXCEPT !.pc = "list", !.new = size]
           /\ UNCHANGED <<license, history>>
  BY <1>3 DEF NoChange, Changes
<1>4. QED
  BY <1>1, <1>2, <1>3

LEMMA ListFacts ==
  ASSUME Typed, ListActiveDevices
  PROVE  /\ change' \in Changes
         /\ change'.todo = {<<r, device[r].primary>> : r \in ActiveRows}
<1> DEFINE listed == {<<r, device[r].primary>> : r \in ActiveRows}
<1>1. listed \in SUBSET (Rows \X Prints)
  BY DEF Typed, TypeOK, Devices, ActiveRows
<1>2. change' = [change EXCEPT !.pc = "next", !.todo = listed] /\ change \in Changes
  BY DEF ListActiveDevices, Typed, TypeOK
<1> HIDE DEF listed
<1>3. change' \in Changes /\ change'.todo = listed
  BY <1>1, <1>2 DEF Changes
<1>4. QED
  BY <1>3 DEF listed

LEMMA ResolveListedFacts ==
  ASSUME Typed, ResolveListed
  PROVE  /\ change' \in Changes
         /\ \E entry \in change.todo : \E r \in Resolved(entry[2]) :
              /\ entry[1] \in Rows /\ entry[2] \in Prints /\ entry = <<entry[1], entry[2]>>
              /\ r \in Rows \cup {NoRow}
              /\ change'.todo = change.todo \ {entry}
              /\ change'.listed = entry[1] /\ change'.found = r
<1>0. PICK entry \in change.todo : \E r \in Resolved(entry[2]) :
        change' = [change EXCEPT !.pc = "deactivate", !.todo = change.todo \ {entry},
                     !.listed = entry[1], !.found = r]
  BY DEF ResolveListed
<1>1. PICK r \in Resolved(entry[2]) :
        change' = [change EXCEPT !.pc = "deactivate", !.todo = change.todo \ {entry},
                     !.listed = entry[1], !.found = r]
  BY <1>0
<1>2. change \in Changes /\ change.todo \in SUBSET (Rows \X Prints)
  BY DEF Typed, TypeOK, Changes
<1>3. /\ entry[1] \in Rows /\ entry[2] \in Prints /\ entry = <<entry[1], entry[2]>>
      /\ r \in Rows \cup {NoRow}
  BY <1>2 DEF Resolved, Answering
<1> DEFINE rest == change.todo \ {entry}
<1>4. rest \in SUBSET (Rows \X Prints)
  BY <1>2
<1>5. change' = [change EXCEPT !.pc = "deactivate", !.todo = rest,
                     !.listed = entry[1], !.found = r]
  BY <1>1
<1> HIDE DEF rest
<1>6. /\ change' \in Changes /\ change'.todo = rest
      /\ change'.listed = entry[1] /\ change'.found = r
  BY <1>2, <1>3, <1>4, <1>5 DEF Changes
<1>7. QED
  BY <1>3, <1>6 DEF rest

LEMMA DeactivateListedFacts ==
  ASSUME Typed, DeactivateListed
  PROVE  /\ change' \in Changes /\ change'.todo = change.todo
         /\ change.found \in Rows \cup {NoRow} /\ Deactivated(change.found)
<1>1. /\ change' = [change EXCEPT !.pc = "next", !.listed = NoRow, !.found = NoRow]
      /\ change \in Changes
  BY DEF DeactivateListed, Typed, TypeOK
<1>2. QED
  BY <1>1 DEF Changes, DeactivateListed

LEMMA FinishDowngradeFacts ==
  ASSUME Typed, FinishDowngrade
  PROVE  /\ change' \in Changes /\ change'.todo = {}
         /\ (\E size \in PlanSizes : Commit(size)) \/ UNCHANGED <<license, history>>
<1>1. change' \in Changes /\ change'.todo = {}
  BY DEF FinishDowngrade, NoChange, Changes
<1>2. change.new \in {0} \cup PlanSizes
  BY DEF Typed, TypeOK, Changes
<1>3. QED
  BY <1>1, <1>2 DEF FinishDowngrade

LEMMA DeleteFacts ==
  ASSUME Typed, DeleteDevice
  PROVE  \E r \in Rows : Put(r, NoDevice)
BY DEF DeleteDevice, Answering

LEMMA CutoffFacts ==
  ASSUME Typed, Cutoff
  PROVE  /\ device' \in [Rows -> Devices] /\ fallback' = FALSE
         /\ \A r \in Rows : /\ device'[r].state = device[r].state
                            /\ device'[r].primary = device[r].primary
                            /\ device'[r].aliases = {}
<1>1. \A r \in Rows : LET row == [device[r] EXCEPT !.aliases = {}]
                      IN /\ row \in Devices /\ row.state = device[r].state
                         /\ row.primary = device[r].primary /\ row.aliases = {}
  BY DEF Typed, TypeOK, Devices
<1>2. device' = [r \in Rows |-> [device[r] EXCEPT !.aliases = {}]] /\ fallback' = FALSE
  BY DEF Cutoff
<1>3. QED
  BY <1>1, <1>2

----------------------------------------------------------------------------
(* Types.                                                                   *)

CallAction(p) ==
  \/ Validate(p) \/ Malformed(p) \/ ReadSubscription(p)
  \/ MatchExact(p) \/ MatchLegacy(p) \/ Reconcile(p)
  \/ PromoteAliases(p) \/ Promote(p) \/ CheckDeviceLimit(p)
  \/ Register(p) \/ RegisterAlias(p)
  \/ CheckSuspiciousActivity(p) \/ BlockAutomatically(p)
  \/ Transfer(p) \/ ValidateTransfer(p) \/ RecordTransfer(p)
  \/ Deactivate(p) \/ TryV1(p) \/ ResolveDevice(p) \/ DeactivateDevice(p)

LEMMA TypedStep ==
  ASSUME NEW p \in Calls, Typed, CallStep(p),
         call'[p].pc \in {"alias", "promote", "registerAlias"} => call'[p].target \in Rows,
         device' \in [Rows -> Devices],
         failures' \in 0 .. Threshold, transfers' \in Nat,
         requests' \in 0 .. MaxRequests, status' \in Statuses, abused' \in BOOLEAN,
         UNCHANGED <<max, fallback, change, twins, peak, acts>>
  PROVE  Typed'
<1>1. TypeOK'
  BY DEF Typed, TypeOK, CallStep
<1>2. Targets'
  BY DEF Typed, Targets, CallStep
<1>3. QED
  BY <1>1, <1>2 DEF Typed

LEMMA AskTyped ==
  ASSUME Typed, Ask
  PROVE  requests' \in 0 .. MaxRequests /\ UNCHANGED acts
BY LegacyAssumption DEF Typed, TypeOK, Ask

LEMMA CallTyped ==
  ASSUME NEW p \in Calls, Typed, CallAction(p)
  PROVE  Typed'
<1> USE DEF license, history, bounds, counts
<1>0. /\ device \in [Rows -> Devices] /\ failures \in 0 .. Threshold /\ transfers \in Nat
      /\ requests \in 0 .. MaxRequests /\ status \in Statuses /\ abused \in BOOLEAN /\ TypeOK
      /\ call[p] \in Locals
  BY DEF Typed, TypeOK
<1>1. CASE Validate(p)
  <2>1. PICK f \in Hashes : Start(p, Request(f)) /\ Request(f) \in Locals
    BY <1>1, ValidateFacts
  <2>2. CallStep(p) /\ failures' \in 0 .. Threshold /\ transfers' = transfers
        /\ call'[p].pc \in {"subscription", "suspect"}
    BY <2>1, StartOutcome
  <2>3. QED
    BY <1>0, <1>1, <2>2, AskTyped, TypedStep DEF Validate
<1>2. CASE Malformed(p)
  BY <1>0, <1>2, MalformedFacts, AskTyped, TypedStep DEF Malformed
<1>3. CASE ReadSubscription(p)
  BY <1>0, <1>3, ReadSubscriptionFacts, TypedStep
     DEF ReadSubscription, Moves, Refused, Fresh, Ends, Deactivating
<1>4. CASE MatchExact(p)
  <2>1. /\ CallStep(p)
        /\ call'[p].pc \in {"alias", "promote", "registerAlias"} => call'[p].target \in Rows
    BY <1>0, <1>4, MatchExactFacts DEF Moves, Refused, Fresh
  <2>2. failures' \in 0 .. Threshold /\ transfers' \in Nat
    BY <1>0, <1>4, MatchExactFacts DEF Moves, Refused
  <2>3. QED
    BY <1>0, <1>4, <2>1, <2>2, TypedStep DEF MatchExact
<1>5. CASE MatchLegacy(p)
  <2>1. /\ CallStep(p)
        /\ call'[p].pc \in {"alias", "promote", "registerAlias"} => call'[p].target \in Rows
    BY <1>0, <1>5, MatchLegacyFacts, LegacyMatchesFacts DEF Moves, Refused, Fresh
  <2>2. failures' \in 0 .. Threshold /\ transfers' \in Nat
    BY <1>0, <1>5, MatchLegacyFacts DEF Moves, Refused
  <2>3. QED
    BY <1>0, <1>5, <2>1, <2>2, TypedStep DEF MatchLegacy
<1>6. CASE Reconcile(p)
  <2>1. /\ CallStep(p)
        /\ call'[p].pc \in {"alias", "promote", "registerAlias"} => call'[p].target \in Rows
    BY <1>0, <1>6, ReconcileFacts DEF Moves, Refused, Fresh, SameMachine, ActiveRows
  <2>2. failures' \in 0 .. Threshold /\ transfers' \in Nat
    BY <1>0, <1>6, ReconcileFacts DEF Moves, Refused
  <2>3. QED
    BY <1>0, <1>6, <2>1, <2>2, TypedStep DEF Reconcile
<1>7. CASE PromoteAliases(p)
  BY <1>0, <1>7, PromoteAliasesFacts, TypedStep
     DEF PromoteAliases, Aliased, Moves, Refused, Fresh, Ends
<1>8. CASE Promote(p)
  BY <1>0, <1>8, PromoteFacts, TypedStep DEF Promote, Promotes, Moves, Refused, Fresh
<1>9. CASE CheckDeviceLimit(p)
  <2>1. /\ CallStep(p)
        /\ call'[p].pc \in {"alias", "promote", "registerAlias"} => call'[p].target \in Rows
    BY <1>0, <1>9, CheckDeviceLimitFacts DEF Moves, Refused, Fresh, Ends
  <2>2. failures' \in 0 .. Threshold /\ transfers' \in Nat
    BY <1>0, <1>9, CheckDeviceLimitFacts DEF Moves, Refused, Ends
  <2>3. QED
    BY <1>0, <1>9, <2>1, <2>2, TypedStep DEF CheckDeviceLimit
<1>10. CASE Register(p)
  <2>1. /\ CallStep(p) /\ device' \in [Rows -> Devices]
        /\ call'[p].pc \in {"alias", "promote", "registerAlias"} => call'[p].target \in Rows
    BY <1>0, <1>10, RegisterFacts DEF Moves
  <2>2. failures' \in 0 .. Threshold /\ transfers' \in Nat
    BY <1>0, <1>10 DEF Register
  <2>3. QED
    BY <1>0, <1>10, <2>1, <2>2, TypedStep DEF Register
<1>11. CASE RegisterAlias(p)
  BY <1>0, <1>11, RegisterAliasFacts, TypedStep
     DEF RegisterAlias, Aliased, Moves, Refused, Fresh, Ends
<1>12. CASE CheckSuspiciousActivity(p)
  BY <1>0, <1>12, CheckSuspiciousActivityFacts, TypedStep
     DEF CheckSuspiciousActivity, Moves, Refused, Fresh, Ends, Deactivating
<1>13. CASE BlockAutomatically(p)
  BY <1>0, <1>13, FinishEnds, TypedStep DEF BlockAutomatically, Statuses
<1>14. CASE Transfer(p)
  BY <1>0, <1>14, TransferFacts, AskTyped, TypedStep
     DEF Transfer, Moves, Refused, Fresh, Ends, Deactivating
<1>15. CASE ValidateTransfer(p)
  <2>1. Start(p, call[p])
    BY <1>15 DEF ValidateTransfer
  <2>2. CallStep(p) /\ failures' \in 0 .. Threshold /\ transfers' = transfers
        /\ call'[p].pc \in {"subscription", "suspect"}
    BY <1>0, <2>1, StartOutcome
  <2>3. QED
    BY <1>0, <1>15, <2>2, TypedStep DEF ValidateTransfer
<1>16. CASE RecordTransfer(p)
  BY <1>0, <1>16, FinishEnds, TypedStep DEF RecordTransfer, Statuses
<1>17. CASE Deactivate(p)
  BY <1>0, <1>17, DeactivateFacts, AskTyped, TypedStep
     DEF Deactivate, Moves, Refused, Fresh, Ends, Deactivating
<1>18. CASE TryV1(p)
  BY <1>0, <1>18, TryV1Facts, TypedStep
     DEF TryV1, Moves, Refused, Fresh, Ends, Deactivating
<1>19. CASE ResolveDevice(p)
  <2>1. CallStep(p) /\ call'[p].pc = "deactivate"
    BY <1>19, ResolveDeviceFacts DEF Moves
  <2>2. QED
    BY <1>0, <1>19, <2>1, TypedStep DEF ResolveDevice
<1>20. CASE DeactivateDevice(p)
  <2>1. call[p].target \in Rows \cup {NoRow}
    BY <1>0 DEF Locals
  <2>2. device' \in [Rows -> Devices]
    BY <1>0, <1>20, <2>1, DeactivatedTyped DEF DeactivateDevice
  <2>3. QED
    BY <1>0, <1>20, <2>2, FinishEnds, TypedStep DEF DeactivateDevice
<1>21. QED
  BY <1>1, <1>2, <1>3, <1>4, <1>5, <1>6, <1>7, <1>8, <1>9, <1>10,
     <1>11, <1>12, <1>13, <1>14, <1>15, <1>16, <1>17, <1>18, <1>19, <1>20 DEF CallAction

AdminAction ==
  \/ SetStatus \/ DeleteDevice
  \/ ResizePlan \/ StartDowngrade \/ ListActiveDevices \/ ResolveListed
  \/ DeactivateListed \/ FinishDowngrade
  \/ Cutoff \/ HourPasses \/ MonthPasses

LEMMA AdminTypedStep ==
  ASSUME Typed, UNCHANGED <<call, twins>>, status' \in Statuses, fallback' \in BOOLEAN,
         max' \in PlanSizes, peak' \in PlanSizes, abused' \in BOOLEAN,
         device' \in [Rows -> Devices], failures' \in 0 .. Threshold, transfers' \in Nat,
         change' \in Changes, requests' \in 0 .. MaxRequests, acts' \in 0 .. MaxActs
  PROVE  Typed'
BY DEF Typed, TypeOK, Targets

LEMMA ActTyped ==
  ASSUME Typed, Act
  PROVE  acts' \in 0 .. MaxActs /\ UNCHANGED requests
BY LegacyAssumption DEF Typed, TypeOK, Act

LEMMA AdminTyped ==
  ASSUME Typed, AdminAction
  PROVE  Typed'
<1> USE DEF license, history, bounds, counts
<1>0. /\ status \in Statuses /\ fallback \in BOOLEAN /\ max \in PlanSizes
      /\ peak \in PlanSizes /\ abused \in BOOLEAN /\ device \in [Rows -> Devices]
      /\ failures \in 0 .. Threshold /\ transfers \in Nat /\ change \in Changes
      /\ requests \in 0 .. MaxRequests /\ acts \in 0 .. MaxActs /\ TypeOK
  BY DEF Typed, TypeOK
<1>1. CASE SetStatus
  BY <1>0, <1>1, ActTyped, AdminTypedStep DEF SetStatus
<1>2. CASE DeleteDevice
  BY <1>0, <1>2, ActTyped, DeleteFacts, IdleFacts, PutTyped, AdminTypedStep DEF DeleteDevice
<1>3. CASE ResizePlan
  BY <1>0, <1>3, ActTyped, CommitFacts, AdminTypedStep DEF ResizePlan
<1>4. CASE StartDowngrade
  BY <1>0, <1>4, ActTyped, StartDowngradeFacts, CommitFacts, AdminTypedStep DEF StartDowngrade
<1>5. CASE ListActiveDevices
  BY <1>0, <1>5, ListFacts, AdminTypedStep DEF ListActiveDevices
<1>6. CASE ResolveListed
  BY <1>0, <1>6, ResolveListedFacts, AdminTypedStep DEF ResolveListed
<1>7. CASE DeactivateListed
  BY <1>0, <1>7, DeactivateListedFacts, DeactivatedTyped, AdminTypedStep DEF DeactivateListed
<1>8. CASE FinishDowngrade
  BY <1>0, <1>8, FinishDowngradeFacts, CommitFacts, AdminTypedStep DEF FinishDowngrade
<1>9. CASE Cutoff
  BY <1>0, <1>9, ActTyped, CutoffFacts, AdminTypedStep DEF Cutoff
<1>10. CASE HourPasses
  BY <1>0, <1>10, ActTyped, LegacyAssumption, AdminTypedStep DEF HourPasses
<1>11. CASE MonthPasses
  BY <1>0, <1>11, ActTyped, AdminTypedStep DEF MonthPasses
<1>12. QED
  BY <1>1, <1>2, <1>3, <1>4, <1>5, <1>6, <1>7, <1>8, <1>9, <1>10, <1>11 DEF AdminAction

LEMMA InitTyped ==
  ASSUME LInit
  PROVE  Typed
<1>1. /\ status \in Statuses /\ fallback \in BOOLEAN /\ max \in PlanSizes /\ peak \in PlanSizes
      /\ twins \subseteq Machines /\ abused \in BOOLEAN
      /\ failures \in 0 .. Threshold /\ transfers \in Nat
      /\ requests \in 0 .. MaxRequests /\ acts \in 0 .. MaxActs
  <2>1. status \in Statuses /\ fallback \in BOOLEAN /\ max \in PlanSizes /\ peak \in PlanSizes
    BY DEF LInit, Statuses
  <2>2. twins \subseteq Machines /\ abused \in BOOLEAN
    BY DEF LInit
  <2>3. /\ failures \in 0 .. Threshold /\ transfers \in Nat
        /\ requests \in 0 .. MaxRequests /\ acts \in 0 .. MaxActs
    BY LegacyAssumption DEF LInit
  <2>4. QED
    BY <2>1, <2>2, <2>3
<1>2. device \in [Rows -> Devices]
  <2>1. [state : {"active", "inactive"}, primary : Hashes, aliases : {{}}] \subseteq Devices
    BY DEF Devices, Prints
  <2>2. QED
    BY <2>1, IdleFacts DEF LInit
<1>3. call \in [Calls -> Locals] /\ \A p \in Calls : call[p].pc = "idle"
  BY IdleFacts DEF LInit
<1>4. change \in Changes
  BY DEF LInit, NoChange, Changes
<1>5. QED
  BY <1>1, <1>2, <1>3, <1>4 DEF Typed, TypeOK, Targets

LEMMA Stutter ==
  ASSUME UNCHANGED lvars
  PROVE  UNCHANGED <<status, max, fallback, device, failures, transfers, call, change,
                     twins, peak, requests, acts, abused>>
BY DEF lvars, license, counts, history, bounds

LEMMA NextIs == LNext <=> (\E p \in Calls : CallAction(p)) \/ AdminAction
BY DEF LNext, CallAction, AdminAction

LEMMA TypedInductive == LSpec => []Typed
<1>1. LInit => Typed
  BY InitTyped
<1>2. Typed /\ [LNext]_lvars => Typed'
  <2>1. CASE Typed /\ UNCHANGED lvars
    BY <2>1, Stutter DEF Typed, TypeOK, Targets
  <2>2. QED
    BY <2>1, CallTyped, AdminTyped, NextIs
<1>3. QED
  BY <1>1, <1>2, PTL DEF LSpec

\* Every variable keeps its type.
THEOREM TypeCorrect == LSpec => []TypeOK
<1>1. Typed => TypeOK
  BY DEF Typed
<1>2. QED
  BY <1>1, TypedInductive, PTL

----------------------------------------------------------------------------
(* Who may be blocked.                                                      *)

Honest ==
  ~abused => /\ status = "ativa" /\ failures = 0
             /\ \A p \in Calls : call[p].pc # "autoblock"

LEMMA HonestStep ==
  ASSUME NEW p \in Calls, Honest, CallStep(p), call'[p].pc # "autoblock",
         UNCHANGED <<status, abused, failures>>
  PROVE  Honest'
BY DEF Honest, CallStep

LEMMA CallHonest ==
  ASSUME NEW p \in Calls, Typed, Honest, CallAction(p)
  PROVE  Honest'
<1> USE DEF license, history, counts
<1>0. TypeOK /\ call[p] \in Locals
  BY DEF Typed, TypeOK
<1>1. CASE ReadSubscription(p)
  BY <1>0, <1>1, ReadSubscriptionFacts, HonestStep DEF ReadSubscription, Refused
<1>2. CASE MatchExact(p)
  BY <1>0, <1>2, MatchExactFacts, HonestStep DEF MatchExact, Moves, Refused, Ends
<1>3. CASE MatchLegacy(p)
  BY <1>0, <1>3, MatchLegacyFacts, HonestStep DEF MatchLegacy, Moves, Refused, Ends
<1>4. CASE Reconcile(p)
  BY <1>0, <1>4, ReconcileFacts, HonestStep DEF Reconcile, Moves, Refused, Ends
<1>5. CASE PromoteAliases(p)
  BY <1>0, <1>5, PromoteAliasesFacts, HonestStep DEF PromoteAliases, Moves, Refused, Ends
<1>6. CASE Promote(p)
  BY <1>0, <1>6, PromoteFacts, HonestStep DEF Promote, Moves, Refused, Ends
<1>7. CASE CheckDeviceLimit(p)
  BY <1>0, <1>7, CheckDeviceLimitFacts, HonestStep DEF CheckDeviceLimit, Moves, Refused, Ends
<1>8. CASE Register(p)
  BY <1>0, <1>8, RegisterFacts, HonestStep DEF Register, Moves
<1>9. CASE RegisterAlias(p)
  BY <1>0, <1>9, RegisterAliasFacts, HonestStep DEF RegisterAlias, Moves, Refused, Ends
<1>10. CASE CheckSuspiciousActivity(p)
  <2>1. CASE abused
    BY <1>10, <2>1 DEF Honest, CheckSuspiciousActivity
  <2>2. CASE ~abused
    BY <1>0, <1>10, <2>2, LegacyAssumption, CheckSuspiciousActivityFacts, HonestStep
       DEF Honest, CheckSuspiciousActivity, Ends
  <2>3. QED
    BY <2>1, <2>2
<1>11. CASE Deactivate(p)
  BY <1>0, <1>11, DeactivateFacts, HonestStep DEF Deactivate, Deactivating
<1>12. CASE TryV1(p)
  BY <1>0, <1>12, TryV1Facts, HonestStep DEF TryV1, Moves, Ends
<1>13. CASE ResolveDevice(p)
  BY <1>0, <1>13, ResolveDeviceFacts, HonestStep DEF ResolveDevice, Moves
<1>14. CASE Malformed(p)
  BY <1>14, MalformedFacts DEF Honest
<1>15. CASE Validate(p)
  <2>1. PICK f \in Hashes : Start(p, Request(f)) /\ Request(f) \in Locals
    BY <1>15, ValidateFacts
  <2>2. /\ CallStep(p) /\ call'[p].pc \in {"subscription", "suspect"}
        /\ status = "ativa" => failures' = failures
    BY <1>0, <2>1, StartOutcome
  <2>3. UNCHANGED <<status, abused>>
    BY <1>15 DEF Validate
  <2>4. QED
    BY <2>2, <2>3 DEF Honest, CallStep
<1>16. CASE ValidateTransfer(p)
  <2>1. Start(p, call[p])
    BY <1>16 DEF ValidateTransfer
  <2>2. /\ CallStep(p) /\ call'[p].pc \in {"subscription", "suspect"}
        /\ status = "ativa" => failures' = failures
    BY <1>0, <2>1, StartOutcome
  <2>3. UNCHANGED <<status, abused>>
    BY <1>16 DEF ValidateTransfer
  <2>4. QED
    BY <2>2, <2>3 DEF Honest, CallStep
<1>17. CASE BlockAutomatically(p)
  BY <1>17 DEF Honest, BlockAutomatically, At
<1>18. CASE Transfer(p)
  BY <1>18, TransferFacts, HonestStep DEF Transfer
<1>19. CASE RecordTransfer(p)
  BY <1>0, <1>19, FinishEnds, HonestStep DEF RecordTransfer
<1>20. CASE DeactivateDevice(p)
  BY <1>0, <1>20, FinishEnds, HonestStep DEF DeactivateDevice
<1>21. QED
  BY <1>1, <1>2, <1>3, <1>4, <1>5, <1>6, <1>7, <1>8, <1>9, <1>10,
     <1>11, <1>12, <1>13, <1>14, <1>15, <1>16, <1>17, <1>18, <1>19, <1>20 DEF CallAction

LEMMA AdminHonest ==
  ASSUME Typed, Honest, AdminAction
  PROVE  Honest'
<1> USE DEF license, history, counts
<1>1. CASE SetStatus
  BY <1>1 DEF Honest, SetStatus, Typed, TypeOK
<1>2. CASE ~SetStatus
  <2>1. UNCHANGED <<status, abused, call>>
    BY <1>2, StartDowngradeFacts, FinishDowngradeFacts
       DEF AdminAction, DeleteDevice, ResizePlan, StartDowngrade, ListActiveDevices,
           ResolveListed, DeactivateListed, FinishDowngrade, Commit, Cutoff, HourPasses,
           MonthPasses
  <2>2. failures = 0 => failures' = failures
    <3>1. CASE HourPasses
      BY <3>1 DEF HourPasses, Typed, TypeOK
    <3>2. CASE ~HourPasses
      BY <1>2, <3>2
         DEF AdminAction, DeleteDevice, ResizePlan, StartDowngrade, ListActiveDevices,
             ResolveListed, DeactivateListed, FinishDowngrade, Cutoff, MonthPasses
    <3>3. QED
      BY <3>1, <3>2
  <2>3. QED
    BY <2>1, <2>2 DEF Honest
<1>3. QED
  BY <1>1, <1>2

\* A licence nobody abused is never blocked.
THEOREM NeverBlockedWrongly == LSpec => []HonestNeverBlocked
<1>1. LInit => Honest
  BY IdleFacts DEF LInit, Honest
<1>2. Typed /\ Honest /\ [LNext]_lvars => Honest'
  <2>1. CASE Typed /\ Honest /\ UNCHANGED lvars
    BY <2>1, Stutter DEF Honest
  <2>2. QED
    BY <2>1, CallHonest, AdminHonest, NextIs
<1>3. Honest => HonestNeverBlocked
  BY DEF Honest, HonestNeverBlocked
<1>4. QED
  BY <1>1, <1>2, <1>3, TypedInductive, PTL DEF LSpec

----------------------------------------------------------------------------
(* Transfers of a month.  Their bound, and that of devices, is proved for a  *)
(* number n of calls that are in flight together.                            *)

Busy == {p \in Calls : call[p].pc # "idle"}
Crowd(n) == Cardinality(Busy) <= n

LEMMA CrowdCount ==
  ASSUME NEW n \in Nat, Crowd(n)', NEW S \in SUBSET (Busy')
  PROVE  IsFiniteSet(S) /\ Cardinality(S) \in Nat /\ Cardinality(S) <= n
<1>1. Busy' \subseteq Calls
  BY DEF Busy
<1>2. IsFiniteSet(Busy') /\ Cardinality(Busy') \in Nat
  BY <1>1, LegacyAssumption, FS_Subset, FS_CardinalityType
<1>3. IsFiniteSet(S) /\ Cardinality(S) \in Nat /\ Cardinality(S) <= Cardinality(Busy')
  BY <1>2, FS_Subset, FS_CardinalityType
<1>4. Cardinality(Busy') <= n
  BY DEF Crowd
<1>5. QED
  BY <1>2, <1>3, <1>4

\* There are never more of them than the API serves.
LEMMA AllCalls == Cardinality(Calls) \in Nat \ {0} /\ Crowd(Cardinality(Calls))'
<1>1. Busy' \subseteq Calls
  BY DEF Busy
<1>2. QED
  BY <1>1, LegacyAssumption, FS_Subset, FS_EmptySet, FS_CardinalityType DEF Crowd

Transferring == {p \in Calls : call[p].op = "transfer"}

\* Every transfer under way will be recorded at most once.
Recorders ==
  \A p \in Calls : /\ call[p].pc = "record" => call[p].op = "transfer"
                   /\ call[p].pc = "idle" => call[p].op = "validate"
Transfers(n) ==
  transfers + Cardinality(Transferring) < MaxTransfers + n /\ Recorders

LEMMA TransferringFinite ==
  IsFiniteSet(Transferring) /\ Cardinality(Transferring) \in Nat
<1>1. Transferring \subseteq Calls
  BY DEF Transferring
<1>2. QED
  BY <1>1, LegacyAssumption, FS_Subset, FS_CardinalityType

LEMMA FewerTransfers ==
  ASSUME NEW n \in Nat \ {0}, Typed, Transfers(n), Typed',
         transfers' <= transfers, Transferring' \subseteq Transferring,
         Recorders'
  PROVE  Transfers(n)'
<1>1. /\ transfers \in Nat /\ transfers' \in Nat /\ MaxTransfers \in Nat
  BY LegacyAssumption DEF Typed, TypeOK
<1>2. /\ Cardinality(Transferring') \in Nat
      /\ Cardinality(Transferring') <= Cardinality(Transferring)
  BY TransferringFinite, FS_Subset, FS_CardinalityType
<1>3. transfers' + Cardinality(Transferring') < MaxTransfers + n
  BY <1>1, <1>2, TransferringFinite DEF Transfers
<1>4. QED
  BY <1>3 DEF Transfers

\* What a step of a call that is neither the first nor the last of a transfer
\* does to transfers.
SameTransfers(p) ==
  /\ CallStep(p) /\ transfers' = transfers
  /\ call'[p].op = "transfer" => call[p].op = "transfer"
  /\ call'[p].pc = "record" => call'[p].op = "transfer"
  /\ call'[p].pc = "idle" => call'[p].op = "validate"

LEMMA CallSameTransfers ==
  ASSUME NEW p \in Calls, Typed, CallAction(p), ~Transfer(p), ~RecordTransfer(p)
  PROVE  SameTransfers(p)
<1> USE DEF counts, SameTransfers
<1>0. TypeOK /\ call[p] \in Locals
  BY DEF Typed, TypeOK
<1>1. CASE ReadSubscription(p)
  BY <1>0, <1>1, ReadSubscriptionFacts DEF Refused
<1>2. CASE MatchExact(p)
  BY <1>0, <1>2, MatchExactFacts DEF Moves, Refused, Ends
<1>3. CASE MatchLegacy(p)
  BY <1>0, <1>3, MatchLegacyFacts DEF Moves, Refused, Ends
<1>4. CASE Reconcile(p)
  BY <1>0, <1>4, ReconcileFacts DEF Moves, Refused, Ends
<1>5. CASE PromoteAliases(p)
  BY <1>0, <1>5, PromoteAliasesFacts DEF Moves, Refused, Ends
<1>6. CASE Promote(p)
  BY <1>0, <1>6, PromoteFacts DEF Moves, Refused, Ends
<1>7. CASE CheckDeviceLimit(p)
  BY <1>0, <1>7, CheckDeviceLimitFacts DEF Moves, Refused, Ends
<1>8. CASE Register(p)
  BY <1>0, <1>8, RegisterFacts DEF Moves
<1>9. CASE RegisterAlias(p)
  BY <1>0, <1>9, RegisterAliasFacts DEF Moves, Refused, Ends
<1>10. CASE CheckSuspiciousActivity(p)
  BY <1>0, <1>10, CheckSuspiciousActivityFacts DEF Moves, Ends
<1>11. CASE Deactivate(p)
  BY <1>0, <1>11, DeactivateFacts DEF Deactivating
<1>12. CASE TryV1(p)
  BY <1>0, <1>12, TryV1Facts DEF Moves, Ends
<1>13. CASE ResolveDevice(p)
  BY <1>0, <1>13, ResolveDeviceFacts DEF Moves
<1>14. CASE Malformed(p)
  BY <1>14, MalformedFacts
<1>15. CASE Validate(p)
  <2>1. PICK f \in Hashes : Start(p, Request(f)) /\ Request(f) \in Locals
    BY <1>15, ValidateFacts
  <2>2. /\ CallStep(p) /\ call'[p].pc \in {"subscription", "suspect"}
        /\ transfers' = transfers /\ call'[p].op \in {"validate", Request(f).op}
    BY <2>1, StartOutcome
  <2>3. Request(f).op = "validate"
    BY RequestFacts
  <2>4. QED
    BY <2>2, <2>3
<1>16. CASE ValidateTransfer(p)
  <2>1. Start(p, call[p])
    BY <1>16 DEF ValidateTransfer
  <2>2. /\ CallStep(p) /\ call'[p].pc \in {"subscription", "suspect"}
        /\ transfers' = transfers /\ call'[p].op \in {"validate", call[p].op}
    BY <1>0, <2>1, StartOutcome
  <2>3. QED
    BY <2>2
<1>17. CASE BlockAutomatically(p)
  BY <1>0, <1>17, FinishEnds DEF BlockAutomatically
<1>18. CASE DeactivateDevice(p)
  BY <1>0, <1>18, FinishEnds DEF DeactivateDevice
<1>19. QED
  BY <1>1, <1>2, <1>3, <1>4, <1>5, <1>6, <1>7, <1>8, <1>9, <1>10,
     <1>11, <1>12, <1>13, <1>14, <1>15, <1>16, <1>17, <1>18 DEF CallAction

LEMMA CallTransfers ==
  ASSUME NEW n \in Nat \ {0}, Crowd(n)', NEW p \in Calls, Typed, Transfers(n), CallAction(p)
  PROVE  Transfers(n)'
<1>0. /\ Typed' /\ transfers \in Nat /\ transfers' \in Nat /\ MaxTransfers \in Nat
      /\ TypeOK
  BY CallTyped, LegacyAssumption DEF Typed, TypeOK
<1>1. CASE Transfer(p)
  <2>1. /\ CallStep(p) /\ call'[p].pc = "counted" /\ transfers' = transfers
        /\ transfers < MaxTransfers
    BY <1>1, TransferFacts DEF counts
  <2>0. Recorders'
    BY <2>1 DEF Transfers, Recorders, CallStep
  <2>2. /\ Cardinality(Transferring') \in Nat /\ Cardinality(Transferring') <= n
    <3>1. Transferring' \subseteq Busy'
      BY <2>0 DEF Transferring, Busy, Recorders
    <3>2. QED
      BY <3>1, CrowdCount
  <2>3. transfers' + Cardinality(Transferring') < MaxTransfers + n
    BY <1>0, <2>1, <2>2
  <2>4. QED
    BY <2>0, <2>3 DEF Transfers
<1>2. CASE RecordTransfer(p)
  <2>1. /\ CallStep(p) /\ call'[p].op = "validate" /\ call'[p].pc = "idle"
        /\ transfers' = transfers + 1 /\ call[p].op = "transfer"
    BY <1>0, <1>2, FinishEnds DEF RecordTransfer, At, Transfers, Recorders
  <2>2. Transferring' = Transferring \ {p} /\ p \in Transferring
    BY <2>1 DEF Transferring, CallStep
  <2>3. Cardinality(Transferring') = Cardinality(Transferring) - 1
    BY <2>2, TransferringFinite, FS_RemoveElement
  <2>4. transfers' + Cardinality(Transferring') < MaxTransfers + n
    BY <1>0, <2>1, <2>3, TransferringFinite DEF Transfers
  <2>5. Recorders'
    BY <2>1 DEF Transfers, Recorders, CallStep
  <2>6. QED
    BY <2>4, <2>5 DEF Transfers
<1>3. CASE ~Transfer(p) /\ ~RecordTransfer(p)
  <2>1. SameTransfers(p)
    BY <1>3, CallSameTransfers
  <2>2. Transferring' \subseteq Transferring
    BY <2>1 DEF SameTransfers, CallStep, Transferring
  <2>3. Recorders'
    BY <2>1 DEF SameTransfers, CallStep, Transfers, Recorders
  <2>4. transfers' <= transfers
    BY <1>0, <2>1 DEF SameTransfers
  <2>5. QED
    BY <1>0, <2>2, <2>3, <2>4, FewerTransfers
<1>4. QED
  BY <1>1, <1>2, <1>3

LEMMA AdminTransfers ==
  ASSUME NEW n \in Nat \ {0}, Typed, Transfers(n), AdminAction
  PROVE  Transfers(n)'
<1>1. call' = call /\ transfers' \in {transfers, 0}
  BY DEF AdminAction, SetStatus, DeleteDevice, ResizePlan, StartDowngrade, ListActiveDevices,
         ResolveListed, DeactivateListed, FinishDowngrade, Cutoff, HourPasses, MonthPasses,
         counts
<1>2. transfers \in Nat /\ Typed'
  BY AdminTyped DEF Typed, TypeOK
<1>3. transfers' <= transfers
  BY <1>1, <1>2
<1>4. Transferring' = Transferring
  BY <1>1 DEF Transferring
<1>5. Recorders'
  BY <1>1 DEF Transfers, Recorders
<1>6. QED
  BY <1>2, <1>3, <1>4, <1>5, FewerTransfers

LEMMA InitTransfers ==
  ASSUME NEW n \in Nat \ {0}, LInit
  PROVE  Transfers(n)
<1>1. Transferring = {} /\ Recorders
  BY IdleFacts DEF LInit, Transferring, Recorders
<1>2. Cardinality(Transferring) = 0
  BY <1>1, FS_EmptySet
<1>3. transfers \in 0 .. MaxTransfers /\ MaxTransfers \in Nat
  BY LegacyAssumption DEF LInit
<1>4. transfers + Cardinality(Transferring) < MaxTransfers + n
  BY <1>2, <1>3
<1>5. QED
  BY <1>1, <1>4 DEF Transfers

LEMMA TransfersStep ==
  ASSUME NEW n \in Nat \ {0}, Crowd(n)', Typed, Transfers(n), [LNext]_lvars
  PROVE  Transfers(n)'
<1>1. CASE UNCHANGED lvars
  BY <1>1, Stutter DEF Transfers, Recorders, Transferring
<1>2. QED
  BY <1>1, CallTransfers, AdminTransfers, NextIs

LEMMA TransfersFew ==
  ASSUME NEW n \in Nat \ {0}, Typed, Transfers(n)
  PROVE  transfers < MaxTransfers + n
<1>1. transfers \in Nat /\ MaxTransfers \in Nat
  BY LegacyAssumption DEF Typed, TypeOK
<1>2. QED
  BY <1>1, TransferringFinite DEF Transfers

\* The transfers recorded in a month exceed the limit by less than the calls
\* served at once.
THEOREM TransfersBounded == LSpec => []TransferOvershoot
<1> DEFINE n == Cardinality(Calls)
<1>1. n \in Nat \ {0} /\ Crowd(n)'
  BY AllCalls
<1> HIDE DEF n
<1>2. LInit => Transfers(n)
  BY <1>1, InitTransfers
<1>3. Typed /\ Transfers(n) /\ [LNext]_lvars => Transfers(n)'
  BY <1>1, TransfersStep
<1>4. Typed /\ Transfers(n) => TransferOvershoot
  BY <1>1, TransfersFew DEF TransferOvershoot, n
<1>5. QED
  BY <1>2, <1>3, <1>4, TypedInductive, PTL DEF LSpec

----------------------------------------------------------------------------
(* Devices in use.                                                          *)

Promoting == {p \in Calls : call[p].pc \in {"alias", "promote"}}
Registering == {p \in Calls : call[p].pc = "register"}
Promoted == {call[p].target : p \in Promoting}

\* The devices in use, with those that a call is about to bring back.
Places == ActiveRows \cup Promoted

\* A call that registers a device has found a place for it.
Overshoot(n) ==
  /\ max <= peak /\ \A p \in Calls : call[p].plan <= peak
  /\ Cardinality(Places) + Cardinality(Registering) < peak + n

LEMMA PlacesFinite ==
  ASSUME Typed
  PROVE  /\ Places \subseteq Rows /\ IsFiniteSet(Places) /\ Cardinality(Places) \in Nat
         /\ IsFiniteSet(ActiveRows) /\ Cardinality(ActiveRows) \in Nat
         /\ Cardinality(ActiveRows) <= Cardinality(Places)
         /\ IsFiniteSet(Registering) /\ Cardinality(Registering) \in Nat
         /\ IsFiniteSet(Promoting) /\ Cardinality(Promoting) \in Nat
         /\ max \in Nat /\ peak \in Nat /\ \A p \in Calls : call[p].plan \in Nat
<1>1. Places \subseteq Rows /\ ActiveRows \subseteq Places
  BY DEF Places, ActiveRows, Promoted, Promoting, Typed, Targets
<1>2. Registering \subseteq Calls /\ Promoting \subseteq Calls
  BY DEF Registering, Promoting
<1>3. IsFiniteSet(Places) /\ Cardinality(Places) \in Nat
  BY <1>1, LegacyAssumption, FS_Subset, FS_CardinalityType
<1>4. /\ IsFiniteSet(ActiveRows) /\ Cardinality(ActiveRows) \in Nat
      /\ Cardinality(ActiveRows) <= Cardinality(Places)
  BY <1>1, <1>3, FS_Subset, FS_CardinalityType
<1>5. /\ IsFiniteSet(Registering) /\ Cardinality(Registering) \in Nat
      /\ IsFiniteSet(Promoting) /\ Cardinality(Promoting) \in Nat
  BY <1>2, LegacyAssumption, FS_Subset, FS_CardinalityType
<1>6. max \in Nat /\ peak \in Nat /\ \A p \in Calls : call[p].plan \in Nat
  <2>1. max \in PlanSizes /\ peak \in PlanSizes /\ PlanSizes \subseteq Nat
    BY LegacyAssumption DEF Typed, TypeOK
  <2>2. \A p \in Calls : call[p].plan = 0 \/ call[p].plan \in PlanSizes
    BY DEF Typed, TypeOK, Locals
  <2>3. \A x \in PlanSizes : x \in Nat
    BY <2>1
  <2>4. \A p \in Calls : call[p].plan \in Nat
    BY <2>2, <2>3
  <2>5. QED
    BY <2>1, <2>3, <2>4
<1>7. QED
  BY <1>1, <1>3, <1>4, <1>5, <1>6

LEMMA PrimedFinite ==
  ASSUME Typed'
  PROVE  /\ IsFiniteSet(Places') /\ Cardinality(Places') \in Nat
         /\ IsFiniteSet(Registering') /\ Cardinality(Registering') \in Nat
         /\ max' \in Nat /\ peak' \in Nat
<1>1. Places' \subseteq Rows /\ Registering' \subseteq Calls
  BY DEF Places, ActiveRows, Promoted, Promoting, Registering, Typed, Targets
<1>2. /\ IsFiniteSet(Places') /\ Cardinality(Places') \in Nat
      /\ IsFiniteSet(Registering') /\ Cardinality(Registering') \in Nat
  BY <1>1, LegacyAssumption, FS_Subset, FS_CardinalityType
<1>3. max' \in Nat /\ peak' \in Nat
  BY LegacyAssumption DEF Typed, TypeOK
<1>4. QED
  BY <1>2, <1>3

LEMMA FewerPlaces ==
  ASSUME NEW n \in Nat \ {0}, Typed, Typed', Overshoot(n),
         Places' \subseteq Places, Registering' \subseteq Registering,
         max' <= peak', peak' >= peak, \A p \in Calls : call'[p].plan <= peak'
  PROVE  Overshoot(n)'
<1>1. /\ Cardinality(Places') \in Nat /\ Cardinality(Places') <= Cardinality(Places)
      /\ Cardinality(Registering') \in Nat
      /\ Cardinality(Registering') <= Cardinality(Registering)
  BY PlacesFinite, FS_Subset, FS_CardinalityType
<1>2. peak \in Nat /\ peak' \in Nat
  BY LegacyAssumption DEF Typed, TypeOK
<1>3. Cardinality(Places') + Cardinality(Registering') < peak' + n
  BY <1>1, <1>2, PlacesFinite DEF Overshoot
<1>4. QED
  BY <1>3 DEF Overshoot

\* A step that takes no new place.
LEMMA QuietStep ==
  ASSUME NEW n \in Nat \ {0}, NEW p \in Calls, Typed, Typed', Overshoot(n),
         CallStep(p), UNCHANGED <<max, peak>>,
         call'[p].plan <= peak, call'[p].pc # "register",
         call'[p].pc \in {"alias", "promote"} => call'[p].target \in Places,
         ActiveRows' \subseteq Places
  PROVE  Overshoot(n)'
<1>1. Promoted' \subseteq Places
  BY DEF Promoted, Promoting, CallStep, Places
<1>2. Places' \subseteq Places
  BY <1>1 DEF Places
<1>3. Registering' \subseteq Registering
  BY DEF Registering, CallStep
<1>4. max' <= peak' /\ peak' >= peak /\ \A q \in Calls : call'[q].plan <= peak'
  BY PlacesFinite DEF Overshoot, CallStep
<1>5. QED
  BY <1>2, <1>3, <1>4, FewerPlaces

LEMMA FewerActive ==
  ASSUME \A s \in Rows : device'[s].state = "active" => device[s].state = "active"
  PROVE  ActiveRows' \subseteq Places
BY DEF ActiveRows, Active, Places

LEMMA SameActive ==
  ASSUME UNCHANGED device
  PROVE  ActiveRows' \subseteq Places
BY DEF ActiveRows, Active, Places

LEMMA CheckDeviceLimitOvershoot ==
  ASSUME NEW n \in Nat \ {0}, Crowd(n)', NEW p \in Calls, Typed, Typed', Overshoot(n),
         CheckDeviceLimit(p)
  PROVE  Overshoot(n)'
<1>1. UNCHANGED <<max, peak, device>> /\ ActiveRows' = ActiveRows
  BY DEF CheckDeviceLimit, license, history, ActiveRows, Active
<1>2. /\ max <= peak /\ \A q \in Calls : call[q].plan <= peak
      /\ peak \in Nat /\ \A q \in Calls : call[q].plan \in Nat
  BY PlacesFinite DEF Overshoot
<1>3. CASE /\ call[p].target = NoRow /\ Cardinality(ActiveRows) < call[p].plan
           /\ Moves(p, "register", call[p].target, call[p].old)
  <2>1. CallStep(p) /\ call[p].pc = "limit"
    BY CheckDeviceLimitFacts
  <2>2. Promoting' = Promoting /\ Promoted' = Promoted
    <3>1. Promoting' = Promoting
      BY <1>3, <2>1 DEF Promoting, CallStep, Moves
    <3>2. \A q \in Promoting : call'[q] = call[q]
      BY <2>1 DEF Promoting, CallStep
    <3>3. QED
      BY <3>1, <3>2 DEF Promoted
  <2>3. Places' = ActiveRows \cup Promoted
    BY <1>1, <2>2 DEF Places
  <2>4. /\ IsFiniteSet(Promoted) /\ Cardinality(Promoted) <= Cardinality(Promoting)
        /\ Cardinality(Promoted) \in Nat
    <3> DEFINE target == [q \in Promoting |-> call[q].target]
    <3>1. target \in Surjection(Promoting, Promoted)
      BY DEF Promoted, Surjection
    <3>2. IsFiniteSet(Promoting)
      BY PlacesFinite
    <3> HIDE DEF target
    <3>3. QED
      BY <3>1, <3>2, FS_Surjection, FS_CardinalityType
  <2>5. Cardinality(Places') <= Cardinality(ActiveRows) + Cardinality(Promoted)
    <3>1. /\ IsFiniteSet(ActiveRows \cap Promoted) /\ Cardinality(ActiveRows \cap Promoted) \in Nat
      BY PlacesFinite, FS_Subset, FS_CardinalityType
    <3>2. Cardinality(ActiveRows \cup Promoted)
            = Cardinality(ActiveRows) + Cardinality(Promoted) - Cardinality(ActiveRows \cap Promoted)
      BY <2>4, PlacesFinite, FS_Union
    <3>3. QED
      BY <2>3, <2>4, <3>1, <3>2, PlacesFinite
  <2>6. Cardinality(Promoting) + Cardinality(Registering') <= n
    <3>1. Promoting \cap Registering' = {}
      BY <2>2 DEF Promoting, Registering
    <3>2. Promoting \cup Registering' \subseteq Busy'
      BY <2>2 DEF Promoting, Registering, Busy
    <3>3. IsFiniteSet(Registering')
      BY LegacyAssumption, FS_Subset DEF Registering
    <3>4. Cardinality(Promoting \cup Registering')
            = Cardinality(Promoting) + Cardinality(Registering') - Cardinality({})
      BY <3>1, <3>3, PlacesFinite, FS_Union
    <3>5. Cardinality({}) = 0
      BY FS_EmptySet
    <3>6. Cardinality(Promoting \cup Registering') <= n
      BY <3>2, CrowdCount
    <3>7. Cardinality(Promoting) \in Nat /\ Cardinality(Registering') \in Nat
      BY <3>3, PlacesFinite, FS_CardinalityType
    <3>8. QED
      BY <3>4, <3>5, <3>6, <3>7
  <2>7. Cardinality(Places') \in Nat /\ Cardinality(Registering') \in Nat
    BY PrimedFinite
  <2>8. Cardinality(Places') + Cardinality(Registering') < peak + n
    BY <1>2, <1>3, <2>4, <2>5, <2>6, <2>7, PlacesFinite
  <2>9. \A q \in Calls : call'[q].plan <= peak
    BY <1>2, <1>3, <2>1 DEF CallStep, Moves
  <2>10. QED
    BY <1>1, <1>2, <2>8, <2>9 DEF Overshoot
<1>4. CASE Ends(p) \/ Refused(p)
  <2>1. call'[p].plan = 0 /\ call'[p].pc \in {"idle", "record", "suspect"}
    BY <1>4 DEF Ends, Refused, Fresh
  <2>2. 0 <= peak
    BY <1>2
  <2>3. CallStep(p)
    BY CheckDeviceLimitFacts
  <2>4. QED
    BY <1>1, <2>1, <2>2, <2>3, SameActive, QuietStep
<1>5. QED
  BY <1>3, <1>4, CheckDeviceLimitFacts

LEMMA RegisterOvershoot ==
  ASSUME NEW n \in Nat \ {0}, NEW p \in Calls, Typed, Typed', Overshoot(n), Register(p)
  PROVE  Overshoot(n)'
<1>1. PICK r \in Rows :
        /\ \A s \in Rows : s # r => device'[s] = device[s]
        /\ Moves(p, "registerAlias", r, call[p].old)
  BY RegisterFacts
<1>2. CallStep(p) /\ call[p].pc = "register" /\ UNCHANGED <<max, peak>>
  BY RegisterFacts DEF Register, license, history
<1>3. Promoted' \subseteq Promoted
  BY <1>1, <1>2 DEF Promoted, Promoting, CallStep, Moves
<1>4. ActiveRows' \subseteq ActiveRows \cup {r}
  BY <1>1 DEF ActiveRows, Active
<1>5. Places' \subseteq Places \cup {r}
  BY <1>3, <1>4 DEF Places
<1>6. /\ Cardinality(Places') \in Nat /\ Cardinality(Places') <= Cardinality(Places) + 1
  <2>1. IsFiniteSet(Places) /\ Cardinality(Places) \in Nat
    BY PlacesFinite
  <2>2. /\ IsFiniteSet(Places \cup {r})
        /\ Cardinality(Places \cup {r}) = IF r \in Places THEN Cardinality(Places)
                                                         ELSE Cardinality(Places) + 1
    BY <2>1, FS_AddElement
  <2>3. Cardinality(Places') <= Cardinality(Places \cup {r})
    BY <1>5, <2>2, FS_Subset
  <2>4. Cardinality(Places') \in Nat
    BY PrimedFinite
  <2>5. QED
    BY <2>1, <2>2, <2>3, <2>4
<1>7. /\ Cardinality(Registering') = Cardinality(Registering) - 1
      /\ Cardinality(Registering) - 1 \in Nat
  <2>1. Registering' = Registering \ {p} /\ p \in Registering
    BY <1>1, <1>2 DEF Registering, CallStep, Moves
  <2>2. IsFiniteSet(Registering) /\ Cardinality(Registering) \in Nat
    BY PlacesFinite
  <2>3. Cardinality(Registering') = Cardinality(Registering) - 1
    BY <2>1, <2>2, FS_RemoveElement
  <2>4. Cardinality(Registering') \in Nat
    BY PrimedFinite
  <2>5. QED
    BY <2>3, <2>4
<1>8. Cardinality(Places') + Cardinality(Registering') < peak + n
  BY <1>6, <1>7, PlacesFinite DEF Overshoot
<1>9. \A q \in Calls : call'[q].plan <= peak
  BY <1>1, <1>2 DEF CallStep, Moves, Overshoot
<1>10. QED
  BY <1>2, <1>8, <1>9 DEF Overshoot

LEMMA CallOvershoot ==
  ASSUME NEW n \in Nat \ {0}, Crowd(n)', NEW p \in Calls, Typed, Overshoot(n), CallAction(p)
  PROVE  Overshoot(n)'
<1> USE DEF license, history, counts
<1>0. /\ TypeOK /\ Typed' /\ call[p] \in Locals /\ max <= peak /\ call[p].plan <= peak /\ 0 <= peak
      /\ \A r \in ActiveRows : r \in Places
      /\ call[p].pc \in {"alias", "promote"} => call[p].target \in Places
  BY CallTyped, PlacesFinite DEF Typed, TypeOK, Overshoot, Places, Promoted, Promoting
<1>1. CASE ReadSubscription(p)
  <2>1. /\ CallStep(p) /\ call'[p].plan <= peak /\ call'[p].pc # "register"
        /\ call'[p].pc \in {"alias", "promote"} => call'[p].target \in Places
    BY <1>0, <1>1, ReadSubscriptionFacts DEF Refused, Fresh
  <2>2. QED
    BY <1>0, <1>1, <2>1, SameActive, QuietStep DEF ReadSubscription
<1>2. CASE MatchExact(p)
  <2>1. /\ CallStep(p) /\ call'[p].plan <= peak /\ call'[p].pc # "register"
        /\ call'[p].pc \in {"alias", "promote"} => call'[p].target \in Places
    BY <1>0, <1>2, MatchExactFacts DEF Moves, Refused, Fresh
  <2>2. QED
    BY <1>0, <1>2, <2>1, SameActive, QuietStep DEF MatchExact
<1>3. CASE MatchLegacy(p)
  <2>1. /\ CallStep(p) /\ call'[p].plan <= peak /\ call'[p].pc # "register"
        /\ call'[p].pc \in {"alias", "promote"} => call'[p].target \in Places
    BY <1>0, <1>3, MatchLegacyFacts, LegacyMatchesFacts DEF Moves, Refused, Fresh, ActiveRows, LegacyMatches
  <2>2. QED
    BY <1>0, <1>3, <2>1, SameActive, QuietStep DEF MatchLegacy
<1>4. CASE Reconcile(p)
  <2>1. /\ CallStep(p) /\ call'[p].plan <= peak /\ call'[p].pc # "register"
        /\ call'[p].pc \in {"alias", "promote"} => call'[p].target \in Places
    BY <1>0, <1>4, ReconcileFacts DEF Moves, Refused, Fresh, SameMachine
  <2>2. QED
    BY <1>0, <1>4, <2>1, SameActive, QuietStep DEF Reconcile
<1>5. CASE PromoteAliases(p)
  <2>1. ActiveRows' \subseteq Places
    <3>1. CASE UNCHANGED device
      BY <3>1, SameActive
    <3>2. CASE Aliased(call[p].target, call[p].old)
      BY <1>5, <3>2, PromoteAliasesFacts, FewerActive DEF Aliased
    <3>3. QED
      BY <1>5, <3>1, <3>2, PromoteAliasesFacts
  <2>2. /\ CallStep(p) /\ call'[p].plan <= peak /\ call'[p].pc # "register"
        /\ call'[p].pc \in {"alias", "promote"} => call'[p].target \in Places
    BY <1>0, <1>5, PromoteAliasesFacts DEF Moves, Refused, Ends, Fresh
  <2>3. QED
    BY <1>0, <1>5, <2>1, <2>2, QuietStep DEF PromoteAliases
<1>6. CASE Promote(p)
  <2>1. ActiveRows' \subseteq Places
    <3>1. CASE UNCHANGED device
      BY <3>1, SameActive
    <3>2. CASE Promotes(call[p].target, V2(p))
      BY <1>0, <1>6, <3>2, PromoteFacts DEF Promotes, ActiveRows, Active
    <3>3. QED
      BY <1>6, <3>1, <3>2, PromoteFacts
  <2>2. /\ CallStep(p) /\ call'[p].plan <= peak /\ call'[p].pc # "register"
        /\ call'[p].pc \in {"alias", "promote"} => call'[p].target \in Places
    BY <1>0, <1>6, PromoteFacts DEF Moves, Refused, Ends, Fresh
  <2>3. QED
    BY <1>0, <1>6, <2>1, <2>2, QuietStep DEF Promote
<1>7. CASE RegisterAlias(p)
  <2>1. ActiveRows' \subseteq Places
    <3>1. CASE UNCHANGED device
      BY <3>1, SameActive
    <3>2. CASE Aliased(call[p].target, {call[p].hash})
      BY <1>7, <3>2, RegisterAliasFacts, FewerActive DEF Aliased
    <3>3. QED
      BY <1>7, <3>1, <3>2, RegisterAliasFacts
  <2>2. /\ CallStep(p) /\ call'[p].plan <= peak /\ call'[p].pc # "register"
        /\ call'[p].pc \in {"alias", "promote"} => call'[p].target \in Places
    BY <1>0, <1>7, RegisterAliasFacts DEF Moves, Refused, Ends, Fresh
  <2>3. QED
    BY <1>0, <1>7, <2>1, <2>2, QuietStep DEF RegisterAlias
<1>8. CASE CheckSuspiciousActivity(p)
  <2>1. /\ CallStep(p) /\ call'[p].plan <= peak /\ call'[p].pc # "register"
        /\ call'[p].pc \in {"alias", "promote"} => call'[p].target \in Places
    BY <1>0, <1>8, CheckSuspiciousActivityFacts DEF Moves, Ends, Fresh
  <2>2. QED
    BY <1>0, <1>8, <2>1, SameActive, QuietStep DEF CheckSuspiciousActivity
<1>9. CASE Deactivate(p)
  <2>1. /\ CallStep(p) /\ call'[p].plan <= peak /\ call'[p].pc # "register"
        /\ call'[p].pc \in {"alias", "promote"} => call'[p].target \in Places
    BY <1>0, <1>9, DeactivateFacts DEF Deactivating
  <2>2. QED
    BY <1>0, <1>9, <2>1, SameActive, QuietStep DEF Deactivate
<1>10. CASE TryV1(p)
  <2>1. /\ CallStep(p) /\ call'[p].plan <= peak /\ call'[p].pc # "register"
        /\ call'[p].pc \in {"alias", "promote"} => call'[p].target \in Places
    BY <1>0, <1>10, TryV1Facts DEF Moves, Ends, Fresh
  <2>2. QED
    BY <1>0, <1>10, <2>1, SameActive, QuietStep DEF TryV1
<1>11. CASE ResolveDevice(p)
  <2>1. /\ CallStep(p) /\ call'[p].plan <= peak /\ call'[p].pc # "register"
        /\ call'[p].pc \in {"alias", "promote"} => call'[p].target \in Places
    BY <1>0, <1>11, ResolveDeviceFacts DEF Moves
  <2>2. QED
    BY <1>0, <1>11, <2>1, SameActive, QuietStep DEF ResolveDevice
<1>12. CASE Malformed(p)
  BY <1>0, <1>12, MalformedFacts, SameActive, QuietStep DEF Malformed, Fresh
<1>13. CASE Validate(p)
  <2>1. PICK f \in Hashes : Start(p, Request(f)) /\ Request(f) \in Locals
    BY <1>13, ValidateFacts
  <2>2. Request(f).plan = 0
    BY RequestFacts
  <2>3. /\ CallStep(p) /\ call'[p].pc \in {"subscription", "suspect"}
        /\ call'[p].plan <= peak
    BY <1>0, <2>1, <2>2, StartOutcome DEF Fresh
  <2>4. QED
    BY <1>0, <1>13, <2>3, SameActive, QuietStep DEF Validate
<1>14. CASE ValidateTransfer(p)
  <2>1. Start(p, call[p])
    BY <1>14 DEF ValidateTransfer
  <2>2. call[p].plan <= peak
    BY <1>0
  <2>3. /\ CallStep(p) /\ call'[p].pc \in {"subscription", "suspect"}
        /\ call'[p].plan <= peak
    BY <1>0, <2>1, <2>2, StartOutcome DEF Fresh
  <2>4. QED
    BY <1>0, <1>14, <2>3, SameActive, QuietStep DEF ValidateTransfer
<1>15. CASE BlockAutomatically(p)
  BY <1>0, <1>15, FinishEnds, SameActive, QuietStep DEF BlockAutomatically, Fresh
<1>16. CASE Transfer(p)
  BY <1>0, <1>16, TransferFacts, SameActive, QuietStep DEF Transfer, Fresh
<1>17. CASE RecordTransfer(p)
  BY <1>0, <1>17, FinishEnds, SameActive, QuietStep DEF RecordTransfer, Fresh
<1>18. CASE DeactivateDevice(p)
  <2>1. call[p].target \in Rows \cup {NoRow} /\ Deactivated(call[p].target)
    BY <1>0, <1>18 DEF Locals, DeactivateDevice
  <2>2. ActiveRows' \subseteq Places
    BY <1>0, <2>1, DeactivatedTyped, FewerActive
  <2>3. QED
    BY <1>0, <1>18, <2>2, FinishEnds, QuietStep DEF DeactivateDevice, Fresh
<1>19. CASE CheckDeviceLimit(p)
  BY <1>0, <1>19, CheckDeviceLimitOvershoot
<1>20. CASE Register(p)
  BY <1>0, <1>20, RegisterOvershoot
<1>21. QED
  BY <1>1, <1>2, <1>3, <1>4, <1>5, <1>6, <1>7, <1>8, <1>9, <1>10,
     <1>11, <1>12, <1>13, <1>14, <1>15, <1>16, <1>17, <1>18, <1>19, <1>20 DEF CallAction

LEMMA AdminOvershoot ==
  ASSUME NEW n \in Nat \ {0}, Typed, Overshoot(n), AdminAction
  PROVE  Overshoot(n)'
<1> USE DEF license, history, counts
<1>0. TypeOK /\ Typed' /\ max \in Nat /\ peak \in Nat /\ max' \in Nat /\ peak' \in Nat
  <2>1. TypeOK /\ Typed'
    BY AdminTyped DEF Typed
  <2>2. max \in Nat /\ peak \in Nat
    BY PlacesFinite
  <2>3. max' \in Nat /\ peak' \in Nat
    BY <2>1, PrimedFinite
  <2>4. QED
    BY <2>1, <2>2, <2>3
<1>1. UNCHANGED call
  BY DEF AdminAction, SetStatus, DeleteDevice, ResizePlan, StartDowngrade, ListActiveDevices,
         ResolveListed, DeactivateListed, FinishDowngrade, Cutoff, HourPasses, MonthPasses
<1>2. peak' >= peak /\ max' <= peak'
  <2>1. CASE \E size \in PlanSizes : Commit(size)
    BY <1>0, <2>1, CommitFacts
  <2>2. CASE UNCHANGED <<max, peak>>
    BY <1>0, <2>2 DEF Overshoot
  <2>3. QED
    BY <2>1, <2>2, StartDowngradeFacts, FinishDowngradeFacts
       DEF AdminAction, SetStatus, DeleteDevice, ResizePlan, StartDowngrade,
           ListActiveDevices, ResolveListed, DeactivateListed, FinishDowngrade, Cutoff,
           HourPasses, MonthPasses
<1>3. \A s \in Rows : device'[s].state = "active" => device[s].state = "active"
  <2>1. CASE DeleteDevice
    BY <1>0, <2>1, DeleteFacts, IdleFacts, PutTyped
  <2>2. CASE DeactivateListed
    BY <1>0, <2>2, DeactivateListedFacts, DeactivatedTyped
  <2>3. CASE Cutoff
    BY <2>3, CutoffFacts
  <2>4. CASE UNCHANGED device
    BY <2>4
  <2>5. QED
    BY <2>1, <2>2, <2>3, <2>4
       DEF AdminAction, SetStatus, ResizePlan, StartDowngrade, ListActiveDevices,
           ResolveListed, FinishDowngrade, HourPasses, MonthPasses
<1>4. Places' \subseteq Places
  BY <1>1, <1>3, FewerActive DEF Places, Promoted, Promoting
<1>5. Registering' = Registering
  BY <1>1 DEF Registering
<1>6. \A p \in Calls : call'[p].plan <= peak'
  BY <1>0, <1>1, <1>2, PlacesFinite DEF Overshoot
<1>7. QED
  BY <1>0, <1>2, <1>4, <1>5, <1>6, FewerPlaces

LEMMA InitOvershoot ==
  ASSUME NEW n \in Nat \ {0}, LInit
  PROVE  Overshoot(n)
<1>1. /\ \A p \in Calls : call[p].pc = "idle" /\ call[p].plan = 0
      /\ max = peak /\ Cardinality(ActiveRows) <= max
  BY IdleFacts DEF LInit
<1>2. Registering = {} /\ Places = ActiveRows
  BY <1>1 DEF Registering, Places, Promoted, Promoting
<1>3. Typed
  BY InitTyped
<1>4. Cardinality(Registering) = 0
  BY <1>2, FS_EmptySet
<1>5. Cardinality(Places) + Cardinality(Registering) < peak + n
  BY <1>1, <1>2, <1>3, <1>4, PlacesFinite
<1>6. QED
  BY <1>1, <1>3, <1>5, PlacesFinite DEF Overshoot

LEMMA OvershootStep ==
  ASSUME NEW n \in Nat \ {0}, Crowd(n)', Typed, Overshoot(n), [LNext]_lvars
  PROVE  Overshoot(n)'
<1>1. CASE UNCHANGED lvars
  BY <1>1, Stutter
     DEF Overshoot, Places, Promoted, Promoting, Registering, ActiveRows, Active
<1>2. QED
  BY <1>1, CallOvershoot, AdminOvershoot, NextIs

LEMMA OvershootFew ==
  ASSUME NEW n \in Nat \ {0}, Typed, Overshoot(n)
  PROVE  Cardinality(ActiveRows) < peak + n
BY PlacesFinite DEF Overshoot

\* The devices in use exceed the largest plan by less than the calls served
\* at once.
THEOREM DevicesBounded == LSpec => []DeviceOvershoot
<1> DEFINE n == Cardinality(Calls)
<1>1. n \in Nat \ {0} /\ Crowd(n)'
  BY AllCalls
<1> HIDE DEF n
<1>2. LInit => Overshoot(n)
  BY <1>1, InitOvershoot
<1>3. Typed /\ Overshoot(n) /\ [LNext]_lvars => Overshoot(n)'
  BY <1>1, OvershootStep
<1>4. Typed /\ Overshoot(n) => DeviceOvershoot
  BY <1>1, OvershootFew DEF DeviceOvershoot, n
<1>5. QED
  BY <1>2, <1>3, <1>4, TypedInductive, PTL DEF LSpec

\* No two calls on the licence are in flight together.
OneAtATime ==
  \A p, q \in Calls : call[p].pc # "idle" /\ call[q].pc # "idle" => p = q

\* The limits of the plan and of the month.
LimitsKept ==
  Cardinality(ActiveRows) <= peak /\ transfers <= MaxTransfers

\* With the calls of a licence served one after the other it never has more
\* devices in use than its largest plan allowed, nor more transfers in a month
\* than the limit, whatever the panel does between their queries, an
\* interrupted downgrade or a deleted device included (checkDeviceLimit,
\* transferLicense).
THEOREM SerialCallsKeepLimits == LSpec /\ []OneAtATime => []LimitsKept
<1>1. LInit => Transfers(1) /\ Overshoot(1)
  BY InitTransfers, InitOvershoot
<1>2. OneAtATime => Crowd(1)
  <2> SUFFICES ASSUME OneAtATime
               PROVE  Crowd(1)
    OBVIOUS
  <2>1. CASE Busy = {}
    BY <2>1, FS_EmptySet DEF Crowd
  <2>2. CASE Busy # {}
    <3>1. PICK p \in Calls : p \in Busy
      BY <2>2 DEF Busy
    <3>2. Busy = {p}
      BY <3>1 DEF OneAtATime, Busy
    <3>3. Cardinality({p}) = 1
      BY FS_Singleton
    <3>4. QED
      BY <3>2, <3>3 DEF Crowd
  <2>3. QED
    BY <2>1, <2>2
<1>3. /\ Typed /\ Crowd(1)' /\ Transfers(1) /\ Overshoot(1)
      /\ [LNext]_lvars
      => Transfers(1)' /\ Overshoot(1)'
  BY TransfersStep, OvershootStep
<1>4. Typed /\ Transfers(1) /\ Overshoot(1) => LimitsKept
  <2> SUFFICES ASSUME Typed, Transfers(1), Overshoot(1)
               PROVE  LimitsKept
    OBVIOUS
  <2>1. Cardinality(ActiveRows) < peak + 1 /\ transfers < MaxTransfers + 1
    BY TransfersFew, OvershootFew
  <2>2. /\ Cardinality(ActiveRows) \in Nat /\ peak \in Nat
        /\ transfers \in Nat /\ MaxTransfers \in Nat
    BY PlacesFinite, LegacyAssumption DEF Typed, TypeOK
  <2>3. QED
    BY <2>1, <2>2 DEF LimitsKept
<1>5. QED
  BY <1>1, <1>2, <1>3, <1>4, TypedInductive, PTL DEF LSpec


----------------------------------------------------------------------------
(* One place for a machine.                                                 *)

\* Rows and their hashes: the aliases of a row belong to its machine, no two
\* rows have one primary, only a twin has two v1 rows, and beside a v1 row
\* in use its machine has no other.  No alias outlives the cutoff.
Table ==
  /\ ~fallback => \A r \in Rows : Exists(r) => device[r].aliases = {}
  /\ \A r \in Rows : Exists(r) =>
       \A x \in device[r].aliases : Owner(x) = Owner(device[r].primary)
  /\ \A r, s \in Rows : Exists(r) /\ Exists(s) /\ r # s =>
       /\ device[r].primary # device[s].primary
       /\ device[r].primary \in Hashes /\ device[s].primary \in Hashes
            /\ Owner(device[r].primary) = Owner(device[s].primary)
          => Owner(device[r].primary) \in twins
       /\ fallback /\ Active(r) /\ device[r].primary \in Hashes
            /\ Owner(device[r].primary) = Owner(device[s].primary)
          => Owner(device[r].primary) \in twins

\* What call p remembers of the rows.
Owned(p) ==
  call[p].pc \in {"alias", "promote", "registerAlias"} /\ Exists(call[p].target)
    => Owner(device[call[p].target].primary) = V2(p)
Covered(p) ==
  call[p].pc \in {"alias", "promote"}
    => /\ \A x \in call[p].old : Owner(x) = V2(p)
       /\ Exists(call[p].target) => device[call[p].target].primary \in call[p].old \cup {V2(p)}
Aliases(p) ==
  call[p].pc = "promote" /\ fallback /\ Exists(call[p].target)
    => call[p].old \subseteq device[call[p].target].aliases
Unmatched(p) ==
  /\ call[p].pc = "register" \/ (call[p].pc = "limit" /\ call[p].target = NoRow)
  /\ fallback /\ V2(p) \notin twins
  => \A r \in Rows : Active(r) /\ Owner(device[r].primary) = V2(p)
                      => device[r].primary \notin Hashes
LocalOK(p) ==
  /\ call[p].accepts = "v2" => ~fallback
  /\ Owned(p) /\ Covered(p) /\ Aliases(p) /\ Unmatched(p)

\* What a plan change remembers: a listed hash is the primary of its row or
\* was until the row was promoted, and no other row has it if it is a v1 hash.
\* Before the cutoff it leads to its row, and to no other row of its machine.
Leads(r, h) ==
  Exists(r) =>
    /\ device[r].primary \in {h, Owner(h)}
    /\ h \in Hashes => \A s \in Rows : Exists(s) /\ s # r => device[s].primary # h
    /\ fallback =>
         /\ h \in {device[r].primary} \cup device[r].aliases
         /\ h \in Hashes /\ Owner(device[r].primary) \notin twins =>
              \A s \in Rows : Exists(s) /\ s # r
                                /\ Owner(device[s].primary) = Owner(device[r].primary)
                              => device[s].primary \notin Hashes
TodoOK == \A r \in Rows : \A h \in Prints : <<r, h>> \in change.todo => Leads(r, h)

Slots == Table /\ (\A p \in Calls : LocalOK(p)) /\ TodoOK

LEMMA OwnerFacts ==
  ASSUME NEW x \in Prints
  PROVE  /\ Owner(x) \in Machines /\ Owner(x) \in Prints /\ Owner(x) \notin Hashes
         /\ x \notin Hashes => Owner(x) = x
         /\ x \in Hashes => Owner(x) = MachineOf[x]
         /\ Owner(Owner(x)) = Owner(x)
BY LegacyAssumption DEF Prints, Owner

LEMMA RowFacts ==
  ASSUME Typed, NEW r \in Rows
  PROVE  /\ device[r].primary \in Prints /\ device[r].aliases \subseteq Hashes
         /\ device[r].aliases \subseteq Prints
         /\ Active(r) => Exists(r)
BY DEF Typed, TypeOK, Devices, Active, Exists, Prints

LEMMA V2Facts ==
  ASSUME Typed, NEW p \in Calls
  PROVE  /\ call[p].hash \in Hashes /\ V2(p) = Owner(call[p].hash) /\ V2(p) \in Prints
         /\ V2(p) \notin Hashes /\ Owner(V2(p)) = V2(p) /\ call[p].old \subseteq Hashes
<1>1. call[p].hash \in Hashes /\ call[p].hash \in Prints /\ call[p].old \subseteq Hashes
  BY DEF Typed, TypeOK, Locals, Prints
<1>2. V2(p) = Owner(call[p].hash)
  BY <1>1, OwnerFacts DEF V2
<1>3. QED
  BY <1>1, <1>2, OwnerFacts

\* How a row may change: it keeps its machine and the hashes that lead to it,
\* a v1 row is neither made nor activated, and a new row has a new identifier.
\* After the cutoff no row has aliases.
Kept(r) ==
  /\ Exists(r) /\ Owner(device'[r].primary) = Owner(device[r].primary)
  /\ device'[r].primary \in {device[r].primary, Owner(device[r].primary)}
  /\ fallback' => /\ device[r].aliases \subseteq device'[r].aliases
                  /\ device[r].primary \in {device'[r].primary} \cup device'[r].aliases
  /\ device'[r].primary \in Hashes =>
       /\ device'[r].primary = device[r].primary
       /\ device'[r].state = "active" => Active(r)
Evolves ==
  /\ fallback' => fallback
  /\ twins' = twins
  /\ ~fallback' => \A r \in Rows : device'[r].state # "none" => device'[r].aliases = {}
  /\ \A r \in Rows : device'[r].state # "none" =>
       Kept(r) \/ (r \in FreshRows /\ device'[r].primary \notin Hashes)

LEMMA NotFresh ==
  ASSUME NEW p \in Calls
  PROVE  call[p].target \notin FreshRows
BY DEF FreshRows

LEMMA OthersKeep ==
  ASSUME Typed, Typed', Evolves, NEW q \in Calls, call'[q] = call[q], LocalOK(q)
  PROVE  LocalOK(q)'
<1>1. V2(q)' = V2(q)
  BY DEF V2
<1> DEFINE r == call[q].target
<1>2. /\ r \notin FreshRows /\ call'[q].target = r
      /\ call'[q].pc = call[q].pc /\ call'[q].old = call[q].old
  BY NotFresh
<1>3. ASSUME call[q].pc \in {"alias", "promote", "registerAlias"}, device'[r].state # "none"
      PROVE  r \in Rows /\ Kept(r) /\ Exists(r)
  <2>1. r \in Rows
    BY <1>3 DEF Typed, Targets
  <2>2. QED
    BY <1>2, <1>3, <2>1 DEF Evolves, Exists, Kept
<1> HIDE DEF r
<1>4. Owned(q)'
  <2>1. ASSUME call[q].pc \in {"alias", "promote", "registerAlias"}, device'[r].state # "none"
        PROVE  Owner(device'[r].primary) = V2(q)
    BY <1>3, <2>1 DEF LocalOK, Owned, Kept, r
  <2>2. QED
    BY <1>1, <1>2, <2>1 DEF Owned, Exists
<1>5. Covered(q)'
  <2>1. ASSUME call[q].pc \in {"alias", "promote"}
        PROVE  \A x \in call[q].old : Owner(x) = V2(q)
    BY <2>1 DEF LocalOK, Covered
  <2>2. ASSUME call[q].pc \in {"alias", "promote"}, device'[r].state # "none"
        PROVE  device'[r].primary \in call[q].old \cup {V2(q)}
    <3>1. /\ device'[r].primary \in {device[r].primary, Owner(device[r].primary)}
          /\ Owner(device[r].primary) = V2(q)
          /\ device[r].primary \in call[q].old \cup {V2(q)}
      BY <1>3, <2>2 DEF LocalOK, Covered, Owned, Kept, r
    <3>2. QED
      BY <3>1
  <2>3. QED
    BY <1>1, <1>2, <2>1, <2>2 DEF Covered, Exists
<1>6. Aliases(q)'
  <2>1. ASSUME call[q].pc = "promote", fallback', device'[r].state # "none"
        PROVE  call[q].old \subseteq device'[r].aliases
    <3>1. Kept(r) /\ Exists(r) /\ fallback
      BY <1>3, <2>1 DEF Evolves
    <3>2. call[q].old \subseteq device[r].aliases
      BY <2>1, <3>1 DEF LocalOK, Aliases, r
    <3>3. QED
      BY <2>1, <3>1, <3>2 DEF Kept
  <2>2. QED
    BY <1>2, <2>1 DEF Aliases, Exists
<1>7. Unmatched(q)'
  <2>1. ASSUME call[q].pc = "register" \/ (call[q].pc = "limit" /\ call[q].target = NoRow),
               fallback', V2(q) \notin twins, NEW s \in Rows, Active(s)',
               Owner(device'[s].primary) = V2(q), device'[s].primary \in Hashes
        PROVE  FALSE
    <3>1. Kept(s)
      BY <2>1 DEF Evolves, Active
    <3>2. device'[s].primary = device[s].primary /\ Active(s)
      BY <2>1, <3>1 DEF Kept, Active
    <3>3. QED
      BY <2>1, <3>2 DEF LocalOK, Unmatched, Evolves
  <2>2. twins' = twins
    BY DEF Evolves
  <2>3. QED
    BY <1>1, <2>1, <2>2 DEF Unmatched
<1>8. call'[q].accepts = "v2" => ~fallback'
  BY DEF LocalOK, Evolves
<1>9. QED
  BY <1>4, <1>5, <1>6, <1>7, <1>8 DEF LocalOK

LEMMA LeadsKeeps ==
  ASSUME Typed, Typed', Evolves, NEW r \in Rows, NEW h \in Prints, r \notin FreshRows,
         Leads(r, h)
  PROVE  Leads(r, h)'
<1> SUFFICES ASSUME Exists(r)'
             PROVE  Leads(r, h)'
  BY DEF Leads
<1>1. Kept(r) /\ Exists(r) /\ twins' = twins
  BY DEF Evolves, Exists, Kept
<1>2. device'[r].primary \in {h, Owner(h)}
  <2>1. /\ device[r].primary \in {h, Owner(h)}
        /\ device'[r].primary \in {device[r].primary, Owner(device[r].primary)}
    BY <1>1 DEF Leads, Kept
  <2>2. QED
    BY <2>1, OwnerFacts
<1>3. ASSUME h \in Hashes, NEW s \in Rows, Exists(s)', s # r, device'[s].primary = h
      PROVE  FALSE
  <2>1. Kept(s)
    BY <1>3 DEF Evolves, Exists
  <2>2. Exists(s) /\ device[s].primary = h
    BY <1>3, <2>1 DEF Kept
  <2>3. QED
    BY <1>1, <1>3, <2>2 DEF Leads
<1>4. ASSUME fallback'
      PROVE  h \in {device'[r].primary} \cup device'[r].aliases
  BY <1>1, <1>4 DEF Leads, Kept, Evolves
<1>5. ASSUME fallback', h \in Hashes, Owner(device'[r].primary) \notin twins', NEW s \in Rows,
             Exists(s)', s # r, Owner(device'[s].primary) = Owner(device'[r].primary),
             device'[s].primary \in Hashes
      PROVE  FALSE
  <2>1. Kept(s) /\ fallback
    BY <1>5 DEF Evolves, Exists
  <2>2. /\ Exists(s) /\ device[s].primary \in Hashes
        /\ Owner(device[s].primary) = Owner(device[r].primary)
        /\ Owner(device[r].primary) \notin twins
    BY <1>1, <1>5, <2>1 DEF Kept
  <2>3. QED
    BY <1>1, <1>5, <2>1, <2>2 DEF Leads
<1>6. QED
  BY <1>2, <1>3, <1>4, <1>5 DEF Leads

LEMMA TodoKeeps ==
  ASSUME Typed, Typed', Evolves, TodoOK, change'.todo \subseteq change.todo
  PROVE  TodoOK'
<1> SUFFICES ASSUME NEW r \in Rows, NEW h \in Prints, <<r, h>> \in change'.todo
             PROVE  Leads(r, h)'
  BY DEF TodoOK
<1>1. <<r, h>> \in change.todo
  OBVIOUS
<1>2. r \notin FreshRows
  BY <1>1 DEF FreshRows
<1>3. Leads(r, h)
  BY <1>1 DEF TodoOK
<1>4. QED
  BY <1>2, <1>3, LeadsKeeps

\* The table after a step that evolves it.
LEMMA TableStep ==
  ASSUME Typed, Typed', Table, Evolves,
         \A r \in Rows : device'[r].state # "none" =>
           \A x \in device'[r].aliases : Owner(x) = Owner(device'[r].primary),
         \A r, s \in Rows : device'[r].state # "none" /\ device'[s].state # "none" /\ r # s =>
           device'[r].primary # device'[s].primary,
         \A r, s \in Rows : /\ s \in FreshRows /\ device'[s].state # "none" /\ fallback'
                            /\ Active(r) /\ device[r].primary \in Hashes
                            /\ Owner(device[r].primary) = Owner(device'[s].primary)
                          => Owner(device[r].primary) \in twins
  PROVE  Table'
<1>1. ASSUME NEW r \in Rows, device'[r].state # "none", device'[r].primary \in Hashes
      PROVE  /\ Exists(r) /\ device'[r].primary = device[r].primary
             /\ device'[r].state = "active" => Active(r)
  BY <1>1 DEF Evolves, Kept
<1>2. ASSUME NEW r \in Rows, NEW s \in Rows, device'[r].state # "none",
             device'[s].state # "none", r # s, device'[r].primary \in Hashes,
             device'[s].primary \in Hashes,
             Owner(device'[r].primary) = Owner(device'[s].primary)
      PROVE  Owner(device'[r].primary) \in twins'
  <2>1. /\ Exists(r) /\ device'[r].primary = device[r].primary
        /\ Exists(s) /\ device'[s].primary = device[s].primary
    BY <1>1, <1>2
  <2>2. QED
    BY <1>2, <2>1 DEF Table, Evolves
<1>3. ASSUME NEW r \in Rows, NEW s \in Rows, device'[r].state # "none",
             device'[s].state # "none", r # s, fallback', device'[r].state = "active",
             device'[r].primary \in Hashes,
             Owner(device'[r].primary) = Owner(device'[s].primary)
      PROVE  Owner(device'[r].primary) \in twins'
  <2>1. Active(r) /\ Exists(r) /\ device'[r].primary = device[r].primary
    BY <1>1, <1>3
  <2>2. twins' = twins /\ fallback
    BY <1>3 DEF Evolves
  <2>3. CASE Kept(s)
    BY <1>3, <2>1, <2>2, <2>3 DEF Kept, Table
  <2>4. CASE s \in FreshRows
    BY <1>3, <2>1, <2>2, <2>4
  <2>5. QED
    BY <1>3, <2>3, <2>4 DEF Evolves
<1>4. ~fallback' => \A r \in Rows : Exists(r)' => device'[r].aliases = {}
  BY DEF Evolves, Exists
<1>5. QED
  BY <1>2, <1>3, <1>4 DEF Table, Exists, Active

\* Rows may go, be deactivated, and lose their aliases after the cutoff.
Fades ==
  /\ fallback' => fallback
  /\ twins' = twins
  /\ \A r \in Rows : device'[r].state # "none" =>
       /\ Exists(r) /\ device'[r].primary = device[r].primary
       /\ device'[r].aliases \subseteq device[r].aliases
       /\ fallback' => device'[r].aliases = device[r].aliases
       /\ fallback /\ ~fallback' => device'[r].aliases = {}
       /\ device'[r].state = "active" => Active(r)

LEMMA FadesFacts ==
  ASSUME Typed, Typed', Table, Fades
  PROVE  Table' /\ Evolves
<1>1. Evolves
  <2>1. ASSUME ~fallback', NEW r \in Rows, device'[r].state # "none"
        PROVE  device'[r].aliases = {}
    <3>1. CASE fallback
      BY <2>1, <3>1 DEF Fades
    <3>2. CASE ~fallback
      <4>1. Exists(r) /\ device'[r].aliases \subseteq device[r].aliases
        BY <2>1 DEF Fades
      <4>2. device[r].aliases = {}
        BY <3>2, <4>1 DEF Table
      <4>3. QED
        BY <4>1, <4>2
    <3>3. QED
      BY <3>1, <3>2
  <2>2. \A r \in Rows : device'[r].state # "none" => Kept(r)
    BY DEF Fades, Kept
  <2>3. QED
    BY <2>1, <2>2 DEF Evolves, Fades
<1>2. \A r \in Rows : device'[r].state # "none" =>
        \A x \in device'[r].aliases : Owner(x) = Owner(device'[r].primary)
  BY DEF Fades, Table
<1>3. \A r, s \in Rows : device'[r].state # "none" /\ device'[s].state # "none" /\ r # s =>
        device'[r].primary # device'[s].primary
  BY DEF Fades, Table
<1>4. \A s \in Rows : s \in FreshRows => device'[s].state = "none"
  BY DEF Fades, FreshRows
<1>5. QED
  BY <1>1, <1>2, <1>3, <1>4, TableStep

LEMMA SameFades ==
  ASSUME UNCHANGED <<device, fallback, twins>>
  PROVE  Fades
BY DEF Fades, Exists, Active

LEMMA DeactivatedFades ==
  ASSUME Typed, NEW r \in Rows \cup {NoRow}, Deactivated(r), UNCHANGED <<fallback, twins>>
  PROVE  Fades
<1>1. TypeOK
  BY DEF Typed
<1>2. \A s \in Rows : /\ device'[s].primary = device[s].primary
                      /\ device'[s].aliases = device[s].aliases
                      /\ device'[s].state = "none" <=> device[s].state = "none"
                      /\ device'[s].state = "active" => device[s].state = "active"
  BY <1>1, DeactivatedTyped
<1>3. QED
  BY <1>2 DEF Fades, Exists, Active

LEMMA AliasedTable ==
  ASSUME Typed, Typed', Table, NEW r \in Rows, NEW hashes \in SUBSET Hashes,
         Exists(r), Aliased(r, hashes), UNCHANGED <<fallback, twins>>,
         \A x \in hashes : Owner(x) = Owner(device[r].primary)
  PROVE  Table' /\ Evolves
<1>1. /\ device'[r].state = device[r].state /\ device'[r].primary = device[r].primary
      /\ device[r].aliases \subseteq device'[r].aliases
      /\ device'[r].aliases \subseteq device[r].aliases \cup hashes
      /\ \A s \in Rows : s # r => device'[s] = device[s]
  BY DEF Aliased
<1>2. Evolves
  <2>1. ~fallback => \A s \in Rows : device'[s].state # "none" => device'[s].aliases = {}
    BY DEF Aliased, Table, Exists
  <2>2. QED
    BY <1>1, <2>1 DEF Evolves, Kept, Exists, Active
<1>3. \A s \in Rows : device'[s].state # "none" =>
        \A x \in device'[s].aliases : Owner(x) = Owner(device'[s].primary)
  BY <1>1 DEF Table, Exists
<1>4. \A s \in Rows : /\ device'[s].primary = device[s].primary
                      /\ device'[s].state = device[s].state
  BY <1>1
<1>5. \A q, s \in Rows : device'[q].state # "none" /\ device'[s].state # "none" /\ q # s =>
        device'[q].primary # device'[s].primary
  BY <1>4 DEF Table, Exists
<1>6. \A s \in Rows : s \in FreshRows => device'[s].state = "none"
  BY <1>4 DEF FreshRows, Exists
<1>7. QED
  BY <1>2, <1>3, <1>5, <1>6, TableStep

LEMMA PromotesTable ==
  ASSUME Typed, Typed', Table, NEW r \in Rows, NEW m \in Prints, m \notin Hashes,
         Owner(m) = m, Exists(r), Holders(m) \subseteq {r}, Promotes(r, m),
         UNCHANGED <<fallback, twins>>, Owner(device[r].primary) = m,
         fallback => device[r].primary \in device[r].aliases \cup {m}
  PROVE  Table' /\ Evolves
<1>1. /\ device'[r].state = "active" /\ device'[r].primary = m
      /\ device'[r].aliases = device[r].aliases
      /\ \A s \in Rows : s # r => device'[s] = device[s]
  BY DEF Promotes
<1>2. Evolves
  <2>1. Kept(r)
    BY <1>1 DEF Kept
  <2>2. \A s \in Rows : s # r /\ device'[s].state # "none" => Kept(s)
    BY <1>1 DEF Kept, Exists, Active
  <2>3. ~fallback => \A s \in Rows : device'[s].state # "none" => device'[s].aliases = {}
    BY <1>1 DEF Table, Exists
  <2>4. QED
    BY <2>1, <2>2, <2>3 DEF Evolves
<1>3. \A s \in Rows : device'[s].state # "none" =>
        \A x \in device'[s].aliases : Owner(x) = Owner(device'[s].primary)
  BY <1>1 DEF Table, Exists
<1>4. \A s \in Rows : s # r /\ device'[s].state # "none" => device'[s].primary # m
  BY <1>1 DEF Holders, Exists
<1>5. \A q, s \in Rows : device'[q].state # "none" /\ device'[s].state # "none" /\ q # s =>
        device'[q].primary # device'[s].primary
  BY <1>1, <1>4 DEF Table, Exists
<1>6. \A s \in Rows : s \in FreshRows => device'[s].state = "none"
  BY <1>1 DEF FreshRows, Exists
<1>7. QED
  BY <1>2, <1>3, <1>5, <1>6, TableStep

LEMMA RegisterTable ==
  ASSUME Typed, Typed', Table, NEW p \in Calls, LocalOK(p), Register(p)
  PROVE  /\ Table' /\ Evolves
         /\ call'[p].pc = "registerAlias" /\ call'[p].hash = call[p].hash
         /\ call'[p].accepts = call[p].accepts
         /\ device'[call'[p].target].primary = V2(p)
<1>1. PICK r \in Rows :
        /\ IF Holders(V2(p)) # {} THEN r \in Holders(V2(p)) ELSE r \in FreshRows
        /\ device'[r].state = "active" /\ device'[r].primary = V2(p)
        /\ device'[r].aliases = IF Exists(r) THEN device[r].aliases ELSE {}
        /\ \A s \in Rows : s # r => device'[s] = device[s]
        /\ Moves(p, "registerAlias", r, call[p].old)
  BY RegisterFacts
<1>2. call[p].pc = "register" /\ UNCHANGED <<fallback, twins>>
  BY RegisterFacts DEF Register, license, history
<1>3. V2(p) \in Prints /\ V2(p) \notin Hashes /\ Owner(V2(p)) = V2(p)
  BY V2Facts
<1>4. \/ Exists(r) /\ device[r].primary = V2(p)
      \/ r \in FreshRows /\ ~Exists(r) /\ Holders(V2(p)) = {}
  BY <1>1 DEF Holders, FreshRows
<1>5. Evolves
  <2>1. Kept(r) \/ r \in FreshRows
    BY <1>1, <1>3, <1>4 DEF Kept
  <2>2. \A s \in Rows : s # r /\ device'[s].state # "none" => Kept(s)
    BY <1>1 DEF Kept, Exists, Active
  <2>3. ~fallback => \A s \in Rows : device'[s].state # "none" => device'[s].aliases = {}
    BY <1>1 DEF Table, Exists
  <2>4. QED
    BY <1>1, <1>2, <1>3, <2>1, <2>2, <2>3 DEF Evolves
<1>6. \A s \in Rows : device'[s].state # "none" =>
        \A x \in device'[s].aliases : Owner(x) = Owner(device'[s].primary)
  BY <1>1, <1>4 DEF Table, Exists
<1>7. \A s \in Rows : s # r /\ device'[s].state # "none" => device'[s].primary # V2(p)
  <2>1. CASE Exists(r) /\ device[r].primary = V2(p)
    BY <1>1, <2>1 DEF Table, Exists
  <2>2. CASE Holders(V2(p)) = {}
    BY <1>1, <2>2 DEF Holders, Exists
  <2>3. QED
    BY <1>4, <2>1, <2>2
<1>8. \A q, s \in Rows : device'[q].state # "none" /\ device'[s].state # "none" /\ q # s =>
        device'[q].primary # device'[s].primary
  BY <1>1, <1>7 DEF Table, Exists
<1>9. ASSUME NEW q \in Rows, NEW s \in Rows, s \in FreshRows, device'[s].state # "none",
             fallback', Active(q), device[q].primary \in Hashes,
             Owner(device[q].primary) = Owner(device'[s].primary)
      PROVE  Owner(device[q].primary) \in twins
  <2>1. s = r
    BY <1>1, <1>9 DEF FreshRows, Exists
  <2>2. Owner(device[q].primary) = V2(p) /\ fallback
    BY <1>1, <1>2, <1>3, <1>9, <2>1
  <2>3. QED
    BY <1>2, <1>9, <2>2 DEF LocalOK, Unmatched
<1>10. Table'
  BY <1>5, <1>6, <1>8, <1>9, TableStep
<1>11. QED
  BY <1>1, <1>5, <1>10 DEF Moves

LEMMA SlotsStep ==
  ASSUME NEW p \in Calls, Typed, Typed', Slots, CallStep(p), UNCHANGED change,
         Table', Evolves, LocalOK(p)'
  PROVE  Slots'
<1>1. \A q \in Calls : LocalOK(q)'
  <2>1. ASSUME NEW q \in Calls, q # p
        PROVE  LocalOK(q)'
    <3>1. call'[q] = call[q] /\ LocalOK(q)
      BY <2>1 DEF CallStep, Slots
    <3>2. QED
      BY <3>1, OthersKeep
  <2>2. QED
    BY <2>1
<1>2. TodoOK'
  BY TodoKeeps DEF Slots
<1>3. QED
  BY <1>1, <1>2 DEF Slots

LEMMA QuietSlots ==
  ASSUME NEW p \in Calls, Typed, Typed', Slots, CallStep(p), UNCHANGED <<change, twins>>,
         UNCHANGED <<device, fallback>>, LocalOK(p)'
  PROVE  Slots'
BY SameFades, FadesFacts, SlotsStep DEF Slots

\* A call that is not between matching a row and writing it.
LEMMA LocalNone ==
  ASSUME NEW p \in Calls,
         call'[p].pc \notin {"alias", "promote", "registerAlias", "register", "limit"},
         call'[p].accepts = "v2" => ~fallback'
  PROVE  LocalOK(p)'
BY DEF LocalOK, Owned, Covered, Aliases, Unmatched

LEMMA LocalLimit ==
  ASSUME NEW p \in Calls, call'[p].pc \in {"limit", "register"},
         call'[p].accepts = "v2" => ~fallback', V2(p)' = V2(p),
         \/ call'[p].pc = "limit" /\ call'[p].target # NoRow
         \/ ~fallback'
         \/ V2(p) \in twins'
         \/ \A r \in Rows : Active(r)' /\ Owner(device'[r].primary) = V2(p)
                           => device'[r].primary \notin Hashes
  PROVE  LocalOK(p)'
<1>1. Owned(p)' /\ Covered(p)' /\ Aliases(p)'
  BY DEF Owned, Covered, Aliases
<1>2. Unmatched(p)'
  BY DEF Unmatched
<1>3. QED
  BY <1>1, <1>2 DEF LocalOK

LEMMA LocalMatched ==
  ASSUME NEW p \in Calls, Typed, LocalOK(p), UNCHANGED <<device, fallback>>,
         NEW r \in Rows, Active(r), Owner(device[r].primary) = V2(p),
         Moves(p, "alias", r, ({device[r].primary} \cap Hashes) \cup {call[p].hash})
  PROVE  LocalOK(p)'
<1> DEFINE hashes == ({device[r].primary} \cap Hashes) \cup {call[p].hash}
<1>1. /\ call'[p].pc = "alias" /\ V2(p)' = V2(p)
      /\ call'[p].target = r /\ call'[p].old = hashes
      /\ call'[p].accepts = call[p].accepts
  BY DEF Moves, V2
<1>2. \A x \in hashes : Owner(x) = V2(p)
  BY V2Facts
<1>3. device[r].primary \in hashes \cup {V2(p)}
  BY RowFacts, OwnerFacts
<1> HIDE DEF hashes
<1>4. Owned(p)' /\ Aliases(p)' /\ Unmatched(p)'
  BY <1>1 DEF Owned, Aliases, Unmatched
<1>5. Covered(p)'
  BY <1>1, <1>2, <1>3 DEF Covered
<1>6. QED
  BY <1>1, <1>4, <1>5 DEF LocalOK

\* A row that answers to one of the machine's hashes is the machine's.
LEMMA SameOwner ==
  ASSUME Typed, Table, NEW p \in Calls, NEW r \in Rows, Active(r),
         NEW x \in {device[r].primary} \cup device[r].aliases, Owner(x) = V2(p)
  PROVE  Owner(device[r].primary) = V2(p)
BY RowFacts DEF Table

LEMMA MatchExactSlots ==
  ASSUME NEW p \in Calls, Typed, Typed', Slots, MatchExact(p)
  PROVE  Slots'
<1>1. /\ CallStep(p) /\ UNCHANGED <<change, twins, device, fallback>> /\ LocalOK(p) /\ TypeOK
  BY MatchExactFacts DEF MatchExact, license, history, Slots, Typed
<1>2. CASE Moves(p, "legacy", call[p].target, call[p].old)
  BY <1>1, <1>2, LocalNone, QuietSlots DEF Moves, LocalOK
<1>3. CASE \E r \in Holders(V2(p)) \cap ActiveRows : Moves(p, "limit", r, call[p].old)
  <2>1. PICK r \in Holders(V2(p)) \cap ActiveRows : Moves(p, "limit", r, call[p].old)
    BY <1>3
  <2>2. /\ call'[p].pc = "limit" /\ call'[p].target # NoRow /\ V2(p)' = V2(p)
        /\ call'[p].accepts = call[p].accepts
    BY <2>1, LegacyAssumption DEF ActiveRows, Moves, V2
  <2>3. LocalOK(p)'
    BY <1>1, <2>2, LocalLimit DEF LocalOK
  <2>4. QED
    BY <1>1, <2>3, QuietSlots
<1>4. QED
  BY <1>1, <1>2, <1>3, MatchExactFacts

LEMMA MatchLegacySlots ==
  ASSUME NEW p \in Calls, Typed, Typed', Slots, MatchLegacy(p)
  PROVE  Slots'
<1>1. /\ CallStep(p) /\ UNCHANGED <<change, twins, device, fallback>> /\ LocalOK(p)
      /\ Table /\ TypeOK
  BY MatchLegacyFacts DEF MatchLegacy, license, history, Slots, Typed
<1>2. CASE Refused(p)
  <2>1. call'[p].pc = "suspect" /\ call'[p].accepts = "v1 and v2"
    BY <1>2 DEF Refused, Fresh
  <2>2. QED
    BY <1>1, <2>1, LocalNone, QuietSlots
<1>3. CASE Moves(p, "reconcile", call[p].target, call[p].old)
  BY <1>1, <1>3, LocalNone, QuietSlots DEF Moves, LocalOK
<1>4. CASE \E r \in LegacyMatches(p) :
             Moves(p, "alias", r, ({device[r].primary} \cap Hashes) \cup {call[p].hash})
  <2>1. PICK r \in LegacyMatches(p) :
               Moves(p, "alias", r, ({device[r].primary} \cap Hashes) \cup {call[p].hash})
    BY <1>4
  <2>2. /\ r \in Rows /\ Active(r)
        /\ call[p].hash \in {device[r].primary} \cup device[r].aliases
    BY LegacyMatchesFacts
  <2>3. Owner(device[r].primary) = V2(p)
    BY <1>1, <2>2, V2Facts, SameOwner
  <2>4. LocalOK(p)'
    BY <1>1, <2>1, <2>2, <2>3, LocalMatched
  <2>5. QED
    BY <1>1, <2>4, QuietSlots
<1>5. CASE call[p].accepts = "v2" /\ Moves(p, "limit", call[p].target, call[p].old)
  <2>1. /\ call'[p].pc = "limit" /\ V2(p)' = V2(p) /\ ~fallback'
    BY <1>1, <1>5 DEF Moves, V2, LocalOK
  <2>2. LocalOK(p)'
    BY <2>1, LocalLimit
  <2>3. QED
    BY <1>1, <2>2, QuietSlots
<1>6. QED
  BY <1>1, <1>2, <1>3, <1>4, <1>5, MatchLegacyFacts

LEMMA ReconcileSlots ==
  ASSUME NEW p \in Calls, Typed, Typed', Slots, Reconcile(p)
  PROVE  Slots'
<1>1. /\ CallStep(p) /\ UNCHANGED <<change, twins, device, fallback>> /\ LocalOK(p)
      /\ Table /\ TypeOK
  BY ReconcileFacts DEF Reconcile, license, history, Slots, Typed
<1>2. CASE \E r \in SameMachine(p) :
             Moves(p, "alias", r, ({device[r].primary} \cap Hashes) \cup {call[p].hash})
  <2>1. PICK r \in SameMachine(p) :
               Moves(p, "alias", r, ({device[r].primary} \cap Hashes) \cup {call[p].hash})
    BY <1>2
  <2>2. /\ r \in Rows /\ Active(r)
        /\ \E x \in {device[r].primary} \cup device[r].aliases : Owner(x) = V2(p)
    BY DEF SameMachine, ActiveRows
  <2>3. Owner(device[r].primary) = V2(p)
    BY <1>1, <2>2, SameOwner
  <2>4. LocalOK(p)'
    BY <1>1, <2>1, <2>2, <2>3, LocalMatched
  <2>5. QED
    BY <1>1, <2>4, QuietSlots
<1>3. CASE SameMachine(p) = {} /\ Moves(p, "limit", call[p].target, call[p].old)
  <2>1. /\ call'[p].pc = "limit" /\ V2(p)' = V2(p) /\ call'[p].accepts = call[p].accepts
    BY <1>3 DEF Moves, V2
  <2>2. \A r \in Rows : Active(r)' => Owner(device'[r].primary) # V2(p)
    BY <1>1, <1>3 DEF SameMachine, ActiveRows, Active
  <2>3. LocalOK(p)'
    BY <1>1, <2>1, <2>2, LocalLimit DEF LocalOK
  <2>4. QED
    BY <1>1, <2>3, QuietSlots
<1>4. QED
  BY <1>1, <1>2, <1>3, ReconcileFacts

LEMMA PromoteAliasesSlots ==
  ASSUME NEW p \in Calls, Typed, Typed', Slots, PromoteAliases(p)
  PROVE  Slots'
<1> DEFINE r == call[p].target
           hashes == call[p].old
<1>1. /\ CallStep(p) /\ UNCHANGED <<change, twins, fallback>> /\ LocalOK(p)
      /\ Table /\ call[p].pc = "alias" /\ r \in Rows /\ hashes \in SUBSET Hashes
  BY PromoteAliasesFacts, V2Facts DEF PromoteAliases, license, history, Slots
<1>2. CASE Refused(p) /\ UNCHANGED device
  <2>1. call'[p].pc = "suspect" /\ call'[p].accepts = "v1 and v2"
    BY <1>2 DEF Refused, Fresh
  <2>2. QED
    BY <1>1, <1>2, <2>1, LocalNone, QuietSlots
<1>3. CASE Exists(r) /\ Aliased(r, hashes) /\ Moves(p, "promote", r, hashes)
  <2>1. /\ \A x \in hashes : Owner(x) = V2(p)
        /\ device[r].primary \in hashes \cup {V2(p)} /\ Owner(device[r].primary) = V2(p)
    BY <1>1, <1>3 DEF LocalOK, Covered, Owned
  <2>2. /\ call'[p].pc = "promote" /\ V2(p)' = V2(p) /\ call'[p].target = r
        /\ call'[p].old = hashes /\ call'[p].accepts = call[p].accepts
    BY <1>3 DEF Moves, V2
  <2> HIDE DEF r, hashes
  <2>3. Table' /\ Evolves
    BY <1>1, <1>3, <2>1, AliasedTable
  <2>4. Owned(p)' /\ Covered(p)' /\ Aliases(p)' /\ Unmatched(p)'
    BY <1>1, <1>3, <2>1, <2>2 DEF Owned, Covered, Aliases, Unmatched, Aliased
  <2>5. LocalOK(p)'
    BY <1>1, <2>2, <2>4 DEF LocalOK
  <2>6. QED
    BY <1>1, <2>3, <2>5, SlotsStep
<1>4. QED
  BY <1>1, <1>2, <1>3, PromoteAliasesFacts

LEMMA PromoteSlots ==
  ASSUME NEW p \in Calls, Typed, Typed', Slots, Promote(p)
  PROVE  Slots'
<1> DEFINE r == call[p].target
<1>1. /\ CallStep(p) /\ UNCHANGED <<change, twins, fallback>> /\ LocalOK(p)
      /\ Table /\ call[p].pc = "promote" /\ r \in Rows /\ r # NoRow
  BY PromoteFacts, LegacyAssumption DEF Promote, license, history, Slots
<1>2. ASSUME Moves(p, "limit", r, {})
      PROVE  LocalOK(p)'
  <2>1. /\ call'[p].pc = "limit" /\ call'[p].target = r /\ V2(p)' = V2(p)
        /\ call'[p].accepts = call[p].accepts
    BY <1>2 DEF Moves, V2
  <2> HIDE DEF r
  <2>2. QED
    BY <1>1, <2>1, LocalLimit DEF LocalOK
<1>3. CASE Refused(p) /\ UNCHANGED device
  <2>1. call'[p].pc = "suspect" /\ call'[p].accepts = "v1 and v2"
    BY <1>3 DEF Refused, Fresh
  <2>2. QED
    BY <1>1, <1>3, <2>1, LocalNone, QuietSlots
<1>4. CASE UNCHANGED device /\ Moves(p, "limit", r, {})
  BY <1>1, <1>2, <1>4, QuietSlots
<1>5. CASE /\ Exists(r) /\ Holders(V2(p)) \subseteq {r} /\ Promotes(r, V2(p))
           /\ Moves(p, "limit", r, {})
  <2>1. /\ Owner(device[r].primary) = V2(p)
        /\ fallback => device[r].primary \in device[r].aliases \cup {V2(p)}
    BY <1>1, <1>5 DEF LocalOK, Owned, Covered, Aliases
  <2>2. V2(p) \in Prints /\ V2(p) \notin Hashes /\ Owner(V2(p)) = V2(p)
    BY V2Facts
  <2> DEFINE m == V2(p)
  <2>3. /\ m \in Prints /\ m \notin Hashes /\ Owner(m) = m /\ Owner(device[r].primary) = m
        /\ Exists(r) /\ Holders(m) \subseteq {r} /\ Promotes(r, m)
        /\ fallback => device[r].primary \in device[r].aliases \cup {m}
    BY <1>5, <2>1, <2>2
  <2> HIDE DEF r, m
  <2>4. Table' /\ Evolves
    BY <1>1, <2>3, PromotesTable
  <2>5. QED
    BY <1>1, <1>2, <1>5, <2>4, SlotsStep
<1>6. QED
  BY <1>1, <1>3, <1>4, <1>5, PromoteFacts

LEMMA CheckDeviceLimitSlots ==
  ASSUME NEW p \in Calls, Typed, Typed', Slots, CheckDeviceLimit(p)
  PROVE  Slots'
<1>1. /\ CallStep(p) /\ UNCHANGED <<change, twins, device, fallback>> /\ LocalOK(p)
      /\ call[p].pc = "limit"
  BY CheckDeviceLimitFacts DEF CheckDeviceLimit, license, history, Slots
<1>2. CASE Ends(p) \/ Refused(p)
  <2>1. call'[p].pc \in {"idle", "record", "suspect"} /\ call'[p].accepts = "v1 and v2"
    BY <1>2 DEF Ends, Refused, Fresh
  <2>2. QED
    BY <1>1, <2>1, LocalNone, QuietSlots
<1>3. CASE call[p].target = NoRow /\ Moves(p, "register", call[p].target, call[p].old)
  <2>1. /\ call'[p].pc = "register" /\ V2(p)' = V2(p) /\ call'[p].accepts = call[p].accepts
    BY <1>3 DEF Moves, V2
  <2>2. \/ ~fallback' \/ V2(p) \in twins'
        \/ \A r \in Rows : Active(r)' /\ Owner(device'[r].primary) = V2(p)
                          => device'[r].primary \notin Hashes
    BY <1>1, <1>3 DEF LocalOK, Unmatched, Active
  <2>3. LocalOK(p)'
    BY <1>1, <2>1, <2>2, LocalLimit DEF LocalOK
  <2>4. QED
    BY <1>1, <2>3, QuietSlots
<1>4. QED
  BY <1>2, <1>3, CheckDeviceLimitFacts

LEMMA RegisterSlots ==
  ASSUME NEW p \in Calls, Typed, Typed', Slots, Register(p)
  PROVE  Slots'
<1>1. /\ CallStep(p) /\ UNCHANGED <<change, twins, fallback>> /\ LocalOK(p) /\ Table
  BY RegisterFacts DEF Register, license, history, Slots
<1>2. /\ Table' /\ Evolves
      /\ call'[p].pc = "registerAlias" /\ call'[p].hash = call[p].hash
      /\ call'[p].accepts = call[p].accepts
      /\ device'[call'[p].target].primary = V2(p)
  BY <1>1, RegisterTable
<1>3. V2(p)' = V2(p) /\ Owner(V2(p)) = V2(p)
  BY <1>2, V2Facts DEF V2
<1>4. Owned(p)' /\ Covered(p)' /\ Aliases(p)' /\ Unmatched(p)'
  BY <1>2, <1>3 DEF Owned, Covered, Aliases, Unmatched
<1>5. LocalOK(p)'
  BY <1>1, <1>2, <1>4 DEF LocalOK
<1>6. QED
  BY <1>1, <1>2, <1>5, SlotsStep

LEMMA RegisterAliasSlots ==
  ASSUME NEW p \in Calls, Typed, Typed', Slots, RegisterAlias(p)
  PROVE  Slots'
<1> DEFINE r == call[p].target
           hashes == {call[p].hash}
<1>1. /\ CallStep(p) /\ UNCHANGED <<change, twins, fallback>> /\ LocalOK(p)
      /\ Table /\ call[p].pc = "registerAlias" /\ r \in Rows /\ hashes \in SUBSET Hashes
  BY RegisterAliasFacts, V2Facts DEF RegisterAlias, license, history, Slots
<1>2. CASE Refused(p) /\ UNCHANGED device
  <2>1. call'[p].pc = "suspect" /\ call'[p].accepts = "v1 and v2"
    BY <1>2 DEF Refused, Fresh
  <2>2. QED
    BY <1>1, <1>2, <2>1, LocalNone, QuietSlots
<1>3. CASE Exists(r) /\ Aliased(r, hashes) /\ Ends(p)
  <2>1. Owner(device[r].primary) = V2(p) /\ \A x \in hashes : Owner(x) = V2(p)
    BY <1>1, <1>3, V2Facts DEF LocalOK, Owned
  <2> HIDE DEF r, hashes
  <2>2. Table' /\ Evolves
    BY <1>1, <1>3, <2>1, AliasedTable
  <2>3. call'[p].pc \in {"idle", "record"} /\ call'[p].accepts = "v1 and v2"
    BY <1>3 DEF Ends, Fresh
  <2>4. LocalOK(p)'
    BY <2>3, LocalNone
  <2>5. QED
    BY <1>1, <2>2, <2>4, SlotsStep
<1>4. QED
  BY <1>1, <1>2, <1>3, RegisterAliasFacts

\* The calls that write no row.
LEMMA CallSlots ==
  ASSUME NEW p \in Calls, Typed, Slots, CallAction(p)
  PROVE  Slots'
<1> USE DEF license, history
<1>0. /\ TypeOK /\ Typed' /\ call[p] \in Locals /\ LocalOK(p) /\ Table
      /\ call[p].accepts = "v2" => ~fallback
  BY CallTyped DEF Typed, TypeOK, Slots, LocalOK
<1>1. CASE MatchExact(p)
  BY <1>0, <1>1, MatchExactSlots
<1>2. CASE MatchLegacy(p)
  BY <1>0, <1>2, MatchLegacySlots
<1>3. CASE Reconcile(p)
  BY <1>0, <1>3, ReconcileSlots
<1>4. CASE PromoteAliases(p)
  BY <1>0, <1>4, PromoteAliasesSlots
<1>5. CASE Promote(p)
  BY <1>0, <1>5, PromoteSlots
<1>6. CASE CheckDeviceLimit(p)
  BY <1>0, <1>6, CheckDeviceLimitSlots
<1>7. CASE Register(p)
  BY <1>0, <1>7, RegisterSlots
<1>8. CASE RegisterAlias(p)
  BY <1>0, <1>8, RegisterAliasSlots
<1>9. CASE ReadSubscription(p)
  <2>1. /\ CallStep(p)
        /\ call'[p].accepts = "v2" => ~fallback
        /\ call'[p].pc \in {"idle", "counted", "subscription", "exact", "record", "suspect", "autoblock", "tryV1",
                         "resolve", "deactivate"}
    BY <1>0, <1>9, ReadSubscriptionFacts DEF Refused, Fresh
  <2>2. UNCHANGED <<change, twins, device, fallback>>
    BY <1>9 DEF ReadSubscription
  <2>3. LocalOK(p)'
    BY <2>1, <2>2, LocalNone
  <2>4. QED
    BY <1>0, <2>1, <2>2, <2>3, QuietSlots
<1>10. CASE Malformed(p)
  <2>1. /\ CallStep(p)
        /\ call'[p].accepts = "v2" => ~fallback
        /\ call'[p].pc \in {"idle", "counted", "subscription", "exact", "record", "suspect", "autoblock", "tryV1",
                         "resolve", "deactivate"}
    BY <1>0, <1>10, MalformedFacts DEF Fresh
  <2>2. UNCHANGED <<change, twins, device, fallback>>
    BY <1>10 DEF Malformed
  <2>3. LocalOK(p)'
    BY <2>1, <2>2, LocalNone
  <2>4. QED
    BY <1>0, <2>1, <2>2, <2>3, QuietSlots
<1>11. CASE CheckSuspiciousActivity(p)
  <2>1. /\ CallStep(p)
        /\ call'[p].accepts = "v2" => ~fallback
        /\ call'[p].pc \in {"idle", "counted", "subscription", "exact", "record", "suspect", "autoblock", "tryV1",
                         "resolve", "deactivate"}
    BY <1>0, <1>11, CheckSuspiciousActivityFacts DEF Moves, Ends, Fresh
  <2>2. UNCHANGED <<change, twins, device, fallback>>
    BY <1>11 DEF CheckSuspiciousActivity
  <2>3. LocalOK(p)'
    BY <2>1, <2>2, LocalNone
  <2>4. QED
    BY <1>0, <2>1, <2>2, <2>3, QuietSlots
<1>12. CASE BlockAutomatically(p)
  <2>1. /\ CallStep(p)
        /\ call'[p].accepts = "v2" => ~fallback
        /\ call'[p].pc \in {"idle", "counted", "subscription", "exact", "record", "suspect", "autoblock", "tryV1",
                         "resolve", "deactivate"}
    BY <1>0, <1>12, FinishEnds DEF BlockAutomatically, Fresh
  <2>2. UNCHANGED <<change, twins, device, fallback>>
    BY <1>12 DEF BlockAutomatically
  <2>3. LocalOK(p)'
    BY <2>1, <2>2, LocalNone
  <2>4. QED
    BY <1>0, <2>1, <2>2, <2>3, QuietSlots
<1>13. CASE Transfer(p)
  <2>1. /\ CallStep(p)
        /\ call'[p].accepts = "v2" => ~fallback
        /\ call'[p].pc \in {"idle", "counted", "subscription", "exact", "record", "suspect", "autoblock", "tryV1",
                         "resolve", "deactivate"}
    BY <1>0, <1>13, TransferFacts DEF Fresh
  <2>2. UNCHANGED <<change, twins, device, fallback>>
    BY <1>13 DEF Transfer
  <2>3. LocalOK(p)'
    BY <2>1, <2>2, LocalNone
  <2>4. QED
    BY <1>0, <2>1, <2>2, <2>3, QuietSlots
<1>14. CASE RecordTransfer(p)
  <2>1. /\ CallStep(p)
        /\ call'[p].accepts = "v2" => ~fallback
        /\ call'[p].pc \in {"idle", "counted", "subscription", "exact", "record", "suspect", "autoblock", "tryV1",
                         "resolve", "deactivate"}
    BY <1>0, <1>14, FinishEnds DEF RecordTransfer, Fresh
  <2>2. UNCHANGED <<change, twins, device, fallback>>
    BY <1>14 DEF RecordTransfer
  <2>3. LocalOK(p)'
    BY <2>1, <2>2, LocalNone
  <2>4. QED
    BY <1>0, <2>1, <2>2, <2>3, QuietSlots
<1>15. CASE Deactivate(p)
  <2>1. /\ CallStep(p)
        /\ call'[p].accepts = "v2" => ~fallback
        /\ call'[p].pc \in {"idle", "counted", "subscription", "exact", "record", "suspect", "autoblock", "tryV1",
                         "resolve", "deactivate"}
    BY <1>0, <1>15, DeactivateFacts DEF Deactivating
  <2>2. UNCHANGED <<change, twins, device, fallback>>
    BY <1>15 DEF Deactivate
  <2>3. LocalOK(p)'
    BY <2>1, <2>2, LocalNone
  <2>4. QED
    BY <1>0, <2>1, <2>2, <2>3, QuietSlots
<1>16. CASE TryV1(p)
  <2>1. /\ CallStep(p)
        /\ call'[p].accepts = "v2" => ~fallback
        /\ call'[p].pc \in {"idle", "counted", "subscription", "exact", "record", "suspect", "autoblock", "tryV1",
                         "resolve", "deactivate"}
    BY <1>0, <1>16, TryV1Facts DEF Moves, Ends, Fresh
  <2>2. UNCHANGED <<change, twins, device, fallback>>
    BY <1>16 DEF TryV1
  <2>3. LocalOK(p)'
    BY <2>1, <2>2, LocalNone
  <2>4. QED
    BY <1>0, <2>1, <2>2, <2>3, QuietSlots
<1>17. CASE ResolveDevice(p)
  <2>1. /\ CallStep(p)
        /\ call'[p].accepts = "v2" => ~fallback
        /\ call'[p].pc \in {"idle", "counted", "subscription", "exact", "record", "suspect", "autoblock", "tryV1",
                         "resolve", "deactivate"}
    BY <1>0, <1>17, ResolveDeviceFacts DEF Moves
  <2>2. UNCHANGED <<change, twins, device, fallback>>
    BY <1>17 DEF ResolveDevice
  <2>3. LocalOK(p)'
    BY <2>1, <2>2, LocalNone
  <2>4. QED
    BY <1>0, <2>1, <2>2, <2>3, QuietSlots
<1>18. CASE Validate(p)
  <2>1. PICK f \in Hashes : Start(p, Request(f)) /\ Request(f) \in Locals
    BY <1>18, ValidateFacts
  <2>2. /\ CallStep(p) /\ call'[p].pc \in {"subscription", "suspect"}
        /\ call'[p].accepts = "v2" => ~fallback
    BY <1>0, <2>1, StartOutcome DEF Fresh
  <2>3. UNCHANGED <<change, twins, device, fallback>>
    BY <1>18 DEF Validate
  <2>4. LocalOK(p)'
    BY <2>2, <2>3, LocalNone
  <2>5. QED
    BY <1>0, <2>2, <2>3, <2>4, QuietSlots
<1>19. CASE ValidateTransfer(p)
  <2>1. Start(p, call[p])
    BY <1>19 DEF ValidateTransfer
  <2>2. /\ CallStep(p) /\ call'[p].pc \in {"subscription", "suspect"}
        /\ call'[p].accepts = "v2" => ~fallback
    BY <1>0, <2>1, StartOutcome DEF Fresh
  <2>3. UNCHANGED <<change, twins, device, fallback>>
    BY <1>19 DEF ValidateTransfer
  <2>4. LocalOK(p)'
    BY <2>2, <2>3, LocalNone
  <2>5. QED
    BY <1>0, <2>2, <2>3, <2>4, QuietSlots
<1>20. CASE DeactivateDevice(p)
  <2>1. /\ call[p].target \in Rows \cup {NoRow} /\ Deactivated(call[p].target)
        /\ UNCHANGED <<change, twins, fallback>>
    BY <1>0, <1>20 DEF Locals, DeactivateDevice
  <2>2. Table' /\ Evolves
    BY <1>0, <2>1, DeactivatedFades, FadesFacts
  <2>3. CallStep(p) /\ call'[p].pc = "idle" /\ call'[p].accepts = "v1 and v2"
    BY <1>0, <1>20, FinishEnds DEF DeactivateDevice, Fresh
  <2>4. LocalOK(p)'
    BY <2>3, LocalNone
  <2>5. QED
    BY <1>0, <2>1, <2>2, <2>3, <2>4, SlotsStep
<1>21. QED
  BY <1>1, <1>2, <1>3, <1>4, <1>5, <1>6, <1>7, <1>8, <1>9, <1>10,
     <1>11, <1>12, <1>13, <1>14, <1>15, <1>16, <1>17, <1>18, <1>19, <1>20 DEF CallAction

LEMMA AdminFades ==
  ASSUME Typed, AdminAction
  PROVE  Fades /\ UNCHANGED call
<1> USE DEF license, history
<1>0. TypeOK
  BY DEF Typed
<1>1. CASE DeleteDevice
  <2>1. PICK r \in Rows : Put(r, NoDevice)
    BY <1>1, DeleteFacts
  <2>2. /\ device'[r].state = "none"
        /\ \A s \in Rows : s # r => device'[s] = device[s]
    BY <1>0, <2>1, IdleFacts, PutTyped
  <2>3. UNCHANGED <<fallback, twins, call>>
    BY <1>1 DEF DeleteDevice
  <2>4. QED
    BY <2>2, <2>3 DEF Fades, Exists, Active
<1>2. CASE DeactivateListed
  <2>1. UNCHANGED <<fallback, twins, call>>
    BY <1>2 DEF DeactivateListed
  <2>2. QED
    BY <1>2, <2>1, DeactivateListedFacts, DeactivatedFades
<1>3. CASE Cutoff
  <2>1. UNCHANGED <<twins, call>>
    BY <1>3 DEF Cutoff
  <2>2. QED
    BY <1>3, <2>1, CutoffFacts DEF Fades, Exists, Active
<1>4. CASE ~DeleteDevice /\ ~DeactivateListed /\ ~Cutoff
  <2>1. UNCHANGED <<device, fallback, twins, call>>
    BY <1>4, StartDowngradeFacts, FinishDowngradeFacts
       DEF AdminAction, SetStatus, ResizePlan, StartDowngrade, ListActiveDevices,
           ResolveListed, FinishDowngrade, HourPasses, MonthPasses, Commit
  <2>2. QED
    BY <2>1, SameFades
<1>5. QED
  BY <1>1, <1>2, <1>3, <1>4

LEMMA AdminSlots ==
  ASSUME Typed, Slots, AdminAction
  PROVE  Slots'
<1>1. Typed' /\ Table' /\ Evolves /\ UNCHANGED call
  BY AdminTyped, AdminFades, FadesFacts DEF Slots
<1>2. \A q \in Calls : LocalOK(q)'
  BY <1>1, OthersKeep DEF Slots
<1>3. TodoOK'
  <2>1. CASE ListActiveDevices
    <3> SUFFICES ASSUME NEW r \in Rows, NEW h \in Prints, <<r, h>> \in change'.todo
                 PROVE  Leads(r, h)'
      BY DEF TodoOK
    <3>1. h = device[r].primary /\ UNCHANGED <<device, fallback, twins>>
      BY <2>1, ListFacts DEF ListActiveDevices, license, history
    <3>2. Leads(r, h)
      BY <3>1 DEF Leads, Slots, Table
    <3>3. QED
      BY <3>1, <3>2 DEF Leads, Exists
  <2>2. CASE ~ListActiveDevices
    <3>1. change'.todo \subseteq change.todo
      <4>1. CASE UNCHANGED change
        BY <4>1
      <4>2. CASE ResolveListed
        BY <4>2, ResolveListedFacts
      <4>3. CASE StartDowngrade \/ FinishDowngrade \/ DeactivateListed
        BY <4>3, StartDowngradeFacts, FinishDowngradeFacts, DeactivateListedFacts
      <4>4. QED
        BY <2>2, <4>1, <4>2, <4>3
           DEF AdminAction, SetStatus, DeleteDevice, ResizePlan, Cutoff, HourPasses,
               MonthPasses
    <3>2. QED
      BY <1>1, <3>1, TodoKeeps DEF Slots
  <2>3. QED
    BY <2>1, <2>2
<1>4. QED
  BY <1>1, <1>2, <1>3 DEF Slots

LEMMA InitSlots ==
  ASSUME LInit
  PROVE  Slots
<1>1. Typed
  BY InitTyped
<1>2. ASSUME NEW r \in Rows, Exists(r)
      PROVE  /\ device[r].primary \in Hashes /\ device[r].aliases = {}
             /\ LegacyRow[device[r].primary] = r
  <2>1. device[r] \in {NoDevice} \cup
          [state : {"active", "inactive"}, primary : Hashes, aliases : {{}}]
    BY DEF LInit
  <2>2. device[r] # NoDevice
    BY <1>2, IdleFacts DEF Exists
  <2>3. QED
    BY <1>2, <2>1, <2>2 DEF LInit
<1>3. ASSUME NEW r \in Rows, NEW s \in Rows, Exists(r), Exists(s), r # s,
             Owner(device[r].primary) = Owner(device[s].primary)
      PROVE  Owner(device[r].primary) \in twins
  <2>1. Owner(device[r].primary) \in Machines
    BY <1>1, RowFacts, OwnerFacts
  <2>2. QED
    BY <1>3, <2>1 DEF LInit
<1>4. Table
  BY <1>2, <1>3 DEF Table
<1>5. \A p \in Calls : LocalOK(p)
  BY IdleFacts DEF LInit, LocalOK, Owned, Covered, Aliases, Unmatched
<1>6. TodoOK
  BY DEF LInit, NoChange, TodoOK
<1>7. QED
  BY <1>4, <1>5, <1>6 DEF Slots

LEMMA SlotsInductive == LSpec => [](Typed /\ Slots)
<1>1. LInit => Slots
  BY InitSlots
<1>2. Typed /\ Slots /\ [LNext]_lvars => Slots'
  <2>1. CASE Typed /\ Slots /\ UNCHANGED lvars
    <3>1. UNCHANGED <<device, fallback, twins, call, change>> /\ Typed /\ Typed' /\ Slots
      BY <2>1, Stutter DEF Typed, TypeOK, Targets
    <3>2. Table' /\ Evolves
      BY <3>1, SameFades, FadesFacts DEF Slots
    <3>3. \A q \in Calls : LocalOK(q)'
      BY <3>1, <3>2, OthersKeep DEF Slots
    <3>4. TodoOK'
      BY <3>1, <3>2, TodoKeeps DEF Slots
    <3>5. QED
      BY <3>2, <3>3, <3>4 DEF Slots
  <2>2. QED
    BY <2>1, CallSlots, AdminSlots, NextIs
<1>3. QED
  BY <1>1, <1>2, TypedInductive, PTL DEF LSpec

\* While v1 hashes are accepted a machine takes one place of the plan.
THEOREM OneSlot == LSpec => []OneSlotPerMachine
<1>1. Typed /\ Slots => OneSlotPerMachine
  <2> SUFFICES ASSUME Typed, Slots, fallback, NEW r \in Rows, NEW s \in Rows,
                      Active(r), Exists(s), r # s,
                      Owner(device[r].primary) = Owner(device[s].primary),
                      Owner(device[r].primary) \notin twins
               PROVE  ~Active(s) /\ device[r].primary \notin Hashes
    BY DEF OneSlotPerMachine
  <2>1. Exists(r) /\ Table
    BY RowFacts DEF Slots
  <2>2. device[r].primary \notin Hashes
    BY <2>1 DEF Table
  <2>3. ASSUME Active(s)
        PROVE  FALSE
    <3>1. device[s].primary \notin Hashes
      BY <2>1, <2>3 DEF Table
    <3>2. device[r].primary = device[s].primary
      BY <2>2, <3>1, RowFacts, OwnerFacts
    <3>3. QED
      BY <2>1, <3>2 DEF Table
  <2>4. QED
    BY <2>2, <2>3
<1>2. QED
  BY <1>1, SlotsInductive, PTL

\* A plan change that looks for a listed row finds no other row: before the
\* cutoff it finds the row, after it the row or nothing.
LEMMA Reaches ==
  ASSUME Typed, Slots, NEW r \in Rows, NEW h \in Prints, <<r, h>> \in change.todo,
         NEW s \in Resolved(h), Active(r), fallback => Owner(device[r].primary) \notin twins
  PROVE  s = r \/ (~fallback /\ device[r].primary = Owner(device[r].primary) /\ s = NoRow)
<1>1. Exists(r) /\ Leads(r, h) /\ Table
  BY RowFacts DEF Slots, TodoOK
<1>2. CASE fallback
  <2>1. h \in {device[r].primary} \cup device[r].aliases
    BY <1>1, <1>2 DEF Leads
  <2>2. r \in Answering(h)
    BY <1>1, <2>1 DEF Answering
  <2>3. s \in Rows /\ Exists(s) /\ h \in {device[s].primary} \cup device[s].aliases
    BY <2>2 DEF Resolved, Answering
  <2>4. ASSUME s # r
        PROVE  FALSE
    <3>1. Owner(h) = Owner(device[r].primary) /\ Owner(h) = Owner(device[s].primary)
      BY <1>1, <2>1, <2>3 DEF Table
    <3>2. device[r].primary \notin Hashes
      BY <1>1, <1>2, <2>3, <2>4, <3>1 DEF Table
    <3>3. CASE h \in Hashes
      <4>1. device[s].primary \notin Hashes
        BY <1>1, <1>2, <2>3, <2>4, <3>1, <3>3 DEF Leads
      <4>2. device[r].primary \in Prints /\ device[s].primary \in Prints
        BY <2>3, RowFacts
      <4>3. /\ Owner(device[r].primary) = device[r].primary
            /\ Owner(device[s].primary) = device[s].primary
        BY <3>2, <4>1, <4>2, OwnerFacts
      <4>4. device[r].primary = device[s].primary
        BY <3>1, <4>3
      <4>5. QED
        BY <1>1, <2>3, <2>4, <4>4 DEF Table
    <3>4. CASE h \notin Hashes
      <4>1. device[r].primary = h /\ device[s].primary = h
        BY <2>1, <2>3, <3>4, RowFacts
      <4>2. QED
        BY <1>1, <2>3, <2>4, <4>1 DEF Table
    <3>5. QED
      BY <3>3, <3>4
  <2>5. QED
    BY <2>4
<1>3. CASE ~fallback
  <2>1. \A q \in Answering(h) : q \in Rows /\ Exists(q) /\ device[q].primary = h
    BY <1>1, <1>3 DEF Answering, Table
  <2>2. CASE device[r].primary = h
    <3>1. r \in Answering(h)
      BY <1>1, <2>2 DEF Answering
    <3>2. s \in Rows /\ Exists(s) /\ device[s].primary = h
      BY <2>1, <3>1 DEF Resolved
    <3>3. QED
      BY <1>1, <2>2, <3>2 DEF Table
  <2>3. CASE device[r].primary # h
    <3>1. device[r].primary = Owner(h) /\ h \in Hashes
      BY <1>1, <2>3, OwnerFacts DEF Leads
    <3>2. Answering(h) = {}
      BY <1>1, <2>1, <2>3, <3>1 DEF Leads
    <3>3. s = NoRow
      BY <3>2 DEF Resolved
    <3>4. QED
      BY <1>3, <3>1, <3>3, OwnerFacts
  <2>4. QED
    BY <2>2, <2>3
<1>4. QED
  BY <1>2, <1>3

\* A downgrade deactivates no other row in place of a listed one that is in
\* use.  It finds the listed row by the hash it listed, except that after the
\* cutoff it finds nothing for a row that was promoted since; and except for
\* machines with two v1 rows from the start, of which nothing is claimed
\* before the cutoff (deactivateAllDevices, resolveDeviceByAnyHash).
THEOREM DowngradeFinds == LSpec => DowngradeReaches
<1> DEFINE Found ==
      ResolveListed =>
        LET listed == change'.listed
            machine == Owner(device[listed].primary)
        IN Active(listed) /\ (fallback => machine \notin twins) =>
             \/ change'.found = listed
             \/ ~fallback /\ device[listed].primary = machine /\ change'.found = NoRow
<1>1. Typed /\ Slots => Found
  <2> SUFFICES ASSUME Typed, Slots, ResolveListed, Active(change'.listed),
                      fallback => Owner(device[change'.listed].primary) \notin twins
               PROVE  \/ change'.found = change'.listed
                      \/ /\ ~fallback /\ change'.found = NoRow
                         /\ device[change'.listed].primary
                              = Owner(device[change'.listed].primary)
    OBVIOUS
  <2>1. PICK entry \in change.todo : \E s \in Resolved(entry[2]) :
          /\ entry[1] \in Rows /\ entry[2] \in Prints /\ entry = <<entry[1], entry[2]>>
          /\ change'.listed = entry[1] /\ change'.found = s
    BY ResolveListedFacts
  <2>2. PICK s \in Resolved(entry[2]) :
          /\ entry[1] \in Rows /\ entry[2] \in Prints /\ entry = <<entry[1], entry[2]>>
          /\ change'.listed = entry[1] /\ change'.found = s
    BY <2>1
  <2> DEFINE r == entry[1]
             h == entry[2]
  <2>3. /\ r \in Rows /\ h \in Prints /\ <<r, h>> \in change.todo /\ s \in Resolved(h)
        /\ change'.listed = r /\ change'.found = s
    BY <2>2
  <2> HIDE DEF r, h
  <2>4. QED
    BY <2>3, Reaches
<1>2. Typed /\ Slots => [Found]_lvars
  BY <1>1
<1>3. LSpec => [][Found]_lvars
  BY <1>2, SlotsInductive, PTL
<1>4. QED
  BY <1>3 DEF DowngradeReaches

=============================================================================
