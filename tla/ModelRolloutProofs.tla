------------------------- MODULE ModelRolloutProofs -------------------------
(***************************************************************************)
(* Rollouts over the catalog, for every set of controllers, operators,     *)
(* rollouts, aliases and entries: types, the chain of each alias, the      *)
(* abstract pointer, the event log, what a promotion and a rollback mean   *)
(* although other requests commit between their steps, and what it takes   *)
(* to keep the routes of the provider available.                           *)
(*                                                                         *)
(* Nothing a controller holds is fresh.  What stays true of a record it    *)
(* loaded long ago is about rows, and rows only get superseded; what stays *)
(* true of an operation in flight is that it read the last-known-good (or  *)
(* the activated) row, unless the alias has moved on: then its revision is *)
(* behind and the commit refuses.                                          *)
(***************************************************************************)
EXTENDS ModelRollout, AliasCatalogProofs

----------------------------------------------------------------------------
(* The invariant.                                                          *)

\* The row k is the promotion of the record.
PromotionRow(s, record, k) ==
    /\ k \in 1..Len(s) /\ s[k].alias = record.alias
    /\ s[k].catalog = record.candidate /\ s[k].previous = record.lkg

\* The row k undoes the promotion.
RestoredRow(s, record, k) ==
    /\ k \in 1..Len(s)
    /\ s[k].previous = record.activated /\ s[k].catalog = s[record.lkg].catalog

\* The promotion is marked as rolled back.
Undone(s, record) == s[record.activated].state = "ROLLED_BACK"

RecordOK(s, record) ==
    /\ record \in ModelRolloutRecord
    /\ record.lkg \in 1..Len(s)
    /\ record.state \in {"ACTIVE", "ROLLED_BACK"} => PromotionRow(s, record, record.activated)
    /\ record.state = "ROLLED_BACK" => Undone(s, record) /\ \E k : RestoredRow(s, record, k)

LogOK(log, record) ==
    /\ Len(log) = record.revision
    /\ log[Len(log)].to = record.state
    /\ \A i \in 1..Len(log) :
        /\ log[i].revision = i
        /\ log[i].from = IF i = 1 THEN "NONE" ELSE log[i - 1].to

TableOK(table, logs, s) ==
    /\ table \in [Rollouts -> ModelRolloutRecord \cup {NoRollout}]
    /\ logs \in [Rollouts -> Seq(Event)]
    /\ \A r \in Rollouts :
        IF table[r] = NoRollout THEN logs[r] = <<>>
        ELSE RecordOK(s, table[r]) /\ LogOK(logs[r], table[r])

\* The request q of a controller that promotes or restores the record.
PromotingOK(s, record, q) ==
    \/ /\ q.step = "replace" /\ q.alias = record.alias /\ q.catalog = record.candidate
       /\ KnowsRow(s, record.alias, q.revision, record.lkg)
    \/ q.step = "refused"
    \/ q.step = "returned" /\ PromotionRow(s, record, q.binding)

RestoringOK(s, record, q) ==
    /\ record.state = "ACTIVE"
    /\ \/ /\ q.step = "replace" /\ q.alias = record.alias
          /\ q.catalog = s[record.lkg].catalog /\ q.prior = "ROLLED_BACK"
          /\ KnowsRow(s, record.alias, q.revision, record.activated)
       \/ q.step = "refused"
       \/ q.step = "returned" /\ RestoredRow(s, record, q.binding) /\ Undone(s, record)

HeldOK(h, q, s, table) ==
    /\ h \in Held
    /\ h.step # "drift"
    /\ h.step # "none" => RecordOK(s, h.record) /\ table[h.rollout] # NoRollout
    /\ h.step = "promoting" => PromotingOK(s, h.record, q)
    /\ h.step = "restoring" => RestoringOK(s, h.record, q)

HeldsOK(helds, calls, s, table) ==
    /\ helds \in [Controllers -> Held]
    /\ \A p \in Controllers : HeldOK(helds[p], calls[p], s, table)

Inv ==
    /\ CatalogInv
    /\ TableOK(rollouts, events, bindings)
    /\ HeldsOK(held, call, bindings, rollouts)

----------------------------------------------------------------------------
(* Shapes.                                                                 *)

LEMMA RecordShape ==
    ASSUME NEW record \in ModelRolloutRecord
    PROVE  /\ record.state \in ROLLOUT_STATES /\ record.revision \in 1..MaxRevision
           /\ record.alias \in Aliases /\ record.candidate \in Catalogs
           /\ record.lkg \in 1..MaxBindings /\ record.activated \in 0..MaxBindings
           /\ record.canary \in {"NONE", "RUNNING", "PASSED", "FAILED"}
           /\ record # NoRollout
  BY DEF ModelRolloutRecord, NoRollout, ROLLOUT_STATES

LEMMA HeldShape ==
    ASSUME NEW h \in Held
    PROVE  /\ h.step \in {"none", "drift", "loaded", "changed", "promoting", "restoring"}
           /\ h.step \notin {"none", "drift"} =>
               h.rollout \in Rollouts /\ h.record \in ModelRolloutRecord /\ h.decision \in BOOLEAN
  BY DEF Held

\* f is the record after one transition.
Updated(f, record, y, k) ==
    /\ f \in ModelRolloutRecord
    /\ f.state = y /\ f.activated = k /\ f.revision = record.revision + 1
    /\ f.alias = record.alias /\ f.candidate = record.candidate /\ f.lkg = record.lkg

\* The records that the transitions write.
Bumped(record) == [record EXCEPT !.revision = @ + 1]
ToState(record, y) == [record EXCEPT !.state = y]
ToCanary(record, y, z) == [record EXCEPT !.state = y, !.canary = z]
ToVerdict(record, z) == [record EXCEPT !.canary = z]
ToActive(record, k) == [record EXCEPT !.state = "ACTIVE", !.activated = k]

LEMMA RecordChanges ==
    ASSUME NEW record \in ModelRolloutRecord, NEW y \in ROLLOUT_STATES,
           NEW z \in {"NONE", "RUNNING", "PASSED", "FAILED"}, NEW k \in 0..MaxBindings,
           record.revision < MaxRevision
    PROVE  /\ Updated(Bumped(ToState(record, y)), record, y, record.activated)
           /\ Updated(Bumped(ToCanary(record, y, z)), record, y, record.activated)
           /\ Updated(Bumped(ToVerdict(record, z)), record, record.state, record.activated)
           /\ Updated(Bumped(ToActive(record, k)), record, "ACTIVE", k)
  <1>1. record.revision + 1 \in 1..MaxRevision
    BY RecordShape, RolloutAssumption
  <1>2. Updated(Bumped(ToState(record, y)), record, y, record.activated)
    BY <1>1 DEF Updated, ModelRolloutRecord, Bumped, ToState
  <1>3. Updated(Bumped(ToCanary(record, y, z)), record, y, record.activated)
    BY <1>1 DEF Updated, ModelRolloutRecord, Bumped, ToCanary
  <1>4. Updated(Bumped(ToVerdict(record, z)), record, record.state, record.activated)
    BY <1>1 DEF Updated, ModelRolloutRecord, Bumped, ToVerdict
  <1>5. Updated(Bumped(ToActive(record, k)), record, "ACTIVE", k)
    BY <1>1 DEF Updated, ModelRolloutRecord, ROLLOUT_STATES, Bumped, ToActive
  <1> QED
    BY <1>2, <1>3, <1>4, <1>5

\* What a controller holds after a transition, and after a change of step.
WithRecord(h, f, d) == [h EXCEPT !.step = "changed", !.record = f, !.decision = d]

WithStep(h, y) == [h EXCEPT !.step = y]

LEMMA ChangedHeld ==
    ASSUME NEW h \in Held, h.step \notin {"none", "drift"}, NEW f \in ModelRolloutRecord,
           NEW d \in BOOLEAN,
           NEW g, g = WithRecord(h, f, d)
    PROVE  g \in Held /\ g.step = "changed" /\ g.record = f /\ g.rollout = h.rollout
  <1>1. h \in [step : {"loaded", "changed", "promoting", "restoring"}, rollout : Rollouts,
               record : ModelRolloutRecord, decision : BOOLEAN]
    BY DEF Held
  <1>2. g \in [step : {"loaded", "changed", "promoting", "restoring"}, rollout : Rollouts,
               record : ModelRolloutRecord, decision : BOOLEAN]
        /\ g.step = "changed" /\ g.record = f /\ g.rollout = h.rollout
    BY <1>1 DEF WithRecord
  <1> QED
    BY <1>2 DEF Held

LEMMA SteppedHeld ==
    ASSUME NEW h \in Held, h.step \notin {"none", "drift"},
           NEW y \in {"loaded", "changed", "promoting", "restoring"},
           NEW g, g = WithStep(h, y)
    PROVE  g \in Held /\ g.step = y /\ g.record = h.record /\ g.rollout = h.rollout
  <1>1. h \in [step : {"loaded", "changed", "promoting", "restoring"}, rollout : Rollouts,
               record : ModelRolloutRecord, decision : BOOLEAN]
    BY DEF Held
  <1>2. g \in [step : {"loaded", "changed", "promoting", "restoring"}, rollout : Rollouts,
               record : ModelRolloutRecord, decision : BOOLEAN]
        /\ g.step = y /\ g.record = h.record /\ g.rollout = h.rollout
    BY <1>1 DEF WithStep
  <1> QED
    BY <1>2 DEF Held

LEMMA LoadedHeld ==
    ASSUME NEW r \in Rollouts, NEW record \in ModelRolloutRecord, NEW d \in BOOLEAN
    PROVE  LET g == Loaded(r, record, d) IN
           g \in Held /\ g.step = "loaded" /\ g.record = record /\ g.rollout = r
  BY DEF Loaded, Held

LEMMA NothingHeld ==
    \A q, s, table : HeldOK(NoHeld, q, s, table)
  BY DEF HeldOK, NoHeld, Held
----------------------------------------------------------------------------
(* What stays true while other requests commit.                            *)

LEMMA RecordStable ==
    ASSUME NEW s, NEW t, Prefix(s, t), Fine(s), Fine(t), NEW record, RecordOK(s, record)
    PROVE  RecordOK(t, record)
  <1>1. Len(s) \in Nat /\ Len(t) \in Nat /\ Len(s) <= Len(t)
    BY Domain DEF Prefix
  <1>2. \A i \in 1..Len(s) :
            /\ i \in 1..Len(t) /\ t[i].alias = s[i].alias /\ t[i].catalog = s[i].catalog
            /\ t[i].previous = s[i].previous
            /\ s[i].state = "ROLLED_BACK" => t[i].state = "ROLLED_BACK"
    BY <1>1 DEF Prefix
  <1>3. record \in ModelRolloutRecord /\ record.lkg \in 1..Len(s) /\ record.lkg \in 1..Len(t)
    BY <1>2 DEF RecordOK
  <1>4. \A k : PromotionRow(s, record, k) => PromotionRow(t, record, k)
    BY <1>2 DEF PromotionRow
  <1>5. \A k : RestoredRow(s, record, k) => RestoredRow(t, record, k)
    BY <1>2, <1>3 DEF RestoredRow
  <1>6. PromotionRow(s, record, record.activated) /\ Undone(s, record) => Undone(t, record)
    BY <1>2 DEF PromotionRow, Undone
  <1> QED
    BY <1>3, <1>4, <1>5, <1>6 DEF RecordOK

\* What a commit keeps for everybody else.
Carries(s, t) ==
    /\ Fine(s) /\ Fine(t) /\ Prefix(s, t)
    /\ \A b, m, j : m \in Nat /\ KnowsRow(s, b, m, j) => KnowsRow(t, b, m, j)

LEMMA HeldStable ==
    ASSUME NEW s, NEW t, Carries(s, t), NEW h, NEW q \in Call, NEW table, HeldOK(h, q, s, table)
    PROVE  HeldOK(h, q, t, table)
  <1> DEFINE record == h.record
  <1>1. \A i \in 1..Len(s) :
            /\ i \in 1..Len(t) /\ t[i].alias = s[i].alias /\ t[i].catalog = s[i].catalog
            /\ t[i].previous = s[i].previous
            /\ s[i].state = "ROLLED_BACK" => t[i].state = "ROLLED_BACK"
    BY Domain DEF Prefix, Carries
  <1>2. q.step = "replace" => q.revision \in Nat
    BY CallShape, CatalogAssumption
  <1>3. ASSUME h.step # "none" PROVE RecordOK(t, record) /\ RecordOK(s, record)
    BY <1>3, RecordStable DEF HeldOK, Carries
  <1>4. ASSUME h.step = "promoting" PROVE PromotingOK(t, record, q)
    <2>1. PromotionRow(s, record, q.binding) => PromotionRow(t, record, q.binding)
      BY <1>1 DEF PromotionRow
    <2> QED
      BY <1>2, <1>4, <2>1 DEF HeldOK, PromotingOK, Carries
  <1>5. ASSUME h.step = "restoring" PROVE RestoringOK(t, record, q)
    <2>1. RecordOK(s, record) /\ RestoringOK(s, record, q)
      BY <1>3, <1>5 DEF HeldOK
    <2>2. record.lkg \in 1..Len(s) /\ record.activated \in 1..Len(s) /\ record.state = "ACTIVE"
      BY <2>1 DEF RecordOK, RestoringOK, PromotionRow
    <2>3. RestoredRow(s, record, q.binding) => RestoredRow(t, record, q.binding)
      BY <1>1, <2>2 DEF RestoredRow
    <2>4. Undone(s, record) => Undone(t, record)
      BY <1>1, <2>2 DEF Undone
    <2>5. t[record.lkg].catalog = s[record.lkg].catalog
      BY <1>1, <2>2
    <2> QED
      BY <1>2, <2>1, <2>2, <2>3, <2>4, <2>5 DEF RestoringOK, Carries
  <1> QED
    BY <1>3, <1>4, <1>5 DEF HeldOK

LEMMA TableStable ==
    ASSUME NEW s, NEW t, Carries(s, t), NEW table, NEW logs, TableOK(table, logs, s)
    PROVE  TableOK(table, logs, t)
  BY RecordStable DEF TableOK, Carries

LEMMA Committing ==
    ASSUME CatalogInv, NEW p \in Clients, CatalogInv', Committed(p)
    PROVE  Carries(bindings, bindings')
  BY DEF Committed, Carries, CatalogInv

\* The commit finds the row that the request knew.
LEMMA KnownRowIs ==
    ASSUME Fine(bindings), NEW a \in Aliases, NEW m, NEW j,
           KnowsRow(bindings, a, m, j), ActiveRevision(a) = m
    PROVE  ActiveBinding(a) = j
  <1>1. PICK k : Tip(bindings, a, k) /\ (m = bindings[k].revision => j = k)
    BY DEF KnowsRow
  <1> QED
    BY <1>1, Reads DEF ReadsRight

LEMMA CommittedHeld ==
    ASSUME Inv, NEW p \in Controllers, CatalogInv', call[p].step = "replace", Committed(p)
    PROVE  HeldOK(held[p], call'[p], bindings', rollouts)
  <1> DEFINE h == held[p]
             record == h.record
             n == Len(bindings) + 1
  <1>1. /\ HeldOK(h, call[p], bindings, rollouts) /\ p \in Clients /\ call[p] \in Call
        /\ CatalogInv /\ Fine(bindings) /\ Len(bindings) \in Nat
    BY Domain DEF Inv, HeldsOK, CatalogInv, CallsOK, Clients
  <1>2. call'[p] = [step |-> "returned", binding |-> n]
    BY <1>1, CatalogAssumption, OthersCalls DEF Committed
  <1>3. Carries(bindings, bindings')
    BY <1>1, Committing
  <1>4. ASSUME h.step # "none" PROVE RecordOK(bindings', record) /\ RecordOK(bindings, record)
    BY <1>1, <1>3, <1>4, RecordStable DEF HeldOK, Carries
  <1>5. PICK a, k, c : /\ a = call[p].alias /\ k = ActiveBinding(a) /\ c = call[p].catalog
                       /\ a \in Aliases
    BY <1>1, CallShape
  <1>6. /\ Len(bindings') = n /\ Tip(bindings', a, n) /\ bindings'[n].catalog = c
        /\ bindings'[n].previous = k /\ ActiveRevision(a) = call[p].revision
        /\ n \in 1..Len(bindings') /\ bindings'[n].alias = a
        /\ \A i \in 1..Len(bindings) :
            bindings'[i].state = IF i = k THEN call[p].prior ELSE bindings[i].state
    BY <1>1, <1>5 DEF Committed, Tip
  <1>7. ASSUME h.step = "promoting" PROVE PromotingOK(bindings', record, call'[p])
    <2>1. a = record.alias /\ c = record.candidate
          /\ KnowsRow(bindings, a, call[p].revision, record.lkg)
      BY <1>1, <1>5, <1>7 DEF HeldOK, PromotingOK
    <2>2. k = record.lkg
      BY <1>1, <1>5, <1>6, <2>1, KnownRowIs
    <2>3. PromotionRow(bindings', record, n)
      BY <1>6, <2>1, <2>2 DEF PromotionRow
    <2> QED
      BY <1>2, <2>3 DEF PromotingOK
  <1>8. ASSUME h.step = "restoring" PROVE RestoringOK(bindings', record, call'[p])
    <2>1. /\ a = record.alias /\ c = bindings[record.lkg].catalog /\ call[p].prior = "ROLLED_BACK"
          /\ KnowsRow(bindings, a, call[p].revision, record.activated) /\ record.state = "ACTIVE"
      BY <1>1, <1>5, <1>8 DEF HeldOK, RestoringOK
    <2>2. k = record.activated
      BY <1>1, <1>5, <1>6, <2>1, KnownRowIs
    <2>3. record.lkg \in 1..Len(bindings) /\ record.activated \in 1..Len(bindings)
      BY <1>4, <1>8, <2>1 DEF RecordOK, PromotionRow
    <2>4. bindings'[record.lkg].catalog = bindings[record.lkg].catalog
      BY <1>3, <2>3 DEF Carries, Prefix
    <2>5. RestoredRow(bindings', record, n)
      BY <1>6, <2>1, <2>2, <2>4 DEF RestoredRow
    <2>6. Undone(bindings', record)
      BY <1>6, <2>1, <2>2, <2>3 DEF Undone
    <2> QED
      BY <1>2, <2>1, <2>5, <2>6 DEF RestoringOK
  <1> QED
    BY <1>1, <1>4, <1>7, <1>8 DEF HeldOK
----------------------------------------------------------------------------
(* The steps of the catalog.                                               *)

LEMMA CatalogNextKeeps ==
    ASSUME Inv, CatalogNext, UNCHANGED rolloutVars
    PROVE  Inv' /\ StepOK
  <1>1. StepOK /\ CatalogInv' /\ CatalogInv
    BY CatalogNextStep DEF StepOK, Inv
  <1>2. UNCHANGED <<rollouts, events, held>>
    BY DEF rolloutVars
  <1>3. ASSUME Quiet PROVE Inv'
    <2>1. UNCHANGED bindings
      BY <1>3 DEF Quiet
    <2>2. ASSUME NEW r \in Controllers PROVE HeldOK(held[r], call'[r], bindings, rollouts)
      <3>1. HeldOK(held[r], call[r], bindings, rollouts)
        BY DEF Inv, HeldsOK
      <3>2. CASE call'[r] = call[r]
        BY <3>1, <3>2
      <3>3. CASE call[r].step = "update"
        <4>1. held[r].step \notin {"promoting", "restoring"}
          BY <3>1, <3>3 DEF HeldOK, PromotingOK, RestoringOK
        <4> QED
          BY <3>1, <4>1 DEF HeldOK
      <3> QED
        BY <1>3, <3>2, <3>3 DEF Quiet
    <2> QED
      BY <1>1, <1>2, <2>1, <2>2 DEF Inv, HeldsOK
  <1>4. ASSUME NEW p \in Clients, call[p].step = "replace", Committed(p) PROVE Inv'
    <2>1. Carries(bindings, bindings')
      BY <1>1, <1>4, Committing
    <2>2. TableOK(rollouts, events, bindings')
      BY <2>1, TableStable DEF Inv
    <2>3. ASSUME NEW r \in Controllers PROVE HeldOK(held[r], call'[r], bindings', rollouts)
      <3>1. CASE r = p
        BY <1>1, <1>4, <3>1, CommittedHeld
      <3>2. CASE r # p
        <4>1. call'[r] = call[r] /\ call[r] \in Call
          BY <1>1, <1>4, <3>2, OthersCalls DEF Committed, CatalogInv, CallsOK, Clients
        <4>2. HeldOK(held[r], call[r], bindings, rollouts)
          BY DEF Inv, HeldsOK
        <4> QED
          BY <2>1, <4>1, <4>2, HeldStable
      <3> QED
        BY <3>1, <3>2
    <2> QED
      BY <1>1, <1>2, <2>2, <2>3 DEF Inv, HeldsOK
  <1>5. ASSUME NEW p \in Clients, call[p].step = "replace", NotCommitted(p) PROVE Inv'
    <2>1. UNCHANGED bindings
      BY <1>5 DEF NotCommitted
    <2>2. ASSUME NEW r \in Controllers PROVE HeldOK(held[r], call'[r], bindings, rollouts)
      <3>1. HeldOK(held[r], call[r], bindings, rollouts) /\ r \in Clients /\ r \notin Operators
        BY CatalogAssumption DEF Inv, HeldsOK, Clients
      <3>2. CASE r = p
        <4>1. call'[r].step = "refused"
          BY <1>1, <1>5, <3>1, <3>2, OthersCalls DEF NotCommitted, Refused
        <4> QED
          BY <3>1, <4>1 DEF HeldOK, PromotingOK, RestoringOK
      <3>3. CASE r # p
        <4>1. call'[r] = call[r]
          BY <1>1, <1>5, <3>1, <3>3, OthersCalls DEF NotCommitted
        <4> QED
          BY <3>1, <4>1
      <3> QED
        BY <3>2, <3>3
    <2> QED
      BY <1>1, <1>2, <2>1, <2>2 DEF Inv, HeldsOK
  <1> QED
    BY <1>1, <1>3, <1>4, <1>5, CatalogNextStep

----------------------------------------------------------------------------
(* The steps of a controller.                                              *)

LEMMA CatalogKept ==
    ASSUME CatalogInv, UNCHANGED catalogVars PROVE StepOK
  <1>1. CatalogInv' /\ CatalogMoves /\ UNCHANGED bindings
    BY DEF catalogVars, CatalogInv, CatalogMoves
  <1> QED
    BY <1>1, SamePrefix, SameAliases DEF StepOK, CatalogInv

\* A controller holds something else from here on, and may have a request.
LEMMA HoldStep ==
    ASSUME Inv, StepOK, UNCHANGED <<bindings, rollouts, events>>,
           NEW p \in Controllers, NEW q, NEW g, HeldOK(g, q, bindings, rollouts),
           held' = [held EXCEPT ![p] = g],
           \A r \in Controllers : call'[r] = IF r = p THEN q ELSE call[r]
    PROVE  Inv'
  <1>1. held \in [Controllers -> Held] /\ g \in Held
    BY DEF Inv, HeldsOK, HeldOK
  <1>2. held' \in [Controllers -> Held]
        /\ \A r \in Controllers : held'[r] = IF r = p THEN g ELSE held[r]
    BY <1>1
  <1>3. HeldsOK(held', call', bindings, rollouts)
    BY <1>2 DEF Inv, HeldsOK
  <1> QED
    BY <1>3 DEF Inv, StepOK

\* The same, for the steps that neither make nor end a request.
LEMMA OwnStep ==
    ASSUME Inv, UNCHANGED <<catalogVars, rollouts, events>>,
           NEW p \in Controllers, NEW g, HeldOK(g, call[p], bindings, rollouts),
           held' = [held EXCEPT ![p] = g]
    PROVE  Inv' /\ StepOK
  <1>1. StepOK
    BY CatalogKept DEF Inv
  <1>2. UNCHANGED bindings /\ \A r \in Controllers : call'[r] = IF r = p THEN call[p] ELSE call[r]
    BY DEF catalogVars
  <1> QED
    BY <1>1, <1>2, HoldStep

\* The same, for the steps that read an answer.
LEMMA AnsweredStep ==
    ASSUME Inv, NEW p \in Controllers, call' = [call EXCEPT ![p] = Idle],
           UNCHANGED <<catalog, bindings, rollouts, events>>,
           NEW g, HeldOK(g, Idle, bindings, rollouts), held' = [held EXCEPT ![p] = g]
    PROVE  Inv' /\ StepOK
  <1>1. p \in Clients /\ \A r \in Controllers : r \in Clients
    BY DEF Clients
  <1>2. StepOK
    BY <1>1, CallStepOK, PlainCallOK DEF Inv
  <1>3. \A r \in Controllers : call'[r] = IF r = p THEN Idle ELSE call[r]
    BY <1>1, OthersCalls DEF Inv
  <1> QED
    BY <1>2, <1>3, HoldStep

LEMMA HeldNow ==
    ASSUME Inv, NEW p \in Controllers
    PROVE  /\ held[p] \in Held /\ HeldOK(held[p], call[p], bindings, rollouts)
           /\ held[p].step \notin {"none", "drift"} =>
               /\ RecordOK(bindings, held[p].record) /\ rollouts[held[p].rollout] # NoRollout
               /\ held[p].record \in ModelRolloutRecord /\ held[p].rollout \in Rollouts
  BY HeldShape DEF Inv, HeldsOK, HeldOK

\* A transition that keeps the record true.
LEMMA ChangeHolds ==
    ASSUME Inv, NEW p \in Controllers, held[p].step \notin {"none", "drift"},
           NEW f, RecordOK(bindings, f), NEW d \in BOOLEAN, NEW q, NEW g,
           g = WithRecord(held[p], f, d)
    PROVE  HeldOK(g, q, bindings, rollouts)
  <1>0. held[p] \in Held /\ f \in ModelRolloutRecord
    BY HeldNow DEF RecordOK
  <1>1. g \in Held /\ g.step = "changed" /\ g.record = f /\ g.rollout = held[p].rollout
    BY <1>0, ChangedHeld
  <1> QED
    BY <1>1, HeldNow DEF HeldOK

\* A transition that does not touch what the record says of the alias.
LEMMA PlainUpdate ==
    ASSUME NEW s, NEW record, RecordOK(s, record), NEW f,
           NEW y \in ROLLOUT_STATES \ {"ACTIVE", "ROLLED_BACK"}, NEW k, Updated(f, record, y, k)
    PROVE  RecordOK(s, f)
  BY DEF Updated, RecordOK
LEMMA RegisterRolloutKeeps ==
    ASSUME Inv, NEW p \in Controllers, NEW r \in Rollouts, NEW a \in Aliases, NEW c \in Catalogs,
           RegisterRollout(p, r, a, c)
    PROVE  Inv' /\ StepOK
  <1> DEFINE record(b) == [state |-> "REGISTERED", revision |-> 1, alias |-> a, candidate |-> c,
                           lkg |-> b, canary |-> "NONE", activated |-> NoBinding]
             event == [from |-> "NONE", to |-> "REGISTERED", revision |-> 1]
  <1>0. PICK b \in DOMAIN bindings :
            /\ rollouts' = [rollouts EXCEPT ![r] = record(b)]
            /\ events' = Logged(r, "NONE", record(b))
            /\ held' = [held EXCEPT ![p] = Loaded(r, record(b), FALSE)]
    BY DEF RegisterRollout
  <1> DEFINE rec == record(b)
             g == Loaded(r, rec, FALSE)
  <1>1. StepOK /\ UNCHANGED <<catalog, bindings, call>>
    BY CatalogKept DEF RegisterRollout, Inv, catalogVars
  <1>2. Fine(bindings) /\ Len(bindings) \in Nat
    BY Domain DEF Inv, CatalogInv
  <1>3. b \in 1..Len(bindings) /\ b \in 1..MaxBindings
    BY <1>0, <1>2, Domain, CatalogAssumption DEF Fine
  <1>4. /\ rec \in ModelRolloutRecord /\ rec.state = "REGISTERED" /\ rec.revision = 1
        /\ rec.lkg = b
    BY <1>3, RolloutAssumption, CatalogAssumption DEF ModelRolloutRecord, ROLLOUT_STATES, NoBinding
  <1>5. event \in Event /\ event.from = "NONE" /\ event.to = "REGISTERED" /\ event.revision = 1
    BY RolloutAssumption DEF Event, ROLLOUT_STATES
  <1>6. /\ rollouts' = [rollouts EXCEPT ![r] = rec]
        /\ events' = [events EXCEPT ![r] = Append(@, event)]
        /\ held' = [held EXCEPT ![p] = g] /\ rollouts[r] = NoRollout
    BY <1>0 DEF RegisterRollout, Logged
  <1>7. /\ rollouts \in [Rollouts -> ModelRolloutRecord \cup {NoRollout}]
        /\ events \in [Rollouts -> Seq(Event)] /\ events[r] = <<>>
        /\ held \in [Controllers -> Held]
    BY <1>6 DEF Inv, TableOK, HeldsOK
  <1> HIDE DEF record, rec, event
  <1>8. RecordOK(bindings, rec) /\ rec # NoRollout
    BY <1>3, <1>4, RecordShape DEF RecordOK
  <1>9. g \in Held /\ g.step = "loaded" /\ g.record = rec /\ g.rollout = r
    BY <1>4, LoadedHeld
  <1> HIDE DEF g
  <1>10. /\ rollouts' \in [Rollouts -> ModelRolloutRecord \cup {NoRollout}]
         /\ \A x \in Rollouts : rollouts'[x] = IF x = r THEN rec ELSE rollouts[x]
    BY <1>4, <1>6, <1>7
  <1>11. events'[r] = Append(<<>>, event) /\ \A x \in Rollouts \ {r} : events'[x] = events[x]
    BY <1>6, <1>7
  <1>12. events'[r] \in Seq(Event) /\ Len(events'[r]) = 1 /\ events'[r][1] = event
    BY <1>5, <1>11
  <1>13. events' \in [Rollouts -> Seq(Event)]
    <2>1. Append(events[r], event) \in Seq(Event)
      BY <1>5, <1>7
    <2> QED
      BY <1>6, <1>7, <2>1
  <1>14. LogOK(events'[r], rec)
    BY <1>4, <1>5, <1>12 DEF LogOK
  <1>15. TableOK(rollouts', events', bindings)
    BY <1>8, <1>10, <1>11, <1>13, <1>14 DEF TableOK, Inv
  <1>16. HeldOK(g, call[p], bindings, rollouts')
    BY <1>8, <1>9, <1>10 DEF HeldOK
  <1>17. /\ held' \in [Controllers -> Held]
         /\ \A x \in Controllers : held'[x] = IF x = p THEN g ELSE held[x]
    BY <1>6, <1>7, <1>9
  <1>18. ASSUME NEW x \in Controllers PROVE HeldOK(held'[x], call[x], bindings, rollouts')
    <2>1. CASE x = p
      BY <1>16, <1>17, <2>1
    <2>2. CASE x # p
      <3>1. /\ HeldOK(held[x], call[x], bindings, rollouts) /\ held'[x] = held[x]
            /\ held[x].step # "none" => held[x].rollout \in Rollouts
        BY <1>17, <2>2, HeldNow DEF HeldOK
      <3> QED
        BY <1>8, <1>10, <3>1 DEF HeldOK
    <2> QED
      BY <2>1, <2>2
  <1> QED
    BY <1>1, <1>15, <1>17, <1>18 DEF Inv, StepOK, HeldsOK

LEMMA LoadKeeps ==
    ASSUME Inv, NEW p \in Controllers, NEW r \in Rollouts, Load(p, r)
    PROVE  Inv' /\ StepOK
  <1> DEFINE g == Loaded(r, rollouts[r], FALSE)
  <1>1. RecordOK(bindings, rollouts[r]) /\ rollouts[r] \in ModelRolloutRecord
        /\ rollouts[r] # NoRollout
    BY DEF Load, Inv, TableOK, RecordOK
  <1>2. g \in Held /\ g.step = "loaded" /\ g.record = rollouts[r] /\ g.rollout = r
    BY <1>1, LoadedHeld
  <1>3. held' = [held EXCEPT ![p] = g] /\ UNCHANGED <<catalogVars, rollouts, events>>
    BY DEF Load
  <1> HIDE DEF g
  <1>4. HeldOK(g, call[p], bindings, rollouts)
    BY <1>1, <1>2 DEF HeldOK
  <1> QED
    BY <1>3, <1>4, OwnStep

\* The transitions before and after the alias operations.
LEMMA TransitionKeeps ==
    ASSUME Inv, NEW p \in Controllers, held[p].step \notin {"none", "drift"},
           NEW record, NEW d \in BOOLEAN, Change(p, record, d), RecordOK(bindings, Bumped(record)),
           UNCHANGED <<catalogVars, rollouts, events>> \/ ReadAnswer(p)
    PROVE  Inv' /\ StepOK
  <1> DEFINE g == WithRecord(held[p], Bumped(record), d)
  <1>1. \A q : HeldOK(g, q, bindings, rollouts)
    BY ChangeHolds
  <1>2. held' = [held EXCEPT ![p] = g]
    BY DEF WithRecord, Change, Bumped
  <1> HIDE DEF g
  <1>3. CASE UNCHANGED <<catalogVars, rollouts, events>>
    BY <1>1, <1>2, <1>3, OwnStep
  <1>4. CASE ReadAnswer(p)
    BY <1>1, <1>2, <1>4, AnsweredStep DEF ReadAnswer
  <1> QED
    BY <1>3, <1>4

\* A transition to a state that says nothing of the alias.
LEMMA PlainTransitionKeeps ==
    ASSUME Inv, NEW p \in Controllers, held[p].step = "loaded",
           NEW record, NEW d \in BOOLEAN, Change(p, record, d),
           NEW y \in ROLLOUT_STATES \ {"ACTIVE", "ROLLED_BACK"}, NEW k,
           Updated(Bumped(record), held[p].record, y, k),
           UNCHANGED <<catalogVars, rollouts, events>>
    PROVE  Inv' /\ StepOK
  <1>1. RecordOK(bindings, held[p].record)
    BY HeldNow
  <1>2. RecordOK(bindings, Bumped(record))
    BY <1>1, PlainUpdate
  <1> QED
    BY <1>2, TransitionKeeps

LEMMA BeginValidationKeeps ==
    ASSUME Inv, NEW p \in Controllers, BeginValidation(p) PROVE Inv' /\ StepOK
  <1>1. /\ Change(p, ToState(held[p].record, "VALIDATING"), FALSE)
        /\ held[p].step = "loaded" /\ UNCHANGED <<catalogVars, rollouts, events>>
    BY DEF BeginValidation, Holds, ToState
  <1>2. held[p].record \in ModelRolloutRecord /\ held[p].record.revision < MaxRevision
    BY <1>1, HeldNow DEF Change
  <1>3. Updated(Bumped(ToState(held[p].record, "VALIDATING")), held[p].record,
                "VALIDATING", held[p].record.activated)
    BY <1>2, RecordChanges, RecordShape DEF ROLLOUT_STATES
  <1> QED
    BY <1>1, <1>3, PlainTransitionKeeps DEF ROLLOUT_STATES

LEMMA MarkRolloutReadyKeeps ==
    ASSUME Inv, NEW p \in Controllers, MarkRolloutReady(p) PROVE Inv' /\ StepOK
  <1>1. /\ Change(p, ToState(held[p].record, "READY"), FALSE)
        /\ held[p].step = "loaded" /\ UNCHANGED <<catalogVars, rollouts, events>>
    BY DEF MarkRolloutReady, Holds, ToState
  <1>2. held[p].record \in ModelRolloutRecord /\ held[p].record.revision < MaxRevision
    BY <1>1, HeldNow DEF Change
  <1>3. Updated(Bumped(ToState(held[p].record, "READY")), held[p].record,
                "READY", held[p].record.activated)
    BY <1>2, RecordChanges, RecordShape DEF ROLLOUT_STATES
  <1> QED
    BY <1>1, <1>3, PlainTransitionKeeps DEF ROLLOUT_STATES

LEMMA StartCanaryKeeps ==
    ASSUME Inv, NEW p \in Controllers, StartCanary(p) PROVE Inv' /\ StepOK
  <1>1. /\ Change(p, ToCanary(held[p].record, "CANARY", "RUNNING"), FALSE)
        /\ held[p].step = "loaded" /\ UNCHANGED <<catalogVars, rollouts, events>>
    BY DEF StartCanary, Holds, ToCanary
  <1>2. held[p].record \in ModelRolloutRecord /\ held[p].record.revision < MaxRevision
    BY <1>1, HeldNow DEF Change
  <1>3. Updated(Bumped(ToCanary(held[p].record, "CANARY", "RUNNING")), held[p].record,
                "CANARY", held[p].record.activated)
    BY <1>2, RecordChanges, RecordShape DEF ROLLOUT_STATES
  <1> QED
    BY <1>1, <1>3, PlainTransitionKeeps DEF ROLLOUT_STATES

LEMMA EvaluateCanaryKeeps ==
    ASSUME Inv, NEW p \in Controllers, EvaluateCanary(p) PROVE Inv' /\ StepOK
  <1>1. /\ \/ Change(p, ToVerdict(held[p].record, "PASSED"), TRUE)
           \/ Change(p, ToCanary(held[p].record, "BLOCKED", "FAILED"), FALSE)
        /\ held[p].step = "loaded" /\ held[p].record.state = "CANARY"
        /\ UNCHANGED <<catalogVars, rollouts, events>>
    BY DEF EvaluateCanary, Holds, ToVerdict, ToCanary
  <1>2. held[p].record \in ModelRolloutRecord /\ held[p].record.revision < MaxRevision
    BY <1>1, HeldNow DEF Change
  <1>3. /\ Updated(Bumped(ToVerdict(held[p].record, "PASSED")), held[p].record,
                   "CANARY", held[p].record.activated)
        /\ Updated(Bumped(ToCanary(held[p].record, "BLOCKED", "FAILED")), held[p].record,
                   "BLOCKED", held[p].record.activated)
    BY <1>1, <1>2, RecordChanges, RecordShape DEF ROLLOUT_STATES
  <1> QED
    BY <1>1, <1>3, PlainTransitionKeeps DEF ROLLOUT_STATES

\* The answer to a promotion becomes part of the record.
LEMMA PromotedKeeps ==
    ASSUME Inv, NEW p \in Controllers, Promoted(p) PROVE Inv' /\ StepOK
  <1> DEFINE record == held[p].record
             k == call[p].binding
  <1>1. /\ Change(p, ToActive(record, k), FALSE) /\ ReadAnswer(p)
        /\ held[p].step = "promoting" /\ call[p].step = "returned"
    BY DEF Promoted, ToActive
  <1>2. /\ record \in ModelRolloutRecord /\ record.revision < MaxRevision
        /\ RecordOK(bindings, record) /\ PromotingOK(bindings, record, call[p])
    BY <1>1, HeldNow DEF Change, HeldOK
  <1>3. PromotionRow(bindings, record, k)
    BY <1>1, <1>2 DEF PromotingOK
  <1>4. k \in 0..MaxBindings
    <2>1. Fine(bindings) /\ Len(bindings) \in Nat
      BY Domain DEF Inv, CatalogInv
    <2> QED
      BY <1>3, <2>1, CatalogAssumption DEF PromotionRow, Fine
  <1> HIDE DEF record, k
  <1>5. Updated(Bumped(ToActive(record, k)), record, "ACTIVE", k)
    BY <1>2, <1>4, RecordChanges, RecordShape
  <1>6. RecordOK(bindings, Bumped(ToActive(record, k)))
    BY <1>2, <1>3, <1>5 DEF RecordOK, Updated, PromotionRow
  <1> QED
    BY <1>1, <1>6, TransitionKeeps DEF record, k

\* The drift is never found: the restored row targets the entry of the
\* last-known-good row.
LEMMA RestoredKeeps ==
    ASSUME Inv, NEW p \in Controllers, Restored(p) PROVE Inv' /\ StepOK
  <1> DEFINE record == held[p].record
             k == call[p].binding
  <1>1. ReadAnswer(p) /\ held[p].step = "restoring" /\ call[p].step = "returned"
    BY DEF Restored
  <1>2. /\ record \in ModelRolloutRecord
        /\ RecordOK(bindings, record) /\ RestoringOK(bindings, record, call[p])
    BY <1>1, HeldNow DEF HeldOK
  <1>3. RestoredRow(bindings, record, k) /\ Undone(bindings, record) /\ record.state = "ACTIVE"
    BY <1>1, <1>2 DEF RestoringOK
  <1>4. Change(p, ToState(record, "ROLLED_BACK"), FALSE)
    BY <1>3 DEF Restored, RestoredRow, ToState
  <1>5. record.revision < MaxRevision
    BY <1>4 DEF Change
  <1> HIDE DEF record, k
  <1>6. Updated(Bumped(ToState(record, "ROLLED_BACK")), record, "ROLLED_BACK", record.activated)
    BY <1>2, <1>5, RecordChanges, RecordShape DEF ROLLOUT_STATES
  <1>7. RecordOK(bindings, Bumped(ToState(record, "ROLLED_BACK")))
    BY <1>2, <1>3, <1>6 DEF RecordOK, Updated, PromotionRow, RestoredRow, Undone
  <1> QED
    BY <1>1, <1>4, <1>7, TransitionKeeps DEF record
LEMMA KnowsRowNow ==
    ASSUME Fine(bindings), NEW a \in Aliases, ActiveBinding(a) \in 1..Len(bindings)
    PROVE  KnowsRow(bindings, a, ActiveRevision(a), ActiveBinding(a))
  <1>1. ReadsRight
    BY Reads
  <1>2. PICK k : Tip(bindings, a, k)
    BY <1>1, BoundOrNot DEF ReadsRight
  <1>3. ActiveBinding(a) = k /\ ActiveRevision(a) = bindings[k].revision
    BY <1>1, <1>2 DEF ReadsRight
  <1>4. bindings[k].revision \in Nat
    BY <1>2, RowType DEF Tip
  <1> QED
    BY <1>2, <1>3, <1>4 DEF KnowsRow

\* A request leaves: the record is what it was.
LEMMA RequestKeeps ==
    ASSUME Inv, StepOK, NEW p \in Controllers, held[p].step = "loaded",
           NEW y \in {"promoting", "restoring"}, held' = [held EXCEPT ![p] = WithStep(held[p], y)],
           UNCHANGED <<bindings, rollouts, events>>,
           NEW q, call' = [call EXCEPT ![p] = q],
           y = "promoting" => PromotingOK(bindings, held[p].record, q),
           y = "restoring" => RestoringOK(bindings, held[p].record, q)
    PROVE  Inv'
  <1> DEFINE g == WithStep(held[p], y)
  <1>0. held[p] \in Held
    BY HeldNow
  <1>1. g \in Held /\ g.step = y /\ g.record = held[p].record /\ g.rollout = held[p].rollout
    BY <1>0, SteppedHeld
  <1>2. held' = [held EXCEPT ![p] = g]
    OBVIOUS
  <1> HIDE DEF g
  <1>3. HeldOK(g, q, bindings, rollouts)
    BY <1>1, HeldNow DEF HeldOK
  <1>4. p \in Clients /\ \A r \in Controllers : r \in Clients
    BY DEF Clients
  <1>5. \A r \in Controllers : call'[r] = IF r = p THEN q ELSE call[r]
    BY <1>4, OthersCalls DEF Inv
  <1> QED
    BY <1>2, <1>3, <1>5, HoldStep

LEMMA PromoteKeeps ==
    ASSUME Inv, NEW p \in Controllers, Promote(p) PROVE Inv' /\ StepOK
  <1> DEFINE record == held[p].record
             a == record.alias
             q == [step |-> "replace", alias |-> a, catalog |-> record.candidate,
                   revision |-> ActiveRevision(a), prior |-> "SUPERSEDED"]
  <1>1. /\ held[p].step = "loaded" /\ ActiveBinding(a) = record.lkg
        /\ ActivateAlias(p, a, record.candidate)
        /\ held' = [held EXCEPT ![p] = WithStep(held[p], "promoting")]
        /\ UNCHANGED <<bindings, rollouts, events>> /\ call' = [call EXCEPT ![p] = q]
    BY DEF Promote, Holds, OverLastKnownGood, WithStep, ActivateAlias, BeginReplace
  <1>2. record \in ModelRolloutRecord /\ RecordOK(bindings, record)
    BY <1>1, HeldNow
  <1>3. a \in Aliases /\ record.candidate \in Catalogs /\ p \in Clients
    BY <1>2, RecordShape DEF Clients
  <1>4. StepOK
    BY <1>1, <1>3, ActivateAliasStep DEF Inv
  <1>5. KnowsRow(bindings, a, ActiveRevision(a), record.lkg)
    BY <1>1, <1>2, <1>3, KnowsRowNow DEF RecordOK, Inv, CatalogInv
  <1>6. PromotingOK(bindings, record, q)
    BY <1>5 DEF PromotingOK
  <1> HIDE DEF q
  <1> QED
    BY <1>1, <1>4, <1>6, RequestKeeps

LEMMA RestoreKeeps ==
    ASSUME Inv, NEW p \in Controllers, Restore(p) PROVE Inv' /\ StepOK
  <1> DEFINE record == held[p].record
             a == record.alias
             q == [step |-> "replace", alias |-> a, catalog |-> RollbackTarget(a),
                   revision |-> ActiveRevision(a), prior |-> "ROLLED_BACK"]
  <1>1. /\ held[p].step = "loaded" /\ record.state = "ACTIVE"
        /\ ActiveBinding(a) = record.activated /\ RollbackAlias(p, a)
        /\ held' = [held EXCEPT ![p] = WithStep(held[p], "restoring")]
        /\ UNCHANGED <<bindings, rollouts, events>> /\ call' = [call EXCEPT ![p] = q]
    BY DEF Restore, Holds, OnActivatedBinding, WithStep, RollbackAlias, BeginReplace
  <1>2. record \in ModelRolloutRecord /\ RecordOK(bindings, record)
    BY <1>1, HeldNow
  <1>3. a \in Aliases /\ p \in Clients /\ Fine(bindings)
    BY <1>2, RecordShape DEF Clients, Inv, CatalogInv
  <1>4. StepOK
    BY <1>1, <1>3, RollbackAliasStep DEF Inv
  <1>5. PICK k : /\ Tip(bindings, a, k)
                 /\ RollbackTarget(a) = bindings[bindings[k].previous].catalog
    BY <1>1, <1>3, RollbackTargetIs DEF RollbackAlias
  <1>6. k = record.activated /\ k \in 1..Len(bindings)
    BY <1>1, <1>3, <1>5, Reads DEF ReadsRight, Tip
  <1>7. bindings[k].previous = record.lkg
    BY <1>1, <1>2, <1>6 DEF RecordOK, PromotionRow
  <1>8. KnowsRow(bindings, a, ActiveRevision(a), record.activated)
    BY <1>1, <1>3, <1>6, KnowsRowNow
  <1>9. RestoringOK(bindings, record, q)
    BY <1>1, <1>5, <1>7, <1>8 DEF RestoringOK
  <1> HIDE DEF q
  <1> QED
    BY <1>1, <1>4, <1>9, RequestKeeps

LEMMA OperationRefusedKeeps ==
    ASSUME Inv, NEW p \in Controllers, OperationRefused(p) PROVE Inv' /\ StepOK
  <1> DEFINE g == WithStep(held[p], "loaded")
  <1>1. /\ held[p].step \in {"promoting", "restoring"} /\ held' = [held EXCEPT ![p] = g]
        /\ ReadAnswer(p)
    BY DEF OperationRefused, WithStep
  <1>0. held[p] \in Held
    BY HeldNow
  <1>2. g \in Held /\ g.step = "loaded" /\ g.record = held[p].record
        /\ g.rollout = held[p].rollout
    BY <1>0, <1>1, SteppedHeld
  <1> HIDE DEF g
  <1>3. HeldOK(g, Idle, bindings, rollouts)
    BY <1>1, <1>2, HeldNow DEF HeldOK
  <1> QED
    BY <1>1, <1>3, AnsweredStep DEF ReadAnswer

LEMMA CrashKeeps ==
    ASSUME Inv, NEW p \in Controllers, Crash(p) PROVE Inv' /\ StepOK
  BY NothingHeld, AnsweredStep DEF Crash

\* The log of a record grows by one event.
LEMMA LogGrows ==
    ASSUME NEW log \in Seq(Event), NEW old, LogOK(log, old), old.revision \in Nat \ {0},
           NEW record, record.revision = old.revision + 1,
           NEW e \in Event, e.from = old.state, e.to = record.state,
           e.revision = record.revision
    PROVE  LogOK(Append(log, e), record)
  <1> DEFINE l == Append(log, e)
  <1>1. /\ Len(log) = old.revision /\ Len(l) = record.revision /\ Len(log) \in Nat \ {0}
        /\ l[Len(l)] = e /\ \A i \in 1..Len(log) : l[i] = log[i]
    BY AppendProperties DEF LogOK
  <1> HIDE DEF l
  <1>2. ASSUME NEW i \in 1..Len(l)
        PROVE  l[i].revision = i /\ l[i].from = IF i = 1 THEN "NONE" ELSE l[i - 1].to
    <2>1. CASE i \in 1..Len(log)
      <3>1. i # 1 => i - 1 \in 1..Len(log)
        BY <2>1
      <3> QED
        BY <1>1, <2>1, <3>1 DEF LogOK
    <2>2. CASE i = Len(l)
      <3>1. i # 1 /\ i - 1 = Len(log) /\ l[i - 1] = log[Len(log)]
        BY <1>1, <2>2
      <3> QED
        BY <1>1, <2>2, <3>1 DEF LogOK
    <2> QED
      BY <1>1, <2>1, <2>2
  <1>3. LogOK(l, record)
    BY <1>1, <1>2 DEF LogOK
  <1> QED
    BY <1>3 DEF l

LEMMA PersistTransitionKeeps ==
    ASSUME Inv, NEW p \in Controllers, PersistTransition(p) PROVE Inv' /\ StepOK
  <1>0. PICK r, record, old : r = held[p].rollout /\ record = held[p].record /\ old = rollouts[r]
    OBVIOUS
  <1>1. /\ held[p].step = "changed" /\ r \in Rollouts /\ old # NoRollout
        /\ record \in ModelRolloutRecord /\ RecordOK(bindings, record)
    BY <1>0, HeldNow DEF PersistTransition
  <1>2. UNCHANGED catalogVars /\ StepOK /\ UNCHANGED <<call, bindings>>
    BY CatalogKept DEF PersistTransition, Inv, catalogVars
  <1>3. CASE ~ExpectedRevision(r, record)
    BY <1>0, <1>2, <1>3, NothingHeld, OwnStep DEF PersistTransition
  <1>4. CASE ExpectedRevision(r, record)
    <2> DEFINE e == [from |-> old.state, to |-> record.state, revision |-> record.revision]
               g == WithStep(held[p], "loaded")
    <2>1. /\ rollouts' = [rollouts EXCEPT ![r] = record]
          /\ events' = [events EXCEPT ![r] = Append(@, e)]
          /\ held' = [held EXCEPT ![p] = g]
      BY <1>0, <1>4 DEF PersistTransition, Logged, WithStep
    <2>2. record.revision = old.revision + 1
      BY <1>0, <1>4 DEF ExpectedRevision
    <2>3. /\ rollouts \in [Rollouts -> ModelRolloutRecord \cup {NoRollout}]
          /\ events \in [Rollouts -> Seq(Event)] /\ held \in [Controllers -> Held]
          /\ LogOK(events[r], old) /\ old \in ModelRolloutRecord
      BY <1>0, <1>1 DEF Inv, TableOK, HeldsOK, RecordOK
    <2>4. e \in Event /\ e.from = old.state /\ e.to = record.state /\ e.revision = record.revision
      BY <1>1, <2>3, RecordShape DEF Event
    <2>5. held[p] \in Held
      BY HeldNow
    <2>6. g \in Held /\ g.step = "loaded" /\ g.record = record /\ g.rollout = r
      BY <1>0, <1>1, <2>5, SteppedHeld
    <2> HIDE DEF e, g
    <2>7. LogOK(Append(events[r], e), record)
      <3>1. events[r] \in Seq(Event)
        BY <1>1, <2>3
      <3>2. old.revision \in Nat \ {0}
        BY <2>3, RecordShape
      <3> QED
        BY <2>2, <2>3, <2>4, <3>1, <3>2, LogGrows
    <2>8. /\ rollouts' \in [Rollouts -> ModelRolloutRecord \cup {NoRollout}]
          /\ \A x \in Rollouts : rollouts'[x] = IF x = r THEN record ELSE rollouts[x]
      BY <1>1, <2>1, <2>3
    <2>9. Append(events[r], e) \in Seq(Event)
      BY <1>1, <2>3, <2>4
    <2>10. /\ events' \in [Rollouts -> Seq(Event)]
           /\ \A x \in Rollouts :
                events'[x] = IF x = r THEN Append(events[r], e) ELSE events[x]
      BY <1>1, <2>1, <2>3, <2>9
    <2>11. record # NoRollout
      BY <1>1, RecordShape
    <2>12. TableOK(rollouts', events', bindings)
      BY <1>1, <2>7, <2>8, <2>10, <2>11 DEF Inv, TableOK
    <2>13. /\ held' \in [Controllers -> Held]
           /\ \A x \in Controllers : held'[x] = IF x = p THEN g ELSE held[x]
      BY <2>1, <2>3, <2>6
    <2>14. ASSUME NEW x \in Controllers PROVE HeldOK(held'[x], call[x], bindings, rollouts')
      <3>1. CASE x = p
        BY <1>1, <2>6, <2>8, <2>11, <2>13, <3>1 DEF HeldOK
      <3>2. CASE x # p
        <4>1. /\ HeldOK(held[x], call[x], bindings, rollouts) /\ held'[x] = held[x]
              /\ held[x].step # "none" => held[x].rollout \in Rollouts
          BY <2>13, <3>2, HeldNow DEF HeldOK
        <4> QED
          BY <2>8, <2>11, <4>1 DEF HeldOK
      <3> QED
        BY <3>1, <3>2
    <2> QED
      BY <1>2, <2>12, <2>13, <2>14 DEF Inv, StepOK, HeldsOK
  <1> QED
    BY <1>3, <1>4
----------------------------------------------------------------------------
(* The specification.                                                      *)

LEMMA InitOK == Init => Inv
  <1> SUFFICES ASSUME Init PROVE Inv
    OBVIOUS
  <1>1. CatalogInv
    BY CatalogInitOK DEF Init
  <1>2. TableOK(rollouts, events, bindings)
    BY DEF Init, TableOK
  <1>3. HeldsOK(held, call, bindings, rollouts)
    <2>1. NoHeld \in Held
      BY DEF NoHeld, Held
    <2>2. held = [p \in Controllers |-> NoHeld]
      BY DEF Init
    <2> HIDE DEF NoHeld
    <2> QED
      BY <2>1, <2>2, NothingHeld DEF HeldsOK
  <1> QED
    BY <1>1, <1>2, <1>3 DEF Inv

LEMMA NextOK == Inv /\ [Next]_vars => Inv' /\ StepOK
  <1> SUFFICES ASSUME Inv, [Next]_vars PROVE Inv' /\ StepOK
    OBVIOUS
  <1>1. CASE CatalogNext /\ UNCHANGED rolloutVars
    BY <1>1, CatalogNextKeeps
  <1>2. CASE UNCHANGED vars
    BY <1>2, CatalogKept DEF vars, catalogVars, rolloutVars, Inv, TableOK, HeldsOK, StepOK
  <1>3. ASSUME NEW p \in Controllers, NEW r \in Rollouts, Load(p, r) PROVE Inv' /\ StepOK
    BY <1>3, LoadKeeps
  <1>4. ASSUME NEW p \in Controllers, NEW r \in Rollouts, NEW a \in Aliases, NEW c \in Catalogs,
               RegisterRollout(p, r, a, c)
        PROVE  Inv' /\ StepOK
    BY <1>4, RegisterRolloutKeeps
  <1>5. ASSUME NEW p \in Controllers, BeginValidation(p) \/ MarkRolloutReady(p)
                                      \/ StartCanary(p) \/ EvaluateCanary(p)
        PROVE  Inv' /\ StepOK
    BY <1>5, BeginValidationKeeps, MarkRolloutReadyKeeps, StartCanaryKeeps, EvaluateCanaryKeeps
  <1>6. ASSUME NEW p \in Controllers, PersistTransition(p) \/ OperationRefused(p) \/ Crash(p)
        PROVE  Inv' /\ StepOK
    BY <1>6, PersistTransitionKeeps, OperationRefusedKeeps, CrashKeeps
  <1>7. ASSUME NEW p \in Controllers, Promote(p) \/ Promoted(p) \/ Restore(p) \/ Restored(p)
        PROVE  Inv' /\ StepOK
    BY <1>7, PromoteKeeps, PromotedKeeps, RestoreKeeps, RestoredKeeps
  <1> QED
    BY <1>1, <1>2, <1>3, <1>4, <1>5, <1>6, <1>7 DEF Next

LEMMA Invariance == Spec => []Inv
  <1>1. Init => Inv
    BY InitOK
  <1>2. Inv /\ [Next]_vars => Inv'
    BY NextOK
  <1> QED
    BY <1>1, <1>2, PTL DEF Spec

\* What the stored record of a rollout says.
LEMMA StoredRecord ==
    ASSUME Inv, NEW r \in Rollouts, rollouts[r] # NoRollout
    PROVE  RecordOK(bindings, rollouts[r]) /\ LogOK(events[r], rollouts[r])
  BY DEF Inv, TableOK

LEMMA NoState == NoRollout.state \notin {"ACTIVE", "ROLLED_BACK"}
  BY DEF NoRollout

LEMMA TypesHold == Inv => TypeOK
  BY CatalogInvImplies DEF Inv, TableOK, HeldsOK, TypeOK

\* Every variable has its type, however the requests of operators and the
\* steps, crashes and restarts of controllers interleave.
THEOREM RolloutTypeCorrect == Spec => []TypeOK
  BY TypesHold, Invariance, PTL

\* Whatever activations, rollbacks and promotions race on an alias, its
\* bindings are one chain with one active end (replace_active_alias).
THEOREM BindingsFormChain == Spec => []LineageIsChain
  <1>1. Inv => LineageIsChain
    BY CatalogInvImplies DEF Inv
  <1> QED
    BY <1>1, Invariance, PTL

\* An entry only takes the transitions of the table, each with the next
\* revision, although the request read the entry earlier
\* (update_catalog_state).
THEOREM RetirementIsFinal == Spec => EntriesFollowTransitions
  <1>1. Inv /\ [Next]_vars =>
            [\A c \in Catalogs : catalog'[c] # catalog[c] =>
                /\ catalog'[c].revision = catalog[c].revision + 1
                /\ \/ catalog[c].state = "NONE" /\ catalog'[c].state = "DRAFT"
                   \/ catalog'[c].state \in CATALOG_TRANSITIONS[catalog[c].state]]_catalog
    BY NextOK DEF StepOK, CatalogMoves, Transits
  <1> QED
    BY <1>1, Invariance, PTL DEF Spec, EntriesFollowTransitions

\* The bindings, the guarded update and the requests in flight implement the
\* abstract pointer: every committed activation, rollback or promotion is one
\* move of one alias to a target it did not have.
THEOREM AliasIsPointer == Spec => MovesLikePointer
  <1>1. Init => Pointer!Init
    BY CatalogInitOK, PointerInit DEF Init
  <1>2. Inv /\ [Next]_vars => [Pointer!Next]_(Pointer!pointerVars)
    BY NextOK, PointerStep
  <1> QED
    BY <1>1, <1>2, Invariance, PTL DEF Spec, MovesLikePointer, Pointer!Spec

\* A promoted rollout replaced exactly the row it was registered on with
\* exactly its candidate (activate_rollout_alias).
THEOREM PromotionIsSafe == Spec => []PromotedOverLastKnownGood
  <1>1. Inv => PromotedOverLastKnownGood
    <2> SUFFICES ASSUME Inv, NEW r \in Rollouts, rollouts[r].state \in {"ACTIVE", "ROLLED_BACK"}
                 PROVE  LET b == bindings[rollouts[r].activated] IN
                        /\ b.alias = rollouts[r].alias /\ b.catalog = rollouts[r].candidate
                        /\ b.previous = rollouts[r].lkg
      BY DEF PromotedOverLastKnownGood
    <2>1. RecordOK(bindings, rollouts[r])
      BY StoredRecord, NoState
    <2> QED
      BY <2>1 DEF RecordOK, PromotionRow
  <1> QED
    BY <1>1, Invariance, PTL

\* A rollout is ROLLED_BACK only when its own row was, and the alias went back
\* to the last-known-good entry; mo.rollout_rollback_target_drift is never
\* raised (rollback_rollout_alias).
THEOREM RollbackIsSafe == Spec => []RolledBackIsRestored
  <1>1. Inv => RolledBackIsRestored
    <2> SUFFICES ASSUME Inv PROVE RolledBackIsRestored
      OBVIOUS
    <2>1. ASSUME NEW r \in Rollouts, rollouts[r].state = "ROLLED_BACK"
          PROVE  /\ bindings[rollouts[r].activated].state = "ROLLED_BACK"
                 /\ \E k \in DOMAIN bindings :
                        /\ bindings[k].previous = rollouts[r].activated
                        /\ bindings[k].catalog = bindings[rollouts[r].lkg].catalog
      <3>1. RecordOK(bindings, rollouts[r])
        BY <2>1, StoredRecord, NoState
      <3>2. DOMAIN bindings = 1..Len(bindings)
        BY Domain DEF Inv, CatalogInv
      <3> QED
        BY <2>1, <3>1, <3>2 DEF RecordOK, Undone, RestoredRow
    <2>2. \A p \in Controllers : held[p].step # "drift"
      BY DEF Inv, HeldsOK, HeldOK
    <2> QED
      BY <2>1, <2>2 DEF RolledBackIsRestored
  <1> QED
    BY <1>1, Invariance, PTL

\* The events of a rollout tell its history without gaps, although controllers
\* persist records they loaded long ago (persist_transition).
THEOREM EventLogIsComplete == Spec => []EventsTellTheState
  <1>1. Inv => EventsTellTheState
    <2> SUFFICES ASSUME Inv, NEW r \in Rollouts, rollouts[r] # NoRollout
                 PROVE  LET log == events[r] IN
                        /\ Len(log) = rollouts[r].revision
                        /\ log[Len(log)].to = rollouts[r].state
                        /\ \A i \in DOMAIN log :
                            /\ log[i].revision = i
                            /\ log[i].from = IF i = 1 THEN "NONE" ELSE log[i - 1].to
      BY DEF EventsTellTheState
    <2>1. LogOK(events[r], rollouts[r]) /\ events[r] \in Seq(Event)
      BY StoredRecord DEF Inv, TableOK
    <2>2. DOMAIN events[r] = 1..Len(events[r])
      BY <2>1
    <2> QED
      BY <2>1, <2>2 DEF LogOK
  <1> QED
    BY <1>1, Invariance, PTL

----------------------------------------------------------------------------
(* The routes.                                                             *)

Serial == RoutesAvailable /\ ChecksHold

LEMMA SerialInit == CatalogInit => Serial
  <1> SUFFICES ASSUME CatalogInit PROVE Serial
    OBVIOUS
  <1>1. Pointer!Init /\ ReadsRight
    BY CatalogInitOK, PointerInit, Reads DEF CatalogInv
  <1> DEFINE b == Binding(BootAlias, BootCatalog, 1, NoBinding)
  <1>2. /\ Len(bindings) = 1 /\ bindings[1] = b
        /\ b.alias = BootAlias /\ b.catalog = BootCatalog /\ b.state = "ACTIVE"
    BY DEF CatalogInit, Binding
  <1> HIDE DEF b
  <1>3. ASSUME NEW a \in Aliases, Target(a) # NoCatalog PROVE IsActive(Target(a))
    <2>1. a = BootAlias
      <3>1. a # BootAlias => Unbound(bindings, a)
        BY <1>2 DEF Unbound
      <3> QED
        BY <1>1, <1>3, <3>1 DEF ReadsRight
    <2>2. Tip(bindings, a, 1)
      BY <1>2, <2>1 DEF Tip
    <2>3. Target(a) = BootCatalog
      BY <1>1, <1>2, <2>2 DEF ReadsRight
    <2> QED
      BY <2>3, CatalogAssumption DEF IsActive, CatalogInit
  <1>4. ChecksHold
    BY DEF ChecksHold, CatalogInit, Retires, Activates, Idle
  <1> QED
    BY <1>3, <1>4 DEF Serial, RoutesAvailable

LEMMA SerialNext == Inv /\ Serial /\ RetirementsAreAlone /\ [Next]_vars => Serial'
  <1> SUFFICES ASSUME Inv, Serial, RetirementsAreAlone, [Next]_vars PROVE Serial'
    OBVIOUS
  <1>0. CatalogInv /\ Controllers \subseteq Clients
        /\ Idle.step \notin {"update", "replace"}
    BY DEF Inv, Clients, Idle
  <1>1. ASSUME NEW p \in Clients, Orderly(p) PROVE Serial'
    BY <1>1, OrderlyKeeps DEF Serial
  <1>2. ASSUME UNCHANGED catalogVars PROVE Serial'
    BY <1>2 DEF catalogVars, Serial, RoutesAvailable, ChecksHold, IsActive, Target,
                ActiveBinding, ActiveIds
  <1>3. CASE CatalogNext
    BY <1>0, <1>1, <1>3, CatalogNextIsOrderly
  <1>4. CASE UNCHANGED vars
    BY <1>2, <1>4 DEF vars
  <1>5. ASSUME NEW p \in Controllers, NEW r \in Rollouts,
               Load(p, r) \/ \E a \in Aliases, c \in Catalogs : RegisterRollout(p, r, a, c)
        PROVE  Serial'
    BY <1>2, <1>5 DEF Load, RegisterRollout
  <1>6. ASSUME NEW p \in Controllers,
               \/ BeginValidation(p) \/ MarkRolloutReady(p) \/ StartCanary(p) \/ EvaluateCanary(p)
               \/ PersistTransition(p)
        PROVE  Serial'
    BY <1>2, <1>6 DEF BeginValidation, MarkRolloutReady, StartCanary, EvaluateCanary,
                      PersistTransition
  <1>7. ASSUME NEW p \in Controllers, Promote(p) \/ Restore(p) PROVE Serial'
    <2>1. held[p].record.alias \in Aliases
      BY <1>7, HeldNow, RecordShape DEF Promote, Restore, Holds
    <2>2. Orderly(p)
      BY <1>0, <1>7, <2>1, BeginReplaceIsOrderly DEF Promote, Restore, ActivateAlias, RollbackAlias
    <2> QED
      BY <1>0, <1>1, <2>2
  <1>8. ASSUME NEW p \in Controllers,
               Promoted(p) \/ Restored(p) \/ OperationRefused(p) \/ Crash(p)
        PROVE  Serial'
    <2>1. call' = [call EXCEPT ![p] = Idle] /\ UNCHANGED <<catalog, bindings>>
      BY <1>8 DEF Promoted, Restored, OperationRefused, Crash, ReadAnswer
    <2> QED
      BY <1>0, <1>1, <2>1, PlainIsOrderly
  <1> QED
    BY <1>3, <1>4, <1>5, <1>6, <1>7, <1>8 DEF Next

\* The routes of the provider stay available under every interleaving of
\* activations, rollbacks, promotions and crashes in which no retirement
\* overlaps with an activation of the entry that it retires: the missing lock
\* between transition_catalog_entry and replace_active_alias is the one gap,
\* the one that the run alias_retirement exhibits.
THEOREM RoutesStayAvailable == Spec /\ []RetirementsAreAlone => []RoutesAvailable
  <1>1. Init => Serial
    BY SerialInit DEF Init
  <1>2. Inv /\ Serial /\ RetirementsAreAlone /\ [Next]_vars => Serial'
    BY SerialNext
  <1>3. Serial => RoutesAvailable
    BY DEF Serial
  <1> QED
    BY <1>1, <1>2, <1>3, Invariance, PTL DEF Spec

\* One caller alone, be it an operator or a controller, never makes a route
\* unavailable: what it checked in transition_catalog_entry or activate_alias
\* is still so when it writes.
THEOREM OneCallerKeepsRoutes ==
    ASSUME \A p, q \in Clients : p = q
    PROVE  Spec => []RoutesAvailable
  <1>1. Inv => RetirementsAreAlone
    BY DEF RetirementsAreAlone, Retires, Activates
  <1> QED
    BY <1>1, Invariance, RoutesStayAvailable, PTL
=============================================================================
