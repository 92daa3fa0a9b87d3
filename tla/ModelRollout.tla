---------------------------- MODULE ModelRollout ----------------------------
(***************************************************************************)
(* The rollout of a model revision behind an alias: the state machine of   *)
(* nex_mo/model_rollout_state.py, its durable record and event log         *)
(* (ModelRolloutService) and its two alias operations                      *)
(* (nex_mo/model_rollout_activation.py).                                   *)
(*                                                                         *)
(* The transitions are pure: a controller holds a record, changes it and   *)
(* persists it afterwards.  An activation or a rollback commits the alias  *)
(* first, so a crash in between leaves the record behind.  Evidence        *)
(* (readiness, calibration, reservation, metrics) is present or the        *)
(* transition is refused.  The decision of a canary is never stored.       *)
(***************************************************************************)
EXTENDS AliasCatalog

CONSTANTS
    Rollouts,
    MaxRevision     \* bound: the state revision of a rollout

ASSUME RolloutAssumption == MaxRevision \in Nat \ {0}

VARIABLES
    rollouts,   \* the table mo_model_rollouts
    events,     \* per rollout: its rows of mo_rollout_events
    held        \* per controller: the record it works on

rolloutVars == <<rollouts, events, held>>
vars == <<catalogVars, rolloutVars>>

ROLLOUT_STATES ==
    {"REGISTERED", "VALIDATING", "READY", "CANARY", "BLOCKED", "ACTIVE", "ROLLED_BACK"}

NoRollout == [state |-> "NONE"]

ModelRolloutRecord ==
    [state : ROLLOUT_STATES, revision : 1..MaxRevision, alias : Aliases,
     candidate : Catalogs, lkg : 1..MaxBindings,
     canary : {"NONE", "RUNNING", "PASSED", "FAILED"}, activated : 0..MaxBindings]

NoHeld == [step |-> "none"]

\* step "changed": the record waits to be persisted; "promoting" and
\* "restoring": an alias operation is in flight; "drift": the error
\* mo.rollout_rollback_target_drift, raised after the alias has moved.
Held ==
    [step : {"none", "drift"}]
    \cup [step : {"loaded", "changed", "promoting", "restoring"}, rollout : Rollouts,
          record : ModelRolloutRecord, decision : BOOLEAN]

Event == [from : ROLLOUT_STATES \cup {"NONE"}, to : ROLLOUT_STATES, revision : 1..MaxRevision]

\* The variables have their types.
TypeOK ==
    /\ CatalogTypeOK
    /\ rollouts \in [Rollouts -> ModelRolloutRecord \cup {NoRollout}]
    /\ events \in [Rollouts -> Seq(Event)]
    /\ held \in [Controllers -> Held]

Init ==
    /\ CatalogInit
    /\ rollouts = [r \in Rollouts |-> NoRollout]
    /\ events = [r \in Rollouts |-> <<>>]
    /\ held = [p \in Controllers |-> NoHeld]

Logged(r, from, record) ==
    [events EXCEPT ![r] = Append(@, [from |-> from, to |-> record.state,
                                     revision |-> record.revision])]

----------------------------------------------------------------------------
(* The record.                                                             *)

Loaded(r, record, decision) ==
    [step |-> "loaded", rollout |-> r, record |-> record, decision |-> decision]

\* register_rollout, for any binding the controller names as the last-known-good
\* one, then ModelRolloutService.register: the row and its first event.
RegisterRollout(p, r, a, c) ==
    /\ held[p] = NoHeld
    /\ rollouts[r] = NoRollout
    /\ catalog[c].state # "NONE"
    /\ \E b \in DOMAIN bindings :
        /\ bindings[b].catalog # c
        /\ LET record == [state |-> "REGISTERED", revision |-> 1, alias |-> a, candidate |-> c,
                          lkg |-> b, canary |-> "NONE", activated |-> NoBinding]
           IN  /\ rollouts' = [rollouts EXCEPT ![r] = record]
               /\ events' = Logged(r, "NONE", record)
               /\ held' = [held EXCEPT ![p] = Loaded(r, record, FALSE)]
    /\ UNCHANGED catalogVars

\* ModelRolloutService.get, by a controller that starts or starts again.
Load(p, r) ==
    /\ held[p] = NoHeld
    /\ rollouts[r] # NoRollout
    /\ held' = [held EXCEPT ![p] = Loaded(r, rollouts[r], FALSE)]
    /\ UNCHANGED <<catalogVars, rollouts, events>>

\* The controller has the record in the given state.
Holds(p, state) == held[p].step = "loaded" /\ held[p].record.state = state

\* One transition of the held record, to be persisted next.
Change(p, record, decision) ==
    /\ held[p].record.revision < MaxRevision
    /\ held' = [held EXCEPT ![p] =
                    [@ EXCEPT !.step = "changed",
                              !.record = [record EXCEPT !.revision = @ + 1],
                              !.decision = decision]]

BeginValidation(p) ==
    /\ Holds(p, "REGISTERED")
    /\ Change(p, [held[p].record EXCEPT !.state = "VALIDATING"], FALSE)
    /\ UNCHANGED <<catalogVars, rollouts, events>>

MarkRolloutReady(p) ==
    /\ Holds(p, "VALIDATING")
    /\ Change(p, [held[p].record EXCEPT !.state = "READY"], FALSE)
    /\ UNCHANGED <<catalogVars, rollouts, events>>

StartCanary(p) ==
    /\ Holds(p, "READY")
    /\ Change(p, [held[p].record EXCEPT !.state = "CANARY", !.canary = "RUNNING"], FALSE)
    /\ UNCHANGED <<catalogVars, rollouts, events>>

\* evaluate_canary, which a rollout in CANARY may undergo again and again.
EvaluateCanary(p) ==
    /\ Holds(p, "CANARY")
    /\ \/ Change(p, [held[p].record EXCEPT !.canary = "PASSED"], TRUE)
       \/ Change(p, [held[p].record EXCEPT !.state = "BLOCKED", !.canary = "FAILED"], FALSE)
    /\ UNCHANGED <<catalogVars, rollouts, events>>

\* Mutant: the stored revision is not compared.
ExpectedRevisionUnchecked(r, record) == rollouts[r] # NoRollout /\ record.revision > 1

\* _validate_update and the guarded UPDATE.
ExpectedRevision(r, record) == rollouts[r].revision + 1 = record.revision

\* persist_transition: the row and its event, or a conflict that makes the
\* record worthless.
PersistTransition(p) ==
    /\ held[p].step = "changed"
    /\ LET r == held[p].rollout
           record == held[p].record
       IN  IF ExpectedRevision(r, record)
           THEN /\ rollouts' = [rollouts EXCEPT ![r] = record]
                /\ events' = Logged(r, rollouts[r].state, record)
                /\ held' = [held EXCEPT ![p].step = "loaded"]
           ELSE /\ held' = [held EXCEPT ![p] = NoHeld]
                /\ UNCHANGED <<rollouts, events>>
    /\ UNCHANGED catalogVars

----------------------------------------------------------------------------
(* The alias.                                                              *)

\* Mutant: promote over whatever binding is active.
OverLastKnownGoodAny(record) == Target(record.alias) # NoCatalog

\* _validate_last_known_good against the active binding.
OverLastKnownGood(record) == ActiveBinding(record.alias) = record.lkg

\* activate_rollout_alias, up to the commit of the alias.
Promote(p) ==
    /\ Holds(p, "CANARY")
    /\ held[p].record.canary = "PASSED"
    /\ held[p].decision
    /\ OverLastKnownGood(held[p].record)
    /\ ActivateAlias(p, held[p].record.alias, held[p].record.candidate)
    /\ held' = [held EXCEPT ![p].step = "promoting"]
    /\ UNCHANGED <<rollouts, events>>

\* Mutant: roll back whatever the alias has become.
OnActivatedBindingAny(record) == Target(record.alias) # NoCatalog

\* mo.rollout_active_binding_drift.
OnActivatedBinding(record) == ActiveBinding(record.alias) = record.activated

\* rollback_rollout_alias, up to the commit of the alias.
Restore(p) ==
    /\ Holds(p, "ACTIVE")
    /\ OnActivatedBinding(held[p].record)
    /\ RollbackAlias(p, held[p].record.alias)
    /\ held' = [held EXCEPT ![p].step = "restoring"]
    /\ UNCHANGED <<rollouts, events>>

ReadAnswer(p) ==
    /\ call' = [call EXCEPT ![p] = Idle]
    /\ UNCHANGED <<catalog, bindings, rollouts, events>>

\* The alias operation was refused: the record is what it was.
OperationRefused(p) ==
    /\ held[p].step \in {"promoting", "restoring"}
    /\ call[p] = Refused
    /\ held' = [held EXCEPT ![p].step = "loaded"]
    /\ ReadAnswer(p)

\* mark_rollout_active.
Promoted(p) ==
    /\ held[p].step = "promoting"
    /\ call[p].step = "returned"
    /\ Change(p, [held[p].record EXCEPT !.state = "ACTIVE", !.activated = call[p].binding], FALSE)
    /\ ReadAnswer(p)

\* The check after the commit, then mark_rollout_rolled_back.
Restored(p) ==
    /\ held[p].step = "restoring"
    /\ call[p].step = "returned"
    /\ IF bindings[call[p].binding].catalog = bindings[held[p].record.lkg].catalog
       THEN Change(p, [held[p].record EXCEPT !.state = "ROLLED_BACK"], FALSE)
       ELSE held' = [held EXCEPT ![p] = [step |-> "drift"]]
    /\ ReadAnswer(p)

\* The controller's process ends; an open transaction is rolled back.
Crash(p) ==
    /\ held[p] # NoHeld
    /\ held' = [held EXCEPT ![p] = NoHeld]
    /\ call' = [call EXCEPT ![p] = Idle]
    /\ UNCHANGED <<catalog, bindings, rollouts, events>>

----------------------------------------------------------------------------
Next ==
    \/ CatalogNext /\ UNCHANGED rolloutVars
    \/ \E p \in Controllers :
        \/ \E r \in Rollouts :
            \/ Load(p, r)
            \/ \E a \in Aliases, c \in Catalogs : RegisterRollout(p, r, a, c)
        \/ BeginValidation(p) \/ MarkRolloutReady(p) \/ StartCanary(p) \/ EvaluateCanary(p)
        \/ PersistTransition(p)
        \/ Promote(p) \/ Promoted(p)
        \/ Restore(p) \/ Restored(p)
        \/ OperationRefused(p)
        \/ Crash(p)

Spec == Init /\ [][Next]_vars

----------------------------------------------------------------------------
(* Properties.                                                             *)

\* A rollout that was promoted replaced exactly its last-known-good binding
\* with exactly its candidate, whatever other rollouts and operators did to
\* the alias between its registration and its promotion.
PromotedOverLastKnownGood ==
    \A r \in Rollouts : rollouts[r].state \in {"ACTIVE", "ROLLED_BACK"} =>
        LET b == bindings[rollouts[r].activated] IN
        /\ b.alias = rollouts[r].alias
        /\ b.catalog = rollouts[r].candidate
        /\ b.previous = rollouts[r].lkg

\* A rollout is ROLLED_BACK only if its binding was, and the binding that
\* followed it targets the last-known-good catalog entry.  The drift error,
\* which would come after the alias has already moved, never does: the checks
\* before the commit rule it out.
RolledBackIsRestored ==
    /\ \A r \in Rollouts : rollouts[r].state = "ROLLED_BACK" =>
        /\ bindings[rollouts[r].activated].state = "ROLLED_BACK"
        /\ \E k \in DOMAIN bindings :
            /\ bindings[k].previous = rollouts[r].activated
            /\ bindings[k].catalog = bindings[rollouts[r].lkg].catalog
    /\ \A p \in Controllers : held[p].step # "drift"

\* The event log tells the whole story: one event per revision, each starting
\* where the one before ended, the last one at the stored state, although
\* controllers persist records they loaded long ago.
EventsTellTheState ==
    \A r \in Rollouts : rollouts[r] # NoRollout =>
        LET log == events[r] IN
        /\ Len(log) = rollouts[r].revision
        /\ log[Len(log)].to = rollouts[r].state
        /\ \A i \in DOMAIN log :
            /\ log[i].revision = i
            /\ log[i].from = IF i = 1 THEN "NONE" ELSE log[i - 1].to
=============================================================================
