---------------------------- MODULE AliasCatalog ----------------------------
(***************************************************************************)
(* The model catalog and the provider aliases of NeX-MO:                   *)
(* CatalogLifecycleService (nex_mo/catalog_lifecycle_service.py) over      *)
(* SqlAlchemyCatalogLifecycleRepository.                                   *)
(*                                                                         *)
(* An operation reads and checks in one step and writes in another, since  *)
(* other requests commit in between.  The aliases and entries here are of  *)
(* one provider capability.  A request that is refused by its checks       *)
(* changes nothing and is left out; one that is refused by its write says  *)
(* so.                                                                     *)
(***************************************************************************)
EXTENDS Naturals, Sequences

CONSTANTS
    Aliases,
    Catalogs,
    BootAlias,      \* the route that ensure_bootstrap seeds an empty store
    BootCatalog,    \* with, and the catalog entry it targets
    NoCatalog,
    Operators,      \* callers of the HTTP routes
    Controllers,    \* programs that call the service and use its answer
    MaxBindings     \* bound: rows of mo_alias_bindings

ASSUME CatalogAssumption ==
    /\ BootAlias \in Aliases
    /\ BootCatalog \in Catalogs
    /\ NoCatalog \notin Catalogs
    /\ MaxBindings \in Nat \ {0}
    /\ Operators \cap Controllers = {}

VARIABLES
    catalog,    \* the table mo_model_catalog
    bindings,   \* the table mo_alias_bindings: the position of a row is its id
    call        \* per client: the request in flight, or the answer to it

catalogVars == <<catalog, bindings, call>>

Clients == Operators \cup Controllers

NoBinding == 0

Idle == [step |-> "idle"]
Refused == [step |-> "refused"]

\* Mutant: a retired entry may be activated again.
CATALOG_TRANSITIONS_Reopening ==
    [NONE |-> {}, DRAFT |-> {"ACTIVE", "RETIRED"}, ACTIVE |-> {"RETIRED"},
     RETIRED |-> {"ACTIVE"}]

CATALOG_TRANSITIONS ==
    [NONE |-> {}, DRAFT |-> {"ACTIVE", "RETIRED"}, ACTIVE |-> {"RETIRED"}, RETIRED |-> {}]

CatalogEntry == [state : DOMAIN CATALOG_TRANSITIONS, revision : 0..3]

AliasBinding ==
    [alias : Aliases, catalog : Catalogs, revision : 1..MaxBindings,
     state : {"ACTIVE", "SUPERSEDED", "ROLLED_BACK"}, previous : 0..MaxBindings]

Call ==
    [step : {"idle", "refused"}]
    \cup [step : {"update"}, catalog : Catalogs, state : {"ACTIVE", "RETIRED"}, revision : 1..3]
    \cup [step : {"replace"}, alias : Aliases, catalog : Catalogs,
          revision : 0..MaxBindings, prior : {"SUPERSEDED", "ROLLED_BACK"}]
    \cup [step : {"returned"}, binding : 1..MaxBindings]

CatalogTypeOK ==
    /\ catalog \in [Catalogs -> CatalogEntry]
    /\ bindings \in Seq(AliasBinding)
    /\ Len(bindings) <= MaxBindings
    /\ call \in [Clients -> Call]

Binding(a, c, revision, previous) ==
    [alias |-> a, catalog |-> c, revision |-> revision, state |-> "ACTIVE",
     previous |-> previous]

\* The store after ensure_bootstrap; the other entries are registered later.
CatalogInit ==
    /\ catalog = [c \in Catalogs |->
                    IF c = BootCatalog THEN [state |-> "ACTIVE", revision |-> 1]
                                       ELSE [state |-> "NONE", revision |-> 0]]
    /\ bindings = <<Binding(BootAlias, BootCatalog, 1, NoBinding)>>
    /\ call = [p \in Clients |-> Idle]

----------------------------------------------------------------------------
ActiveIds(a) ==
    {k \in DOMAIN bindings : bindings[k].alias = a /\ bindings[k].state = "ACTIVE"}

\* _active_binding, which refuses to choose when there are several.
ActiveBinding(a) ==
    IF ActiveIds(a) = {} THEN NoBinding ELSE CHOOSE k \in ActiveIds(a) : TRUE

ActiveRevision(a) ==
    IF ActiveIds(a) = {} THEN 0 ELSE bindings[ActiveBinding(a)].revision

Target(a) ==
    IF ActiveIds(a) = {} THEN NoCatalog ELSE bindings[ActiveBinding(a)].catalog

IsActive(c) == c \in Catalogs /\ catalog[c].state = "ACTIVE"

\* _has_active_binding.
HasActiveBinding(c) == \E a \in Aliases : Target(a) = c

\* A route answers its operator; a controller still has the answer to read.
Answer(p, answer) == call' = [call EXCEPT ![p] = IF p \in Operators THEN Idle ELSE answer]

----------------------------------------------------------------------------
(* The catalog.                                                            *)

\* register_catalog_entry.
RegisterEntry(p, c) ==
    /\ call[p] = Idle
    /\ catalog[c].state = "NONE"
    /\ catalog' = [catalog EXCEPT ![c] = [state |-> "DRAFT", revision |-> 1]]
    /\ UNCHANGED <<bindings, call>>

\* transition_catalog_entry, up to update_catalog_state.
BeginTransition(p, c, state) ==
    /\ call[p] = Idle
    /\ state \in CATALOG_TRANSITIONS[catalog[c].state]
    /\ state = "RETIRED" => ~HasActiveBinding(c)
    /\ call' = [call EXCEPT ![p] = [step |-> "update", catalog |-> c, state |-> state,
                                    revision |-> catalog[c].revision]]
    /\ UNCHANGED <<catalog, bindings>>

\* Mutant: UPDATE without the expected revision.
SameEntryRevisionUnchecked(c, revision) == revision > 0

\* The WHERE clause of update_catalog_state.
SameEntryRevision(c, revision) == catalog[c].revision = revision

EndTransition(p) ==
    /\ call[p].step = "update"
    /\ LET c == call[p].catalog IN
        IF SameEntryRevision(c, call[p].revision)
        THEN catalog' = [catalog EXCEPT ![c] = [state |-> call[p].state, revision |-> @.revision + 1]]
        ELSE UNCHANGED catalog
    /\ Answer(p, Idle)
    /\ UNCHANGED bindings

----------------------------------------------------------------------------
(* The aliases.  The transaction of replace_active_alias reads the target  *)
(* entry without a lock, so its check is as early as that of the service.  *)

BeginReplace(p, a, c, prior) ==
    /\ call[p] = Idle
    /\ Len(bindings) < MaxBindings
    /\ IsActive(c)
    /\ call' = [call EXCEPT ![p] = [step |-> "replace", alias |-> a, catalog |-> c,
                                    revision |-> ActiveRevision(a), prior |-> prior]]
    /\ UNCHANGED <<catalog, bindings>>

\* Mutant: an alias may be switched to the entry it already has.
AlreadyActiveNever(a, c) == FALSE

\* MO_ALIAS_ALREADY_ACTIVE.
AlreadyActive(a, c) == Target(a) = c

\* activate_alias.
ActivateAlias(p, a, c) ==
    /\ ~AlreadyActive(a, c)
    /\ BeginReplace(p, a, c, "SUPERSEDED")

\* Mutant: the rollback goes back to the first binding of the alias.
RollbackTargetFirst(a) ==
    LET rows == {k \in DOMAIN bindings : bindings[k].alias = a} IN
    IF rows = {} \/ bindings[ActiveBinding(a)].previous = NoBinding THEN NoCatalog
    ELSE bindings[CHOOSE k \in rows : \A i \in rows : k <= i].catalog

\* The catalog of the binding before the active one.
RollbackTarget(a) ==
    IF ActiveIds(a) = {} \/ bindings[ActiveBinding(a)].previous = NoBinding THEN NoCatalog
    ELSE bindings[bindings[ActiveBinding(a)].previous].catalog

\* Mutant: the binding that is rolled back is only marked superseded.
RollbackAliasSuperseding(p, a) ==
    /\ RollbackTarget(a) # NoCatalog
    /\ BeginReplace(p, a, RollbackTarget(a), "SUPERSEDED")

\* rollback_alias.
RollbackAlias(p, a) ==
    /\ RollbackTarget(a) # NoCatalog
    /\ BeginReplace(p, a, RollbackTarget(a), "ROLLED_BACK")

\* Mutant: the replacement is built on whatever binding is active by now.
SameRevisionUnchecked(a, revision) == revision <= ActiveRevision(a)

\* The revision checks of replace_active_alias, the guarded UPDATE and the
\* unique indexes: the alias is still where the service read it.
SameRevision(a, revision) == ActiveRevision(a) = revision

\* replace_active_alias commits, or finds the alias changed.
EndReplace(p) ==
    /\ call[p].step = "replace"
    /\ LET a == call[p].alias
           k == ActiveBinding(a)
           new == Binding(a, call[p].catalog, call[p].revision + 1, k)
       IN  \/ /\ SameRevision(a, call[p].revision)
              /\ Len(bindings) < MaxBindings
              /\ bindings' = Append([i \in DOMAIN bindings |->
                                       IF i = k THEN [bindings[i] EXCEPT !.state = call[p].prior]
                                                ELSE bindings[i]], new)
              /\ Answer(p, [step |-> "returned", binding |-> Len(bindings) + 1])
           \/ /\ ~SameRevision(a, call[p].revision)
              /\ Answer(p, Refused)
              /\ UNCHANGED bindings
    /\ UNCHANGED catalog

CatalogNext ==
    \/ \E p \in Operators :
        \/ \E c \in Catalogs :
            \/ RegisterEntry(p, c)
            \/ \E s \in {"ACTIVE", "RETIRED"} : BeginTransition(p, c, s)
            \/ \E a \in Aliases : ActivateAlias(p, a, c)
        \/ \E a \in Aliases : RollbackAlias(p, a)
    \/ \E p \in Clients : EndTransition(p) \/ EndReplace(p)

----------------------------------------------------------------------------
(* Properties.                                                             *)

\* The bindings of an alias are one chain: revisions without gaps or repeats,
\* each row naming the row before it, and only the last one ACTIVE, however
\* many activations and rollbacks race.
LineageIsChain ==
    \A a \in Aliases, k \in DOMAIN bindings : bindings[k].alias = a =>
        LET earlier == {i \in 1..(k - 1) : bindings[i].alias = a}
            later == {i \in DOMAIN bindings : i > k /\ bindings[i].alias = a}
        IN  /\ IF earlier = {}
               THEN bindings[k].revision = 1 /\ bindings[k].previous = NoBinding
               ELSE /\ bindings[k].previous \in earlier
                    /\ \A i \in earlier : i <= bindings[k].previous
                    /\ bindings[k].revision = bindings[bindings[k].previous].revision + 1
            /\ (bindings[k].state = "ACTIVE") <=> (later = {})

\* Retirement is final and a revision is never given out twice: an entry that
\* changes takes one of the allowed transitions and the next revision, however
\* old the entry was that the request read.
EntriesFollowTransitions ==
    [][\A c \in Catalogs : catalog'[c] # catalog[c] =>
        /\ catalog'[c].revision = catalog[c].revision + 1
        /\ \/ catalog[c].state = "NONE" /\ catalog'[c].state = "DRAFT"
           \/ catalog'[c].state \in CATALOG_TRANSITIONS[catalog[c].state]]_catalog

\* The store answers every provider request: CatalogProviderRouteSource
\* refuses all routes as long as one active alias targets an entry that is
\* not ACTIVE.
RoutesAvailable == \A a \in Aliases : Target(a) # NoCatalog => IsActive(Target(a))

Pointer == INSTANCE AliasPointer WITH
    Targets <- Catalogs,
    Nowhere <- NoCatalog,
    target <- [a \in Aliases |-> Target(a)],
    moves <- [a \in Aliases |-> ActiveRevision(a)]

\* An alias is one pointer that every activation and rollback really moves,
\* and its revision counts the moves.
MovesLikePointer == Pointer!Spec
=============================================================================
