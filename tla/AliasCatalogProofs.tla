------------------------- MODULE AliasCatalogProofs -------------------------
(***************************************************************************)
(* The catalog and its aliases for every set of aliases, entries and       *)
(* clients: what each operation keeps true.  The theorems about            *)
(* specifications are in ModelRolloutProofs, where these operations are    *)
(* steps.                                                                  *)
(*                                                                         *)
(* The chain of an alias is inductive once three facts are added: an alias *)
(* with any row has an ACTIVE one, a row targets another entry than the    *)
(* row it followed, and a request in flight read a revision that is not    *)
(* ahead of the alias.  Equal revisions then mean the very same row.       *)
(***************************************************************************)
EXTENDS AliasCatalog, Integers, SequenceTheorems, TLAPS

----------------------------------------------------------------------------
(* Rows.                                                                   *)

\* The row k of s continues the chain of its alias.
Linked(s, k) ==
    LET b == s[k] IN
    /\ b.revision <= k
    /\ \/ /\ b.previous = NoBinding /\ b.revision = 1
          /\ \A i \in 1..(k - 1) : s[i].alias # b.alias
       \/ /\ b.previous \in 1..(k - 1)
          /\ s[b.previous].alias = b.alias
          /\ b.revision = s[b.previous].revision + 1
          /\ b.catalog # s[b.previous].catalog
          /\ \A i \in (b.previous + 1)..(k - 1) : s[i].alias # b.alias

Fine(s) ==
    /\ s \in Seq(AliasBinding)
    /\ Len(s) <= MaxBindings
    /\ \A k \in 1..Len(s) : Linked(s, k)
    /\ \A i, k \in 1..Len(s) : i < k /\ s[i].alias = s[k].alias => s[i].state # "ACTIVE"
    /\ \A k \in 1..Len(s) : \E i \in 1..Len(s) :
            s[i].alias = s[k].alias /\ s[i].state = "ACTIVE"

Unbound(s, a) == \A i \in 1..Len(s) : s[i].alias # a

\* The row k is where the alias a points.
Tip(s, a, k) ==
    /\ k \in 1..Len(s) /\ s[k].alias = a /\ s[k].state = "ACTIVE"
    /\ \A i \in 1..Len(s) : s[i].alias = a => i <= k

LEMMA RowType ==
    ASSUME NEW s, Fine(s), NEW k \in 1..Len(s)
    PROVE  /\ s[k] \in AliasBinding /\ s[k].alias \in Aliases /\ s[k].catalog \in Catalogs
           /\ s[k].revision \in 1..MaxBindings /\ s[k].previous \in 0..MaxBindings
  <1>1. s[k] \in AliasBinding
    BY ElementOfSeq DEF Fine
  <1> QED
    BY <1>1 DEF AliasBinding

LEMMA Domain == ASSUME NEW s, Fine(s) PROVE DOMAIN s = 1..Len(s) /\ Len(s) \in Nat
  BY LenProperties DEF Fine

LEMMA BoundOrNot ==
    ASSUME NEW s, Fine(s), NEW a
    PROVE  Unbound(s, a) \/ \E k : Tip(s, a, k)
  <1> SUFFICES ASSUME NEW j \in 1..Len(s), s[j].alias = a PROVE \E k : Tip(s, a, k)
    BY DEF Unbound
  <1>1. PICK k \in 1..Len(s) : s[k].alias = a /\ s[k].state = "ACTIVE"
    BY DEF Fine
  <1>2. ASSUME NEW i \in 1..Len(s), s[i].alias = a PROVE i <= k
    <2>1. ~(k < i)
      BY <1>1, <1>2 DEF Fine
    <2> QED
      BY <2>1, Domain
  <1> QED
    BY <1>1, <1>2 DEF Tip

\* What the reads of the service return.
ReadsRight ==
    \A a \in Aliases :
        /\ Unbound(bindings, a) =>
            /\ ActiveIds(a) = {} /\ ActiveBinding(a) = 0 /\ ActiveRevision(a) = 0
            /\ Target(a) = NoCatalog
        /\ \A k : Tip(bindings, a, k) =>
            /\ ActiveIds(a) # {} /\ ActiveBinding(a) = k
            /\ ActiveRevision(a) = bindings[k].revision /\ Target(a) = bindings[k].catalog

LEMMA Reads == Fine(bindings) => ReadsRight
  <1> SUFFICES ASSUME Fine(bindings), NEW a \in Aliases
               PROVE  /\ Unbound(bindings, a) =>
                         /\ ActiveIds(a) = {} /\ ActiveBinding(a) = 0 /\ ActiveRevision(a) = 0
                         /\ Target(a) = NoCatalog
                      /\ \A k : Tip(bindings, a, k) =>
                         /\ ActiveIds(a) # {} /\ ActiveBinding(a) = k
                         /\ ActiveRevision(a) = bindings[k].revision
                         /\ Target(a) = bindings[k].catalog
    BY DEF ReadsRight
  <1>1. DOMAIN bindings = 1..Len(bindings)
    BY Domain
  <1>2. ASSUME Unbound(bindings, a) PROVE ActiveIds(a) = {}
    BY <1>1, <1>2 DEF Unbound, ActiveIds
  <1>3. ASSUME NEW k, Tip(bindings, a, k) PROVE ActiveIds(a) = {k}
    <2>1. k \in ActiveIds(a)
      BY <1>1, <1>3 DEF Tip, ActiveIds
    <2>2. ASSUME NEW i \in ActiveIds(a) PROVE i = k
      <3>1. i \in 1..Len(bindings) /\ bindings[i].alias = a /\ bindings[i].state = "ACTIVE"
        BY <1>1 DEF ActiveIds
      <3>2. i <= k /\ k \in 1..Len(bindings) /\ bindings[k].alias = a
        BY <1>3, <3>1 DEF Tip
      <3>3. ~(i < k)
        BY <3>1, <3>2 DEF Fine
      <3> QED
        BY <3>1, <3>2, <3>3, Domain
    <2> QED
      BY <2>1, <2>2
  <1> QED
    BY <1>2, <1>3 DEF ActiveBinding, ActiveRevision, Target, NoBinding

LEMMA ReadsNext == Fine(bindings)' => ReadsRight'
  BY Reads, PTL

----------------------------------------------------------------------------
(* A new row.                                                              *)

\* t is s with a row for the alias of new that points to new.catalog, after
\* the row k that the alias pointed to, if there was one.
Grown(s, t, k, prior, new) ==
    t = Append([i \in DOMAIN s |-> IF i = k THEN [s[i] EXCEPT !.state = prior] ELSE s[i]], new)

\* Nothing but the state of an ACTIVE row ever changes.
Prefix(s, t) ==
    /\ Len(s) <= Len(t)
    /\ \A i \in 1..Len(s) :
        /\ t[i].alias = s[i].alias /\ t[i].catalog = s[i].catalog
        /\ t[i].revision = s[i].revision /\ t[i].previous = s[i].previous
        /\ t[i].state = s[i].state \/ s[i].state = "ACTIVE"

\* The row k, if there is one, is ACTIVE.
ActiveAt(s, k) == \A i \in 1..Len(s) : i = k => s[i].state = "ACTIVE"

LEMMA GrownShape ==
    ASSUME NEW s, Fine(s), NEW k, NEW prior \in {"SUPERSEDED", "ROLLED_BACK"},
           ActiveAt(s, k), NEW new \in AliasBinding, NEW t, Grown(s, t, k, prior, new)
    PROVE  /\ t \in Seq(AliasBinding) /\ Len(t) = Len(s) + 1 /\ t[Len(s) + 1] = new
           /\ Prefix(s, t)
           /\ \A i \in 1..Len(s) : t[i].state = IF i = k THEN prior ELSE s[i].state
  <1> DEFINE u == [i \in 1..Len(s) |-> IF i = k THEN [s[i] EXCEPT !.state = prior] ELSE s[i]]
  <1>1. DOMAIN s = 1..Len(s) /\ Len(s) \in Nat
    BY Domain
  <1>2. \A i \in 1..Len(s) : s[i] \in AliasBinding
    BY RowType
  <1>3. \A i \in 1..Len(s) : u[i] \in AliasBinding
    BY <1>2 DEF AliasBinding
  <1>4. u \in [1..Len(s) -> AliasBinding]
    BY <1>3
  <1>5. u \in Seq(AliasBinding) /\ Len(u) = Len(s)
    BY <1>1, <1>4
  <1>6. t = Append(u, new)
    BY <1>1 DEF Grown
  <1>7. \A i \in 1..Len(s) : /\ u[i].alias = s[i].alias /\ u[i].catalog = s[i].catalog
                             /\ u[i].revision = s[i].revision /\ u[i].previous = s[i].previous
                             /\ u[i].state = IF i = k THEN prior ELSE s[i].state
    BY <1>2 DEF AliasBinding
  <1> HIDE DEF u
  <1>8. /\ t \in Seq(AliasBinding) /\ Len(t) = Len(s) + 1 /\ t[Len(s) + 1] = new
        /\ \A i \in 1..Len(s) : t[i] = u[i]
    BY <1>5, <1>6, AppendProperties
  <1> QED
    BY <1>1, <1>7, <1>8 DEF Prefix, ActiveAt

\* The new row follows the row the alias pointed to, and is where it points.
Follows(s, k, new) ==
    \/ k = NoBinding /\ Unbound(s, new.alias) /\ new.revision = 1
    \/ /\ Tip(s, new.alias, k) /\ new.catalog # s[k].catalog
       /\ new.revision = s[k].revision + 1

Extends(s, t, k, prior, new) ==
    /\ Len(s) < MaxBindings /\ prior \in {"SUPERSEDED", "ROLLED_BACK"}
    /\ new \in AliasBinding /\ new.previous = k /\ new.state = "ACTIVE"
    /\ Follows(s, k, new)
    /\ Grown(s, t, k, prior, new)

LEMMA GrownFine ==
    ASSUME NEW s, Fine(s), NEW k, NEW prior, NEW new, NEW t, Extends(s, t, k, prior, new)
    PROVE  Fine(t) /\ Prefix(s, t) /\ Tip(t, new.alias, Len(s) + 1)
           /\ Len(t) = Len(s) + 1 /\ t[Len(s) + 1] = new
  <1> /\ Len(s) < MaxBindings /\ prior \in {"SUPERSEDED", "ROLLED_BACK"}
      /\ new \in AliasBinding /\ new.previous = k /\ new.state = "ACTIVE"
      /\ Follows(s, k, new) /\ Grown(s, t, k, prior, new)
    BY DEF Extends
  <1> DEFINE n == Len(s) + 1
             a == new.alias
  <1>1. n \in Nat /\ Len(s) \in Nat /\ n = Len(s) + 1 /\ MaxBindings \in Nat
    BY Domain, CatalogAssumption
  <1>2. ActiveAt(s, k)
    BY <1>1 DEF Follows, Tip, NoBinding, ActiveAt
  <1>3. /\ t \in Seq(AliasBinding) /\ Len(t) = n /\ t[n] = new /\ Prefix(s, t)
        /\ \A i \in 1..Len(s) : t[i].state = IF i = k THEN prior ELSE s[i].state
    BY <1>2, GrownShape
  <1>4. \A i \in 1..Len(s) : /\ t[i].alias = s[i].alias /\ t[i].catalog = s[i].catalog
                             /\ t[i].revision = s[i].revision /\ t[i].previous = s[i].previous
    BY <1>3 DEF Prefix
  <1>5. /\ \A i \in 1..Len(s) : s[i].alias = a => i <= k
        /\ k \in 1..Len(s) \/ (k = NoBinding /\ Unbound(s, a))
        /\ k \in 1..Len(s) => s[k].alias = a
    BY <1>1 DEF Follows, Tip, Unbound, NoBinding
  <1>6. \A i \in 1..Len(s) : s[i].revision \in Nat /\ s[i].previous \in Nat
    BY RowType
  <1> HIDE DEF n, a
  <1>7. ASSUME NEW i \in 1..n PROVE Linked(t, i)
    <2>1. CASE i \in 1..Len(s)
      <3>1. Linked(s, i)
        BY <2>1 DEF Fine
      <3>2. /\ t[i].alias = s[i].alias /\ t[i].catalog = s[i].catalog
            /\ t[i].revision = s[i].revision /\ t[i].previous = s[i].previous
        BY <2>1, <1>4
      <3>3. \A m \in 1..(i - 1) : m \in 1..Len(s)
        BY <1>1, <2>1
      <3>4. CASE s[i].previous = NoBinding
        <4>1. /\ s[i].revision = 1 /\ s[i].revision <= i
              /\ \A m \in 1..(i - 1) : s[m].alias # s[i].alias
          BY <3>1, <3>4 DEF Linked, NoBinding
        <4> QED
          BY <3>2, <3>3, <3>4, <4>1, <1>4 DEF Linked
      <3>5. CASE s[i].previous # NoBinding
        <4> DEFINE v == s[i].previous
        <4>1. /\ v \in 1..(i - 1) /\ s[v].alias = s[i].alias /\ s[i].revision <= i
              /\ s[i].revision = s[v].revision + 1 /\ s[i].catalog # s[v].catalog
              /\ \A m \in (v + 1)..(i - 1) : s[m].alias # s[i].alias
          BY <3>1, <3>5 DEF Linked
        <4>2. v \in 1..Len(s)
          BY <4>1, <3>3
        <4>3. t[v].alias = s[v].alias /\ t[v].revision = s[v].revision /\ t[v].catalog = s[v].catalog
          BY <4>2, <1>4
        <4>4. \A m \in (v + 1)..(i - 1) : m \in 1..(i - 1)
          BY <4>1, <1>1
        <4>5. \A m \in (v + 1)..(i - 1) : t[m].alias # t[i].alias
          BY <4>1, <4>4, <3>2, <3>3, <1>4
        <4> QED
          BY <3>2, <4>1, <4>3, <4>5 DEF Linked
      <3> QED
        BY <3>4, <3>5
    <2>2. CASE i = n
      <3>1. \A m \in 1..(n - 1) : m \in 1..Len(s) /\ t[m].alias = s[m].alias
        BY <1>1, <1>4
      <3>2. CASE k = NoBinding /\ Unbound(s, a) /\ new.revision = 1
        <4>1. \A m \in 1..(n - 1) : t[m].alias # new.alias
          BY <3>1, <3>2 DEF Unbound, a
        <4> QED
          BY <2>2, <3>2, <4>1, <1>1, <1>3 DEF Linked
      <3>3. CASE Tip(s, a, k) /\ new.catalog # s[k].catalog /\ new.revision = s[k].revision + 1
        <4>1. k \in 1..Len(s) /\ Linked(s, k) /\ s[k].alias = a
          BY <3>3 DEF Tip, Fine
        <4>2. s[k].revision <= k
          BY <4>1 DEF Linked
        <4>3. k \in 1..(n - 1) /\ new.revision <= n
          BY <1>1, <1>6, <4>1, <4>2, <3>3
        <4>4. t[k].alias = a /\ t[k].catalog = s[k].catalog /\ t[k].revision = s[k].revision
          BY <4>1, <1>4
        <4>5. \A m \in (k + 1)..(n - 1) : m \in 1..Len(s) /\ ~(m <= k)
          BY <4>1, <1>1
        <4>6. \A m \in (k + 1)..(n - 1) : t[m].alias # a
          BY <4>5, <1>4, <1>5
        <4> QED
          BY <2>2, <1>3, <3>3, <4>3, <4>4, <4>6 DEF Linked, a
      <3> QED
        BY <3>2, <3>3 DEF Follows, a
    <2> QED
      BY <1>1, <2>1, <2>2
  <1>8. ASSUME NEW i \in 1..n, NEW m \in 1..n, i < m, t[i].alias = t[m].alias
        PROVE  t[i].state # "ACTIVE"
    <2>1. i \in 1..Len(s)
      BY <1>1, <1>8
    <2>2. CASE m \in 1..Len(s)
      <3>1. s[i].alias = s[m].alias
        BY <1>4, <1>8, <2>1, <2>2
      <3>2. s[i].state # "ACTIVE"
        BY <1>8, <2>1, <2>2, <3>1 DEF Fine
      <3> QED
        BY <1>3, <2>1, <3>2
    <2>3. CASE m = n
      <3>1. s[i].alias = a
        BY <1>3, <1>4, <1>8, <2>1, <2>3 DEF a
      <3>2. CASE i = k
        BY <1>3, <2>1, <3>2
      <3>3. CASE i # k
        <4>1. k \in 1..Len(s) /\ i <= k /\ s[k].alias = a
          BY <1>5, <2>1, <3>1 DEF Unbound
        <4>2. i < k
          BY <4>1, <3>3, <1>1, <2>1
        <4>3. s[i].state # "ACTIVE"
          BY <2>1, <3>1, <4>1, <4>2 DEF Fine
        <4> QED
          BY <1>3, <2>1, <4>3
      <3> QED
        BY <3>2, <3>3
    <2> QED
      BY <1>1, <2>2, <2>3
  <1>9. ASSUME NEW i \in 1..n PROVE \E m \in 1..n : t[m].alias = t[i].alias /\ t[m].state = "ACTIVE"
    <2>1. CASE t[i].alias = a
      <3>1. n \in 1..n /\ t[n].alias = a /\ t[n].state = "ACTIVE"
        BY <1>1, <1>3 DEF a
      <3> QED
        BY <2>1, <3>1
    <2>2. CASE t[i].alias # a
      <3>1. i \in 1..Len(s) /\ s[i].alias = t[i].alias
        BY <1>1, <1>3, <1>4, <2>2 DEF a
      <3>2. PICK m \in 1..Len(s) : s[m].alias = s[i].alias /\ s[m].state = "ACTIVE"
        BY <3>1 DEF Fine
      <3>3. m # k
        BY <1>5, <2>2, <3>1, <3>2
      <3>4. m \in 1..n /\ t[m].alias = t[i].alias /\ t[m].state = "ACTIVE"
        BY <1>1, <1>3, <1>4, <3>1, <3>2, <3>3
      <3> QED
        BY <3>4
    <2> QED
      BY <2>1, <2>2
  <1>10. n <= MaxBindings
    BY <1>1
  <1>11. Fine(t)
    BY <1>3, <1>7, <1>8, <1>9, <1>10 DEF Fine
  <1>12. Tip(t, a, n)
    BY <1>1, <1>3 DEF Tip, a
  <1> QED
    BY <1>3, <1>11, <1>12 DEF a, n

\* What the other aliases point to stays, and so does what this one pointed to
\* unless it is the alias of the new row.
LEMMA GrownElsewhere ==
    ASSUME NEW s, Fine(s), NEW k, NEW prior, NEW new, NEW t, Extends(s, t, k, prior, new),
           NEW a, a # new.alias
    PROVE  /\ Unbound(s, a) => Unbound(t, a)
           /\ \A i : Tip(s, a, i) => Tip(t, a, i)
  <1> /\ prior \in {"SUPERSEDED", "ROLLED_BACK"} /\ new \in AliasBinding
      /\ Follows(s, k, new) /\ Grown(s, t, k, prior, new)
    BY DEF Extends
  <1>1. Len(s) \in Nat
    BY Domain
  <1>2. \A i \in 1..Len(s) : i = k => s[i].state = "ACTIVE" /\ s[i].alias = new.alias
    BY <1>1 DEF Follows, Tip, NoBinding
  <1> ActiveAt(s, k)
    BY <1>2 DEF ActiveAt
  <1>3. /\ Len(t) = Len(s) + 1 /\ t[Len(s) + 1] = new /\ Prefix(s, t)
        /\ \A i \in 1..Len(s) : t[i].state = IF i = k THEN prior ELSE s[i].state
    BY <1>2, GrownShape
  <1>4. \A i \in 1..Len(s) : t[i].alias = s[i].alias
    BY <1>3 DEF Prefix
  <1>5. \A i \in 1..Len(t) : i \in 1..Len(s) \/ (i = Len(s) + 1 /\ t[i].alias = new.alias)
    BY <1>1, <1>3
  <1>6. Unbound(s, a) => Unbound(t, a)
    BY <1>4, <1>5 DEF Unbound
  <1>7. ASSUME NEW i, Tip(s, a, i) PROVE Tip(t, a, i)
    <2>1. i \in 1..Len(s) /\ s[i].alias = a /\ s[i].state = "ACTIVE"
      BY <1>7 DEF Tip
    <2>2. i # k /\ i \in 1..Len(t) /\ t[i].alias = a /\ t[i].state = "ACTIVE"
      BY <1>1, <1>2, <1>3, <1>4, <2>1
    <2>3. \A m \in 1..Len(t) : t[m].alias = a => m <= i
      BY <1>4, <1>5, <1>7 DEF Tip
    <2> QED
      BY <2>2, <2>3 DEF Tip
  <1> QED
    BY <1>6, <1>7

----------------------------------------------------------------------------
(* The invariant of the catalog.                                           *)

\* An entry's revision counts its transitions.
EntryOK(e) ==
    /\ e \in CatalogEntry
    /\ e.state = "NONE" => e.revision = 0
    /\ e.state = "DRAFT" => e.revision = 1
    /\ e.state = "ACTIVE" => e.revision \in 1..2
    /\ e.state = "RETIRED" => e.revision \in 2..3

\* A request that read revision n of the alias a is to point it to c: if the
\* revision is still the one it read, the alias points elsewhere.
Knows(s, a, n, c) ==
    \/ Unbound(s, a) /\ n = 0
    \/ \E k : Tip(s, a, k) /\ n <= s[k].revision /\ (n = s[k].revision => c # s[k].catalog)

\* A request that read revision n of the alias a: if it is still the one, the
\* alias points to the row j.
KnowsRow(s, a, n, j) ==
    \E k : Tip(s, a, k) /\ n <= s[k].revision /\ (n = s[k].revision => j = k)

CallOK(q, entries, s) ==
    /\ q \in Call
    /\ q.step = "update" =>
        /\ q.revision <= entries[q.catalog].revision
        /\ q.revision = entries[q.catalog].revision =>
                q.state \in CATALOG_TRANSITIONS[entries[q.catalog].state]
    /\ q.step = "replace" => Knows(s, q.alias, q.revision, q.catalog)
    /\ q.step = "returned" => q.binding \in 1..Len(s)

EntriesOK(entries) ==
    entries \in [Catalogs -> CatalogEntry] /\ \A c \in Catalogs : EntryOK(entries[c])

CallsOK(calls, entries, s) ==
    calls \in [Clients -> Call] /\ \A p \in Clients : CallOK(calls[p], entries, s)

CatalogInv == EntriesOK(catalog) /\ Fine(bindings) /\ CallsOK(call, catalog, bindings)

LEMMA CallShape ==
    ASSUME NEW q \in Call
    PROVE  /\ q.step = "update" =>
               q.catalog \in Catalogs /\ q.state \in {"ACTIVE", "RETIRED"} /\ q.revision \in 1..3
           /\ q.step = "replace" =>
               /\ q.alias \in Aliases /\ q.catalog \in Catalogs
               /\ q.revision \in 0..MaxBindings /\ q.prior \in {"SUPERSEDED", "ROLLED_BACK"}
           /\ q.step = "returned" => q.binding \in 1..MaxBindings
  BY DEF Call

LEMMA PlainCallOK ==
    \A entries, s : CallOK(Idle, entries, s) /\ CallOK(Refused, entries, s)
  BY DEF CallOK, Call, Idle, Refused

LEMMA CatalogInvImplies == CatalogInv => CatalogTypeOK /\ LineageIsChain
  <1> SUFFICES ASSUME CatalogInv PROVE CatalogTypeOK /\ LineageIsChain
    OBVIOUS
  <1>1. CatalogTypeOK
    BY DEF CatalogInv, EntriesOK, Fine, CallsOK, CatalogTypeOK
  <1>2. DOMAIN bindings = 1..Len(bindings) /\ Len(bindings) \in Nat /\ Fine(bindings)
    BY Domain DEF CatalogInv
  <1>3. ASSUME NEW k \in 1..Len(bindings)
        PROVE  LET earlier == {i \in 1..(k - 1) : bindings[i].alias = bindings[k].alias}
                   later == {i \in 1..Len(bindings) :
                                i > k /\ bindings[i].alias = bindings[k].alias}
               IN  /\ IF earlier = {}
                      THEN bindings[k].revision = 1 /\ bindings[k].previous = NoBinding
                      ELSE /\ bindings[k].previous \in earlier
                           /\ \A i \in earlier : i <= bindings[k].previous
                           /\ bindings[k].revision = bindings[bindings[k].previous].revision + 1
                   /\ (bindings[k].state = "ACTIVE") <=> (later = {})
    <2> DEFINE a == bindings[k].alias
               v == bindings[k].previous
               earlier == {i \in 1..(k - 1) : bindings[i].alias = a}
               later == {i \in 1..Len(bindings) : i > k /\ bindings[i].alias = a}
    <2>1. Linked(bindings, k)
      BY <1>2 DEF Fine
    <2>2. v \in Nat
      BY <1>2, RowType
    <2>3. ASSUME bindings[k].state = "ACTIVE" PROVE later = {}
      BY <1>2, <2>3 DEF Fine
    <2>4. ASSUME later = {} PROVE bindings[k].state = "ACTIVE"
      <3>1. PICK i \in 1..Len(bindings) : bindings[i].alias = a /\ bindings[i].state = "ACTIVE"
        BY <1>2 DEF Fine
      <3>2. ~(i < k)
        BY <1>2, <3>1 DEF Fine
      <3>3. ~(i > k)
        BY <2>4, <3>1
      <3>4. i = k
        BY <1>2, <3>2, <3>3
      <3> QED
        BY <3>1, <3>4
    <2>5. IF earlier = {}
          THEN bindings[k].revision = 1 /\ v = NoBinding
          ELSE /\ v \in earlier
               /\ \A i \in earlier : i <= v
               /\ bindings[k].revision = bindings[v].revision + 1
      <3>1. CASE /\ v = NoBinding /\ bindings[k].revision = 1
                 /\ \A i \in 1..(k - 1) : bindings[i].alias # a
        BY <3>1
      <3>2. CASE /\ v \in 1..(k - 1) /\ bindings[v].alias = a
                 /\ bindings[k].revision = bindings[v].revision + 1
                 /\ \A i \in (v + 1)..(k - 1) : bindings[i].alias # a
        <4>1. v \in earlier
          BY <3>2
        <4>2. \A i \in earlier : i <= v
          BY <1>2, <2>2, <3>2
        <4> QED
          BY <3>2, <4>1, <4>2
      <3> QED
        BY <2>1, <3>1, <3>2 DEF Linked
    <2> QED
      BY <2>3, <2>4, <2>5
  <1>4. LineageIsChain
    <2> SUFFICES ASSUME NEW b \in Aliases, NEW k \in DOMAIN bindings, bindings[k].alias = b
                 PROVE  LET earlier == {i \in 1..(k - 1) : bindings[i].alias = b}
                            later == {i \in DOMAIN bindings : i > k /\ bindings[i].alias = b}
                        IN  /\ IF earlier = {}
                               THEN bindings[k].revision = 1 /\ bindings[k].previous = NoBinding
                               ELSE /\ bindings[k].previous \in earlier
                                    /\ \A i \in earlier : i <= bindings[k].previous
                                    /\ bindings[k].revision
                                            = bindings[bindings[k].previous].revision + 1
                            /\ (bindings[k].state = "ACTIVE") <=> (later = {})
      BY DEF LineageIsChain
    <2>1. k \in 1..Len(bindings)
      BY <1>2
    <2> QED
      BY <1>2, <1>3, <2>1
  <1> QED
    BY <1>1, <1>4

----------------------------------------------------------------------------
(* Steps of one call.                                                      *)

LEMMA OneCall ==
    ASSUME NEW calls, NEW entries, NEW s, CallsOK(calls, entries, s),
           NEW entries2, NEW t, NEW p \in Clients, NEW q, CallOK(q, entries2, t),
           NEW calls2, calls2 = [calls EXCEPT ![p] = q],
           \A r \in Clients : CallOK(calls[r], entries, s) => CallOK(calls[r], entries2, t)
    PROVE  CallsOK(calls2, entries2, t)
  <1>1. calls \in [Clients -> Call] /\ q \in Call
    BY DEF CallsOK, CallOK
  <1>2. calls2 \in [Clients -> Call]
    BY <1>1
  <1>3. \A r \in Clients : calls2[r] = IF r = p THEN q ELSE calls[r]
    BY <1>1
  <1> QED
    BY <1>2, <1>3 DEF CallsOK

LEMMA CallStep ==
    ASSUME CatalogInv, NEW p \in Clients, NEW q, CallOK(q, catalog, bindings),
           call' = [call EXCEPT ![p] = q], UNCHANGED <<catalog, bindings>>
    PROVE  CatalogInv'
  <1>1. CallsOK(call', catalog, bindings)
    BY OneCall DEF CatalogInv
  <1> QED
    BY <1>1 DEF CatalogInv

LEMMA AnswerIs ==
    ASSUME NEW p, NEW q, Answer(p, q)
    PROVE  \/ p \in Operators /\ call' = [call EXCEPT ![p] = Idle]
           \/ p \notin Operators /\ call' = [call EXCEPT ![p] = q]
  BY DEF Answer

----------------------------------------------------------------------------
(* The entries.                                                            *)

\* An entry may change this way.
Transits(e, f) ==
    /\ f.revision = e.revision + 1
    /\ \/ e.state = "NONE" /\ f.state = "DRAFT"
       \/ f.state \in CATALOG_TRANSITIONS[e.state]

LEMMA TransitionsTable ==
    ASSUME NEW x, NEW y \in CATALOG_TRANSITIONS[x],
           x \in {"NONE", "DRAFT", "ACTIVE", "RETIRED"}
    PROVE  (x = "DRAFT" /\ y \in {"ACTIVE", "RETIRED"}) \/ (x = "ACTIVE" /\ y = "RETIRED")
  BY DEF CATALOG_TRANSITIONS

LEMMA EntryShape ==
    ASSUME NEW e, EntryOK(e)
    PROVE  e.state \in {"NONE", "DRAFT", "ACTIVE", "RETIRED"} /\ e.revision \in 0..3
  BY DEF EntryOK, CatalogEntry, CATALOG_TRANSITIONS

LEMMA TransitedOK ==
    ASSUME NEW e, EntryOK(e), NEW y, NEW n, Transits(e, [state |-> y, revision |-> n])
    PROVE  EntryOK([state |-> y, revision |-> n])
  <1> DEFINE f == [state |-> y, revision |-> n]
  <1>1. f.state = y /\ f.revision = n /\ n = e.revision + 1
    BY DEF Transits
  <1>2. /\ e.state \in {"NONE", "DRAFT", "ACTIVE", "RETIRED"} /\ e.revision \in 0..3
        /\ DOMAIN CATALOG_TRANSITIONS = {"NONE", "DRAFT", "ACTIVE", "RETIRED"}
    BY EntryShape DEF CATALOG_TRANSITIONS
  <1>3. \/ e.state = "NONE" /\ y = "DRAFT"
        \/ e.state = "DRAFT" /\ y \in {"ACTIVE", "RETIRED"}
        \/ e.state = "ACTIVE" /\ y = "RETIRED"
    BY <1>2, TransitionsTable DEF Transits
  <1>4. y \in {"DRAFT", "ACTIVE", "RETIRED"} /\ n \in 1..3
        /\ (y = "DRAFT" => n = 1) /\ (y = "ACTIVE" => n \in 1..2) /\ (y = "RETIRED" => n \in 2..3)
    BY <1>1, <1>2, <1>3 DEF EntryOK
  <1>5. f \in CatalogEntry
    BY <1>2, <1>4 DEF CatalogEntry
  <1> QED
    BY <1>1, <1>4, <1>5 DEF EntryOK

\* A step that changes one entry.
LEMMA EntryStep ==
    ASSUME CatalogInv, NEW c \in Catalogs, NEW y, NEW n,
           Transits(catalog[c], [state |-> y, revision |-> n]),
           catalog' = [catalog EXCEPT ![c] = [state |-> y, revision |-> n]]
    PROVE  /\ EntriesOK(catalog')
           /\ \A d \in Catalogs : catalog'[d] # catalog[d] => Transits(catalog[d], catalog'[d])
           /\ \A q : CallOK(q, catalog, bindings) => CallOK(q, catalog', bindings)
  <1> DEFINE f == [state |-> y, revision |-> n]
  <1>1. catalog \in [Catalogs -> CatalogEntry] /\ EntryOK(f) /\ f \in CatalogEntry
        /\ f.revision = catalog[c].revision + 1
    BY TransitedOK DEF CatalogInv, EntriesOK, EntryOK, Transits
  <1>2. Transits(catalog[c], f)
    OBVIOUS
  <1> HIDE DEF f
  <1>3. \A d \in Catalogs : catalog'[d] = IF d = c THEN f ELSE catalog[d]
    BY <1>1 DEF f
  <1>4. catalog' \in [Catalogs -> CatalogEntry]
    BY <1>1 DEF f
  <1>5. EntriesOK(catalog')
    BY <1>1, <1>3, <1>4 DEF CatalogInv, EntriesOK
  <1>6. ASSUME NEW q, CallOK(q, catalog, bindings) PROVE CallOK(q, catalog', bindings)
    <2>1. CASE q.step = "update" /\ q.catalog = c
      <3>1. q.revision <= catalog[c].revision /\ q.revision \in 1..3
        BY <1>6, <2>1, CallShape DEF CallOK
      <3>2. catalog[c].revision \in 0..3
        BY EntryShape DEF CatalogInv, EntriesOK
      <3>3. q.revision < catalog'[c].revision /\ catalog'[c].revision \in Nat
        BY <1>1, <1>3, <3>1, <3>2
      <3> QED
        BY <1>6, <2>1, <3>1, <3>3 DEF CallOK
    <2>2. CASE q.step = "update" /\ q.catalog # c
      <3>1. q.catalog \in Catalogs
        BY <1>6, <2>2, CallShape DEF CallOK
      <3> QED
        BY <1>3, <1>6, <2>2, <3>1 DEF CallOK
    <2>3. CASE q.step # "update"
      BY <1>6, <2>3 DEF CallOK
    <2> QED
      BY <2>1, <2>2, <2>3
  <1> QED
    BY <1>2, <1>3, <1>5, <1>6
----------------------------------------------------------------------------
(* The operations.                                                         *)

\* The transitions an entry takes in a step, and what a step does to the
\* aliases as providers see them.
CatalogMoves ==
    \A c \in Catalogs : catalog'[c] # catalog[c] => Transits(catalog[c], catalog'[c])

AliasesKept ==
    \A a \in Aliases : Target(a)' = Target(a) /\ ActiveRevision(a)' = ActiveRevision(a)

AliasMoved(a) ==
    /\ Target(a)' \in Catalogs \ {Target(a)} /\ ActiveRevision(a)' = ActiveRevision(a) + 1
    /\ \A b \in Aliases \ {a} :
        Target(b)' = Target(b) /\ ActiveRevision(b)' = ActiveRevision(b)

StepOK ==
    /\ CatalogInv'
    /\ CatalogMoves
    /\ Prefix(bindings, bindings')
    /\ AliasesKept \/ \E a \in Aliases : AliasMoved(a)

LEMMA SamePrefix == \A s : Fine(s) => Prefix(s, s)
  BY Domain DEF Prefix

LEMMA SameAliases == UNCHANGED bindings => AliasesKept
  BY DEF AliasesKept, Target, ActiveRevision, ActiveBinding, ActiveIds

\* Steps that only change a call.
LEMMA CallStepOK ==
    ASSUME CatalogInv, NEW p \in Clients, NEW q, CallOK(q, catalog, bindings),
           call' = [call EXCEPT ![p] = q], UNCHANGED <<catalog, bindings>>
    PROVE  StepOK
  <1>1. CatalogInv'
    BY CallStep
  <1>2. Prefix(bindings, bindings') /\ AliasesKept /\ CatalogMoves
    BY SamePrefix, SameAliases DEF CatalogInv, CatalogMoves
  <1> QED
    BY <1>1, <1>2 DEF StepOK

LEMMA RegisterEntryStep ==
    ASSUME CatalogInv, NEW p \in Clients, NEW c \in Catalogs, RegisterEntry(p, c)
    PROVE  StepOK
  <1>1. EntryOK(catalog[c]) /\ catalog[c].state = "NONE" /\ catalog[c].revision = 0
    BY DEF CatalogInv, EntriesOK, EntryOK, RegisterEntry
  <1>2. Transits(catalog[c], [state |-> "DRAFT", revision |-> 1])
    BY <1>1 DEF Transits
  <1>3. /\ EntriesOK(catalog') /\ CatalogMoves
        /\ \A q : CallOK(q, catalog, bindings) => CallOK(q, catalog', bindings)
    BY <1>2, EntryStep DEF RegisterEntry, CatalogMoves
  <1>4. CallsOK(call, catalog', bindings)
    BY <1>3 DEF CatalogInv, CallsOK
  <1>5. UNCHANGED <<bindings, call>>
    BY DEF RegisterEntry
  <1>6. CatalogInv'
    BY <1>3, <1>4, <1>5 DEF CatalogInv
  <1>7. Prefix(bindings, bindings') /\ AliasesKept
    BY <1>5, SamePrefix, SameAliases DEF CatalogInv
  <1> QED
    BY <1>3, <1>6, <1>7 DEF StepOK

LEMMA BeginTransitionStep ==
    ASSUME CatalogInv, NEW p \in Clients, NEW c \in Catalogs, NEW y \in {"ACTIVE", "RETIRED"},
           BeginTransition(p, c, y)
    PROVE  StepOK
  <1> DEFINE q == [step |-> "update", catalog |-> c, state |-> y, revision |-> catalog[c].revision]
  <1>1. EntryOK(catalog[c])
    BY DEF CatalogInv, EntriesOK
  <1>2. catalog[c].state \in {"DRAFT", "ACTIVE"} /\ catalog[c].revision \in 1..3
    BY <1>1, EntryShape, TransitionsTable DEF BeginTransition, EntryOK
  <1>3. q \in Call
    BY <1>2 DEF Call
  <1>4. CallOK(q, catalog, bindings)
    BY <1>2, <1>3 DEF CallOK, BeginTransition
  <1>5. call' = [call EXCEPT ![p] = q] /\ UNCHANGED <<catalog, bindings>>
    BY DEF BeginTransition
  <1> QED
    BY <1>4, <1>5, CallStepOK

LEMMA EndTransitionStep ==
    ASSUME CatalogInv, NEW p \in Clients, EndTransition(p)
    PROVE  StepOK
  <1> DEFINE c == call[p].catalog
             y == call[p].state
             n == catalog[c].revision + 1
  <1>1. CallOK(call[p], catalog, bindings) /\ call[p] \in Call /\ call[p].step = "update"
    BY DEF CatalogInv, CallsOK, CallOK, EndTransition
  <1>2. c \in Catalogs
    BY <1>1, CallShape
  <1>3. call' = [call EXCEPT ![p] = Idle] /\ UNCHANGED bindings
    BY DEF EndTransition, Answer
  <1>4. CASE SameEntryRevision(c, call[p].revision)
    <2>1. catalog' = [catalog EXCEPT ![c] = [state |-> y, revision |-> n]]
      BY <1>4 DEF EndTransition
    <2>2. y \in CATALOG_TRANSITIONS[catalog[c].state]
      BY <1>1, <1>4 DEF CallOK, SameEntryRevision
    <2>3. Transits(catalog[c], [state |-> y, revision |-> n])
      BY <2>2 DEF Transits
    <2>4. /\ EntriesOK(catalog') /\ CatalogMoves
          /\ \A q : CallOK(q, catalog, bindings) => CallOK(q, catalog', bindings)
      BY <1>2, <2>1, <2>3, EntryStep DEF CatalogMoves
    <2>5. CallsOK(call', catalog', bindings)
      BY <1>3, <2>4, OneCall, PlainCallOK DEF CatalogInv
    <2>6. CatalogInv'
      BY <1>3, <2>4, <2>5 DEF CatalogInv
    <2>7. Prefix(bindings, bindings') /\ AliasesKept
      BY <1>3, SamePrefix, SameAliases DEF CatalogInv
    <2> QED
      BY <2>4, <2>6, <2>7 DEF StepOK
  <1>5. CASE ~SameEntryRevision(c, call[p].revision)
    <2>1. UNCHANGED catalog
      BY <1>5 DEF EndTransition
    <2> QED
      BY <1>3, <2>1, CallStepOK, PlainCallOK
  <1> QED
    BY <1>4, <1>5

----------------------------------------------------------------------------
(* The aliases.                                                            *)

\* What a service that reads an alias knows of it.
LEMMA KnowsNow ==
    ASSUME Fine(bindings), NEW a \in Aliases, NEW c, c # Target(a)
    PROVE  Knows(bindings, a, ActiveRevision(a), c) /\ ActiveRevision(a) \in 0..MaxBindings
  <1>1. ReadsRight /\ MaxBindings \in Nat
    BY Reads, CatalogAssumption
  <1>2. CASE Unbound(bindings, a)
    BY <1>1, <1>2 DEF ReadsRight, Knows
  <1>3. ASSUME NEW k, Tip(bindings, a, k)
        PROVE  Knows(bindings, a, ActiveRevision(a), c) /\ ActiveRevision(a) \in 0..MaxBindings
    <2>1. ActiveRevision(a) = bindings[k].revision /\ Target(a) = bindings[k].catalog
      BY <1>1, <1>3 DEF ReadsRight
    <2>2. bindings[k].revision \in 1..MaxBindings
      BY <1>3, RowType DEF Tip
    <2> QED
      BY <1>1, <1>3, <2>1, <2>2 DEF Knows
  <1> QED
    BY <1>2, <1>3, BoundOrNot

LEMMA BeginReplaceStep ==
    ASSUME CatalogInv, NEW p \in Clients, NEW a \in Aliases, NEW c \in Catalogs, c # Target(a),
           NEW prior \in {"SUPERSEDED", "ROLLED_BACK"}, BeginReplace(p, a, c, prior)
    PROVE  StepOK
  <1> DEFINE q == [step |-> "replace", alias |-> a, catalog |-> c,
                   revision |-> ActiveRevision(a), prior |-> prior]
  <1>1. Knows(bindings, a, ActiveRevision(a), c) /\ ActiveRevision(a) \in 0..MaxBindings
    BY KnowsNow DEF CatalogInv
  <1>2. q \in Call
    BY <1>1 DEF Call
  <1>3. CallOK(q, catalog, bindings)
    BY <1>1, <1>2 DEF CallOK
  <1>4. call' = [call EXCEPT ![p] = q] /\ UNCHANGED <<catalog, bindings>>
    BY DEF BeginReplace
  <1> QED
    BY <1>3, <1>4, CallStepOK

LEMMA ActivateAliasStep ==
    ASSUME CatalogInv, NEW p \in Clients, NEW a \in Aliases, NEW c \in Catalogs,
           ActivateAlias(p, a, c)
    PROVE  StepOK
  BY BeginReplaceStep DEF ActivateAlias, AlreadyActive

\* The rollback points an alias elsewhere: to the row before its own.
LEMMA RollbackTargetIs ==
    ASSUME Fine(bindings), NEW a \in Aliases, RollbackTarget(a) # NoCatalog
    PROVE  \E k : /\ Tip(bindings, a, k) /\ bindings[k].previous \in 1..(k - 1)
                  /\ RollbackTarget(a) = bindings[bindings[k].previous].catalog
                  /\ RollbackTarget(a) \in Catalogs /\ RollbackTarget(a) # Target(a)
  <1>1. ReadsRight
    BY Reads
  <1>2. ActiveIds(a) # {} /\ bindings[ActiveBinding(a)].previous # NoBinding
    BY DEF RollbackTarget
  <1>3. PICK k : Tip(bindings, a, k)
    BY <1>1, <1>2, BoundOrNot DEF ReadsRight
  <1>4. ActiveBinding(a) = k /\ Target(a) = bindings[k].catalog
    BY <1>1, <1>3 DEF ReadsRight
  <1>5. k \in 1..Len(bindings) /\ Linked(bindings, k) /\ Len(bindings) \in Nat
    BY <1>3, Domain DEF Tip, Fine
  <1>6. bindings[k].previous \in 1..(k - 1)
        /\ bindings[k].catalog # bindings[bindings[k].previous].catalog
    BY <1>2, <1>4, <1>5 DEF Linked
  <1>7. bindings[k].previous \in 1..Len(bindings)
    BY <1>5, <1>6
  <1>8. bindings[bindings[k].previous].catalog \in Catalogs
    BY <1>7, RowType
  <1>9. RollbackTarget(a) = bindings[bindings[k].previous].catalog
    BY <1>2, <1>4 DEF RollbackTarget
  <1> QED
    BY <1>3, <1>4, <1>6, <1>8, <1>9

LEMMA RollbackAliasStep ==
    ASSUME CatalogInv, NEW p \in Clients, NEW a \in Aliases, RollbackAlias(p, a)
    PROVE  StepOK
  <1>1. RollbackTarget(a) \in Catalogs /\ RollbackTarget(a) # Target(a)
    BY RollbackTargetIs DEF RollbackAlias, CatalogInv
  <1> QED
    BY <1>1, BeginReplaceStep DEF RollbackAlias
LEMMA TipUnique ==
    ASSUME NEW s, Fine(s), NEW a, NEW i, Tip(s, a, i), NEW k, Tip(s, a, k) PROVE i = k
  BY Domain DEF Tip

LEMMA TipNotUnbound == \A s, a, k : Tip(s, a, k) => ~Unbound(s, a)
  BY DEF Tip, Unbound

\* A new row only makes what the other requests know of the alias older.
LEMMA GrownKnows ==
    ASSUME NEW s, Fine(s), NEW k, NEW prior, NEW new, NEW t, Extends(s, t, k, prior, new),
           NEW b, NEW m \in Nat, NEW d, Knows(s, b, m, d)
    PROVE  Knows(t, b, m, d)
  <1> new \in AliasBinding /\ Follows(s, k, new)
    BY DEF Extends
  <1>1. /\ Fine(t) /\ Prefix(s, t) /\ Tip(t, new.alias, Len(s) + 1)
        /\ t[Len(s) + 1] = new /\ Len(s) \in Nat
    BY GrownFine, Domain
  <1>2. CASE b = new.alias
    <2>1. new.revision \in Nat
      BY DEF AliasBinding
    <2>2. m < new.revision
      <3>1. CASE k = NoBinding /\ Unbound(s, b) /\ new.revision = 1
        BY <3>1, TipNotUnbound DEF Knows
      <3>2. CASE Tip(s, b, k) /\ new.revision = s[k].revision + 1
        <4>1. PICK i : Tip(s, b, i) /\ m <= s[i].revision
          BY <3>2, TipNotUnbound DEF Knows
        <4>2. i = k /\ s[k].revision \in Nat
          BY <3>2, <4>1, TipUnique, RowType DEF Tip
        <4> QED
          BY <3>2, <4>1, <4>2
      <3> QED
        BY <1>2, <3>1, <3>2 DEF Follows
    <2>3. m <= t[Len(s) + 1].revision /\ m # t[Len(s) + 1].revision
      BY <1>1, <2>1, <2>2
    <2> QED
      BY <1>1, <1>2, <2>3 DEF Knows
  <1>3. CASE b # new.alias
    <2>0. (Unbound(s, b) => Unbound(t, b)) /\ \A i : Tip(s, b, i) => Tip(t, b, i)
      BY <1>3, GrownElsewhere
    <2>1. CASE Unbound(s, b) /\ m = 0
      BY <2>0, <2>1 DEF Knows
    <2>2. ASSUME NEW i, Tip(s, b, i), m <= s[i].revision, m = s[i].revision => d # s[i].catalog
          PROVE  Knows(t, b, m, d)
      <3>1. Tip(t, b, i)
        BY <2>0, <2>2
      <3>2. t[i].revision = s[i].revision /\ t[i].catalog = s[i].catalog
        BY <1>1, <2>2 DEF Tip, Prefix
      <3> QED
        BY <2>2, <3>1, <3>2 DEF Knows
    <2> QED
      BY <2>1, <2>2 DEF Knows
  <1> QED
    BY <1>2, <1>3

LEMMA GrownKnowsRow ==
    ASSUME NEW s, Fine(s), NEW k, NEW prior, NEW new, NEW t, Extends(s, t, k, prior, new),
           NEW b, NEW m \in Nat, NEW j, KnowsRow(s, b, m, j)
    PROVE  KnowsRow(t, b, m, j)
  <1>1. /\ Fine(t) /\ Prefix(s, t) /\ Tip(t, new.alias, Len(s) + 1)
        /\ t[Len(s) + 1] = new /\ Len(s) \in Nat
    BY GrownFine, Domain
  <1>2. PICK i : Tip(s, b, i) /\ m <= s[i].revision /\ (m = s[i].revision => j = i)
    BY DEF KnowsRow
  <1>3. t[i].revision = s[i].revision /\ s[i].revision \in Nat
    BY <1>1, <1>2, RowType DEF Tip, Prefix
  <1>4. CASE b = new.alias
    <2>1. Follows(s, k, new) /\ new \in AliasBinding
      BY DEF Extends
    <2>2. Tip(s, b, k) /\ new.revision = s[k].revision + 1
      BY <1>2, <1>4, <2>1, TipNotUnbound DEF Follows
    <2>3. k = i
      BY <1>2, <2>2, TipUnique
    <2>4. m <= new.revision /\ m # new.revision
      BY <1>2, <1>3, <2>2, <2>3
    <2> QED
      BY <1>1, <1>4, <2>4 DEF KnowsRow
  <1>5. CASE b # new.alias
    <2>1. \A l : Tip(s, b, l) => Tip(t, b, l)
      BY <1>5, GrownElsewhere
    <2> QED
      BY <1>2, <1>3, <2>1 DEF KnowsRow
  <1> QED
    BY <1>4, <1>5

\* The commit of a replacement: the row it adds, and what the alias was.
Committed(p) ==
    LET a == call[p].alias
        k == ActiveBinding(a)
        n == Len(bindings) + 1
    IN  /\ Len(bindings') = n
        /\ Fine(bindings') /\ Prefix(bindings, bindings') /\ Tip(bindings', a, n)
        /\ bindings'[n].catalog = call[p].catalog /\ bindings'[n].previous = k
        /\ ActiveRevision(a) = call[p].revision
        /\ \A b, m, j : m \in Nat /\ KnowsRow(bindings, b, m, j) => KnowsRow(bindings', b, m, j)
        /\ \A i \in 1..Len(bindings) :
            bindings'[i].state = IF i = k THEN call[p].prior ELSE bindings[i].state
        /\ \/ p \in Operators /\ call' = [call EXCEPT ![p] = Idle]
           \/ p \notin Operators
              /\ call' = [call EXCEPT ![p] = [step |-> "returned", binding |-> n]]

\* The alias of the request now points where the request said, no other moved.
PointedAt(p) ==
    \A b \in Aliases : Target(b)' = IF b = call[p].alias THEN call[p].catalog ELSE Target(b)

NotCommitted(p) ==
    /\ UNCHANGED bindings
    /\ \/ p \in Operators /\ call' = [call EXCEPT ![p] = Idle]
       \/ p \notin Operators /\ call' = [call EXCEPT ![p] = Refused]

LEMMA EndReplaceStep ==
    ASSUME CatalogInv, NEW p \in Clients, EndReplace(p)
    PROVE  StepOK /\ ((Committed(p) /\ PointedAt(p)) \/ NotCommitted(p))
  <1>0. PICK a, c, prior, m, k, n :
            /\ a = call[p].alias /\ c = call[p].catalog /\ prior = call[p].prior
            /\ m = call[p].revision /\ k = ActiveBinding(a) /\ n = Len(bindings) + 1
    OBVIOUS
  <1>1. /\ CallOK(call[p], catalog, bindings) /\ call[p] \in Call /\ call[p].step = "replace"
        /\ UNCHANGED catalog /\ Fine(bindings)
    BY DEF CatalogInv, CallsOK, CallOK, EndReplace
  <1> DEFINE new == Binding(a, c, m + 1, k)
  <1>2. /\ a \in Aliases /\ c \in Catalogs /\ m \in 0..MaxBindings
        /\ prior \in {"SUPERSEDED", "ROLLED_BACK"}
    BY <1>0, <1>1, CallShape
  <1>3. Knows(bindings, a, m, c)
    BY <1>0, <1>1 DEF CallOK
  <1>4. ReadsRight /\ Len(bindings) \in Nat /\ MaxBindings \in Nat
    BY <1>1, Reads, Domain, CatalogAssumption
  <1>5. CASE ~SameRevision(a, m)
    <2>1. UNCHANGED <<catalog, bindings>> /\ Answer(p, Refused)
      BY <1>0, <1>1, <1>5 DEF EndReplace
    <2>2. NotCommitted(p)
      BY <2>1, AnswerIs DEF NotCommitted
    <2>3. StepOK
      BY <2>1, AnswerIs, CallStepOK, PlainCallOK
    <2> QED
      BY <2>2, <2>3
  <1>6. CASE SameRevision(a, m)
    <2>1. /\ Len(bindings) < MaxBindings /\ Grown(bindings, bindings', k, prior, new)
          /\ Answer(p, [step |-> "returned", binding |-> n]) /\ ActiveRevision(a) = m
      BY <1>0, <1>6 DEF EndReplace, SameRevision, Grown
    <2>2. new = Binding(a, c, m + 1, k)
      OBVIOUS
    <2> HIDE DEF new
    <2>4. /\ new.previous = k /\ new.state = "ACTIVE" /\ new.alias = a /\ new.catalog = c
          /\ new.revision = m + 1
      BY <2>2 DEF Binding
    <2>5. new \in AliasBinding /\ Follows(bindings, k, new) /\ c # Target(a)
      <3>1. CASE Unbound(bindings, a)
        <4>1. k = 0 /\ m = 0 /\ Target(a) = NoCatalog
          BY <1>0, <1>2, <1>4, <2>1, <3>1 DEF ReadsRight
        <4>2. new \in AliasBinding
          BY <1>2, <1>4, <2>1, <2>2, <4>1 DEF AliasBinding, Binding
        <4> QED
          BY <1>2, <2>4, <3>1, <4>1, <4>2, CatalogAssumption DEF Follows, NoBinding
      <3>2. ASSUME NEW j, Tip(bindings, a, j)
            PROVE  new \in AliasBinding /\ Follows(bindings, k, new) /\ c # Target(a)
        <4>1. k = j /\ m = bindings[j].revision /\ Target(a) = bindings[j].catalog
          BY <1>0, <1>2, <1>4, <2>1, <3>2 DEF ReadsRight
        <4>2. PICK i : Tip(bindings, a, i) /\ (m = bindings[i].revision => c # bindings[i].catalog)
          BY <1>3, <3>2, TipNotUnbound DEF Knows
        <4>3. c # bindings[j].catalog
          BY <1>1, <3>2, <4>1, <4>2, TipUnique
        <4>4. j \in 1..Len(bindings) /\ Linked(bindings, j)
          BY <1>1, <3>2 DEF Tip, Fine
        <4>5. bindings[j].revision <= j /\ bindings[j].revision \in 1..MaxBindings
          BY <1>1, <4>4, RowType DEF Linked
        <4>6. m + 1 \in 1..MaxBindings /\ k \in 0..MaxBindings
          BY <1>4, <2>1, <4>1, <4>4, <4>5
        <4>7. new \in AliasBinding
          BY <1>2, <2>2, <4>6 DEF AliasBinding, Binding
        <4> QED
          BY <2>4, <3>2, <4>1, <4>3, <4>7 DEF Follows
      <3> QED
        BY <1>1, <3>1, <3>2, BoundOrNot
    <2>5a. Extends(bindings, bindings', k, prior, new)
      BY <1>2, <2>1, <2>4, <2>5 DEF Extends
    <2>6. /\ Fine(bindings') /\ Prefix(bindings, bindings') /\ Tip(bindings', a, n)
          /\ Len(bindings') = n /\ bindings'[n] = new
      <3>1. /\ Fine(bindings') /\ Prefix(bindings, bindings')
            /\ Tip(bindings', new.alias, Len(bindings) + 1)
            /\ Len(bindings') = Len(bindings) + 1 /\ bindings'[Len(bindings) + 1] = new
        BY <1>1, <2>5a, GrownFine
      <3> QED
        BY <1>0, <2>4, <3>1
    <2>7. ActiveAt(bindings, k)
      BY <1>4, <2>5 DEF Follows, Tip, NoBinding, ActiveAt
    <2>8. \A i \in 1..Len(bindings) :
            bindings'[i].state = IF i = k THEN prior ELSE bindings[i].state
      BY <1>1, <1>2, <2>1, <2>5, <2>7, GrownShape
    <2>8a. \A b, j, l : l \in Nat /\ KnowsRow(bindings, b, l, j) => KnowsRow(bindings', b, l, j)
      BY <1>1, <2>5a, GrownKnowsRow
    <2>9. Committed(p)
      BY <2>8a, <1>0, <2>1, <2>4, <2>6, <2>8, AnswerIs DEF Committed
    <2>10. ASSUME NEW q, CallOK(q, catalog, bindings) PROVE CallOK(q, catalog, bindings')
      <3>1. CASE q.step = "replace"
        <4>1. q \in Call /\ Knows(bindings, q.alias, q.revision, q.catalog)
          BY <2>10, <3>1 DEF CallOK
        <4>2. q.revision \in Nat
          BY <1>4, <3>1, <4>1, CallShape
        <4>3. Knows(bindings', q.alias, q.revision, q.catalog)
          BY <1>1, <2>5a, <4>1, <4>2, GrownKnows
        <4> QED
          BY <2>10, <3>1, <4>3 DEF CallOK
      <3>2. CASE q.step # "replace"
        BY <1>0, <1>4, <2>6, <2>10, <3>2 DEF CallOK
      <3> QED
        BY <3>1, <3>2
    <2>11. CallOK([step |-> "returned", binding |-> n], catalog, bindings')
      BY <1>0, <1>4, <2>1, <2>6 DEF CallOK, Call
    <2>12. CallsOK(call', catalog, bindings')
      <3>1. PICK q : call' = [call EXCEPT ![p] = q] /\ CallOK(q, catalog, bindings')
        BY <2>1, <2>11, AnswerIs, PlainCallOK
      <3>2. CallsOK(call, catalog, bindings)
        BY DEF CatalogInv
      <3> QED
        BY <2>10, <3>1, <3>2, OneCall
    <2>13. CatalogInv'
      BY <1>1, <2>6, <2>12 DEF CatalogInv
    <2>14. ReadsRight'
      BY <2>6, ReadsNext
    <2>15. Target(a)' = c /\ ActiveRevision(a)' = ActiveRevision(a) + 1
      BY <1>2, <2>1, <2>4, <2>6, <2>14 DEF ReadsRight
    <2>16. ASSUME NEW b \in Aliases, b # a
           PROVE  Target(b)' = Target(b) /\ ActiveRevision(b)' = ActiveRevision(b)
      <3>1. /\ Unbound(bindings, b) => Unbound(bindings', b)
            /\ \A i : Tip(bindings, b, i) => Tip(bindings', b, i)
        BY <1>1, <2>4, <2>16, <2>5a, GrownElsewhere
      <3>2. CASE Unbound(bindings, b)
        BY <1>4, <2>14, <3>1, <3>2 DEF ReadsRight
      <3>3. ASSUME NEW i, Tip(bindings, b, i)
            PROVE  Target(b)' = Target(b) /\ ActiveRevision(b)' = ActiveRevision(b)
        <4>1. bindings'[i].catalog = bindings[i].catalog
              /\ bindings'[i].revision = bindings[i].revision
          BY <2>6, <3>3 DEF Tip, Prefix
        <4> QED
          BY <1>4, <2>14, <3>1, <3>3, <4>1 DEF ReadsRight
      <3> QED
        BY <1>1, <3>2, <3>3, BoundOrNot
    <2>17. AliasMoved(a)
      BY <1>2, <2>5, <2>15, <2>16 DEF AliasMoved
    <2>18. CatalogMoves
      BY <1>1 DEF CatalogMoves
    <2>19. PointedAt(p)
      BY <1>0, <2>15, <2>16 DEF PointedAt
    <2> QED
      BY <1>2, <2>6, <2>9, <2>13, <2>17, <2>18, <2>19 DEF StepOK
  <1> QED
    BY <1>5, <1>6

----------------------------------------------------------------------------
(* All operations together.                                                *)

\* No alias moves, and no controller gets an answer it works with.
Quiet ==
    /\ UNCHANGED bindings
    /\ \A p \in Controllers : call'[p] = call[p] \/ call[p].step = "update"

LEMMA OthersCalls ==
    ASSUME CatalogInv, NEW p \in Clients, NEW q, call' = [call EXCEPT ![p] = q]
    PROVE  \A r \in Clients : call'[r] = IF r = p THEN q ELSE call[r]
  BY DEF CatalogInv, CallsOK

LEMMA OperatorIsQuiet ==
    ASSUME CatalogInv, NEW p \in Operators, UNCHANGED bindings,
           NEW q, call' = [call EXCEPT ![p] = q]
    PROVE  Quiet
  <1>1. p \notin Controllers /\ p \in Clients /\ \A r \in Controllers : r \in Clients
    BY CatalogAssumption DEF Clients
  <1> QED
    BY <1>1, OthersCalls DEF Quiet

LEMMA CatalogNextStep ==
    ASSUME CatalogInv, CatalogNext
    PROVE  /\ StepOK
           /\ \/ Quiet
              \/ \E p \in Clients : call[p].step = "replace" /\ (Committed(p) \/ NotCommitted(p))
  <1>1. ASSUME NEW p \in Operators, NEW c \in Catalogs, RegisterEntry(p, c) PROVE StepOK /\ Quiet
    BY <1>1, RegisterEntryStep DEF RegisterEntry, Quiet, Clients
  <1>2. ASSUME NEW p \in Operators, NEW c \in Catalogs, NEW y \in {"ACTIVE", "RETIRED"},
               BeginTransition(p, c, y)
        PROVE  StepOK /\ Quiet
    BY <1>2, BeginTransitionStep, OperatorIsQuiet DEF BeginTransition, Clients
  <1>3. ASSUME NEW p \in Operators, NEW c \in Catalogs, NEW a \in Aliases, ActivateAlias(p, a, c)
        PROVE  StepOK /\ Quiet
    BY <1>3, ActivateAliasStep, OperatorIsQuiet DEF ActivateAlias, BeginReplace, Clients
  <1>4. ASSUME NEW p \in Operators, NEW a \in Aliases, RollbackAlias(p, a)
        PROVE  StepOK /\ Quiet
    BY <1>4, RollbackAliasStep, OperatorIsQuiet DEF RollbackAlias, BeginReplace, Clients
  <1>5. ASSUME NEW p \in Clients, EndTransition(p) PROVE StepOK /\ Quiet
    <2>1. call' = [call EXCEPT ![p] = Idle] /\ UNCHANGED bindings /\ call[p].step = "update"
      BY <1>5 DEF EndTransition, Answer
    <2>2. \A r \in Controllers : r \in Clients
      BY DEF Clients
    <2> QED
      BY <1>5, <2>1, <2>2, EndTransitionStep, OthersCalls DEF Quiet
  <1>6. ASSUME NEW p \in Clients, EndReplace(p)
        PROVE  StepOK /\ call[p].step = "replace" /\ (Committed(p) \/ NotCommitted(p))
    BY <1>6, EndReplaceStep DEF EndReplace
  <1> QED
    BY <1>1, <1>2, <1>3, <1>4, <1>5, <1>6 DEF CatalogNext

LEMMA CatalogInitOK == CatalogInit => CatalogInv
  <1> SUFFICES ASSUME CatalogInit PROVE CatalogInv
    OBVIOUS
  <1> DEFINE b == Binding(BootAlias, BootCatalog, 1, NoBinding)
  <1>1. /\ b \in AliasBinding /\ b.alias = BootAlias /\ b.state = "ACTIVE"
        /\ b.revision = 1 /\ b.previous = NoBinding
    BY CatalogAssumption DEF Binding, AliasBinding, NoBinding
  <1>2. bindings = <<b>>
    BY DEF CatalogInit
  <1> HIDE DEF b
  <1>3. bindings \in Seq(AliasBinding) /\ Len(bindings) = 1 /\ bindings[1] = b
    BY <1>1, <1>2
  <1>4. Fine(bindings)
    <2>1. \A k \in 1..Len(bindings) : k = 1
      BY <1>3
    <2>2. Linked(bindings, 1)
      BY <1>1, <1>3 DEF Linked
    <2> QED
      BY <1>1, <1>3, <2>1, <2>2, CatalogAssumption DEF Fine
  <1>5. EntriesOK(catalog)
    <2> DEFINE e == [state |-> "ACTIVE", revision |-> 1]
               f == [state |-> "NONE", revision |-> 0]
    <2>1. EntryOK(e) /\ EntryOK(f) /\ e \in CatalogEntry /\ f \in CatalogEntry
      BY DEF EntryOK, CatalogEntry, CATALOG_TRANSITIONS
    <2>2. catalog = [c \in Catalogs |-> IF c = BootCatalog THEN e ELSE f]
      BY DEF CatalogInit
    <2> HIDE DEF e, f
    <2> QED
      BY <2>1, <2>2 DEF EntriesOK
  <1>6. CallsOK(call, catalog, bindings)
    <2>1. call = [p \in Clients |-> Idle] /\ Idle \in Call
      BY DEF CatalogInit, Idle, Call
    <2> QED
      BY <2>1, PlainCallOK DEF CallsOK
  <1> QED
    BY <1>4, <1>5, <1>6 DEF CatalogInv

\* The aliases are the abstract pointer.
LEMMA PointerInit == CatalogInit /\ CatalogInv => Pointer!Init
  <1> SUFFICES ASSUME CatalogInit, CatalogInv PROVE Pointer!Init
    OBVIOUS
  <1> DEFINE b == Binding(BootAlias, BootCatalog, 1, NoBinding)
  <1>1. ReadsRight /\ Fine(bindings)
    BY Reads DEF CatalogInv
  <1>2. Len(bindings) = 1 /\ bindings[1] = b
    BY DEF CatalogInit
  <1>3. b.alias = BootAlias /\ b.catalog = BootCatalog /\ b.revision = 1 /\ b.state = "ACTIVE"
    BY DEF Binding
  <1> HIDE DEF b
  <1>4. ASSUME NEW a \in Aliases
        PROVE  /\ Target(a) \in Catalogs \cup {NoCatalog}
               /\ ActiveRevision(a) = IF Target(a) = NoCatalog THEN 0 ELSE 1
    <2>1. CASE a = BootAlias
      <3>1. Tip(bindings, a, 1)
        BY <1>2, <1>3, <2>1 DEF Tip
      <3> QED
        BY <1>1, <1>2, <1>3, <3>1, CatalogAssumption DEF ReadsRight
    <2>2. CASE a # BootAlias
      <3>1. Unbound(bindings, a)
        BY <1>2, <1>3, <2>2 DEF Unbound
      <3> QED
        BY <1>1, <3>1 DEF ReadsRight
    <2> QED
      BY <2>1, <2>2
  <1> QED
    BY <1>4 DEF Pointer!Init

LEMMA PointerStep == StepOK => [Pointer!Next]_(Pointer!pointerVars)
  <1>1. ASSUME AliasesKept PROVE UNCHANGED Pointer!pointerVars
    BY <1>1 DEF AliasesKept, Pointer!pointerVars
  <1>2. ASSUME NEW a \in Aliases, AliasMoved(a) PROVE Pointer!Move(a)
    <2> DEFINE target == [x \in Aliases |-> Target(x)]
               moves == [x \in Aliases |-> ActiveRevision(x)]
    <2>0. PICK t : t = Target(a)'
      OBVIOUS
    <2>1. t \in Catalogs \ {target[a]} /\ target' = [target EXCEPT ![a] = t]
      <3>1. t \in Catalogs \ {target[a]}
        BY <1>2, <2>0 DEF AliasMoved
      <3>2. \A x \in Aliases : Target(x)' = IF x = a THEN t ELSE target[x]
        BY <1>2, <2>0 DEF AliasMoved
      <3>3. target' = [x \in Aliases |-> Target(x)']
        OBVIOUS
      <3>4. target' = [x \in Aliases |-> IF x = a THEN t ELSE target[x]]
        BY <3>2, <3>3
      <3> QED
        BY <3>1, <3>4
    <2>2. moves' = [moves EXCEPT ![a] = @ + 1]
      BY <1>2 DEF AliasMoved
    <2> QED
      BY <2>1, <2>2 DEF Pointer!Move
  <1> QED
    BY <1>1, <1>2 DEF StepOK, Pointer!Next

----------------------------------------------------------------------------
(* The routes.  A retirement and an activation of the same entry that      *)
(* overlap take every route down: each checks, and no lock covers the      *)
(* check of one and the write of the other.  Nothing else does.            *)

Retires(q, c) == q.step = "update" /\ q.state = "RETIRED" /\ q.catalog = c

Activates(q, c) == q.step = "replace" /\ q.catalog = c

\* No retirement of an entry is in flight together with a request that points
\* an alias at it.
RetirementsAreAlone ==
    \A p, q \in Clients, c \in Catalogs : ~(Retires(call[p], c) /\ Activates(call[q], c))

\* What the requests in flight have checked still holds.
ChecksHold ==
    \A p \in Clients, c \in Catalogs :
        /\ Retires(call[p], c) => \A a \in Aliases : Target(a) # c
        /\ Activates(call[p], c) => IsActive(c)

\* A step of the client p: only a retirement takes an entry away, only a
\* replacement moves an alias, and a new request is checked.
Orderly(p) ==
    /\ \A r \in Clients \ {p} : call'[r] = call[r]
    /\ \A c \in Catalogs :
        /\ Retires(call'[p], c) => \A a \in Aliases : Target(a)' # c
        /\ Activates(call'[p], c) => IsActive(c)'
        /\ IsActive(c) /\ ~IsActive(c)' => Retires(call[p], c)
    /\ \A a \in Aliases :
        Target(a)' # Target(a) => Target(a)' \in Catalogs /\ Activates(call[p], Target(a)')

LEMMA OrderlyKeeps ==
    ASSUME RoutesAvailable, ChecksHold, RetirementsAreAlone, NEW p \in Clients, Orderly(p)
    PROVE  RoutesAvailable' /\ ChecksHold'
  <1>1. \A c : IsActive(c) => c \in Catalogs
    BY DEF IsActive
  <1>2. ASSUME NEW a \in Aliases, Target(a)' # NoCatalog PROVE IsActive(Target(a))'
    <2>1. PICK c : c = Target(a)'
      OBVIOUS
    <2>2. c \in Catalogs /\ IsActive(c)
      BY <1>1, <1>2, <2>1 DEF Orderly, RoutesAvailable, ChecksHold
    <2>3. ~Retires(call[p], c)
      BY <2>1, <2>2 DEF Orderly, ChecksHold, RetirementsAreAlone
    <2>4. IsActive(c)'
      BY <2>2, <2>3 DEF Orderly
    <2> QED
      BY <2>1, <2>4 DEF IsActive
  <1>3. ASSUME NEW r \in Clients, NEW c \in Catalogs
        PROVE  /\ Retires(call'[r], c) => \A a \in Aliases : Target(a)' # c
               /\ Activates(call'[r], c) => IsActive(c)'
    <2>1. CASE r = p
      BY <2>1 DEF Orderly
    <2>2. CASE r # p
      <3>1. call'[r] = call[r]
        BY <2>2 DEF Orderly
      <3>2. ASSUME Retires(call[r], c), NEW a \in Aliases PROVE Target(a)' # c
        BY <3>2 DEF Orderly, ChecksHold, RetirementsAreAlone
      <3>3. ASSUME Activates(call[r], c) PROVE IsActive(c)'
        BY <3>3 DEF Orderly, ChecksHold, RetirementsAreAlone
      <3> QED
        BY <3>1, <3>2, <3>3
    <2> QED
      BY <2>1, <2>2
  <1>4. RoutesAvailable'
    BY <1>2 DEF RoutesAvailable
  <1>5. ChecksHold'
    BY <1>3 DEF ChecksHold
  <1> QED
    BY <1>4, <1>5

\* Steps that only change a call.
LEMMA CallIsOrderly ==
    ASSUME CatalogInv, NEW p \in Clients, NEW q, call' = [call EXCEPT ![p] = q],
           UNCHANGED <<catalog, bindings>>,
           \A c \in Catalogs : /\ Retires(q, c) => \A a \in Aliases : Target(a) # c
                               /\ Activates(q, c) => IsActive(c)
    PROVE  Orderly(p)
  <1>1. \A r \in Clients : call'[r] = IF r = p THEN q ELSE call[r]
    BY OthersCalls
  <1>2. \A a \in Aliases : Target(a)' = Target(a)
    BY SameAliases DEF AliasesKept
  <1>3. \A c \in Catalogs : IsActive(c)' = IsActive(c)
    BY DEF IsActive
  <1> QED
    BY <1>1, <1>2, <1>3 DEF Orderly

LEMMA PlainIsOrderly ==
    ASSUME CatalogInv, NEW p \in Clients, NEW q, call' = [call EXCEPT ![p] = q],
           UNCHANGED <<catalog, bindings>>, q.step \notin {"update", "replace"}
    PROVE  Orderly(p)
  BY CallIsOrderly DEF Retires, Activates

LEMMA BeginReplaceIsOrderly ==
    ASSUME CatalogInv, NEW p \in Clients, NEW a \in Aliases, NEW c, NEW prior,
           BeginReplace(p, a, c, prior)
    PROVE  Orderly(p)
  <1> DEFINE q == [step |-> "replace", alias |-> a, catalog |-> c,
                   revision |-> ActiveRevision(a), prior |-> prior]
  <1>1. IsActive(c) /\ call' = [call EXCEPT ![p] = q] /\ UNCHANGED <<catalog, bindings>>
        /\ q.step = "replace" /\ q.catalog = c
    BY DEF BeginReplace
  <1> HIDE DEF q
  <1> QED
    BY <1>1, CallIsOrderly DEF Retires, Activates

LEMMA BeginTransitionIsOrderly ==
    ASSUME CatalogInv, NEW p \in Clients, NEW c \in Catalogs, NEW y, BeginTransition(p, c, y)
    PROVE  Orderly(p)
  <1> DEFINE q == [step |-> "update", catalog |-> c, state |-> y, revision |-> catalog[c].revision]
  <1>1. /\ call' = [call EXCEPT ![p] = q] /\ UNCHANGED <<catalog, bindings>>
        /\ q.step = "update" /\ q.catalog = c /\ q.state = y
        /\ y = "RETIRED" => \A a \in Aliases : Target(a) # c
    BY DEF BeginTransition, HasActiveBinding
  <1> HIDE DEF q
  <1> QED
    BY <1>1, CallIsOrderly DEF Retires, Activates

\* Steps that only change an entry, and may end a call.
LEMMA EntryIsOrderly ==
    ASSUME CatalogInv, NEW p \in Clients, NEW c \in Catalogs, NEW y, NEW n,
           catalog' = [catalog EXCEPT ![c] = [state |-> y, revision |-> n]],
           catalog[c].state # "ACTIVE" \/ Retires(call[p], c) \/ y = "ACTIVE",
           UNCHANGED bindings,
           (call' = call /\ call[p] = Idle) \/ call' = [call EXCEPT ![p] = Idle]
    PROVE  Orderly(p)
  <1>1. /\ \A r \in Clients \ {p} : call'[r] = call[r]
        /\ call'[p] = Idle
    BY OthersCalls
  <1>2. \A a \in Aliases : Target(a)' = Target(a)
    BY SameAliases DEF AliasesKept
  <1>3. \A d \in Catalogs \ {c} : catalog'[d] = catalog[d]
    BY DEF CatalogInv, EntriesOK
  <1>4. y = "ACTIVE" => catalog'[c].state = "ACTIVE"
    BY DEF CatalogInv, EntriesOK
  <1>5. \A d \in Catalogs : IsActive(d) /\ ~IsActive(d)' => Retires(call[p], d)
    BY <1>3, <1>4 DEF IsActive
  <1> QED
    BY <1>1, <1>2, <1>5 DEF Orderly, Retires, Activates, Idle

LEMMA EndTransitionIsOrderly ==
    ASSUME CatalogInv, NEW p \in Clients, EndTransition(p)
    PROVE  Orderly(p)
  <1> DEFINE c == call[p].catalog
             y == call[p].state
             n == catalog[c].revision + 1
  <1>1. call[p] \in Call /\ call[p].step = "update" /\ p \in Clients
        /\ call' = [call EXCEPT ![p] = Idle] /\ UNCHANGED bindings
    BY DEF CatalogInv, CallsOK, EndTransition, Answer
  <1>2. c \in Catalogs /\ y \in {"ACTIVE", "RETIRED"}
    BY <1>1, CallShape
  <1>3. CASE SameEntryRevision(c, call[p].revision)
    <2>1. catalog' = [catalog EXCEPT ![c] = [state |-> y, revision |-> n]]
      BY <1>3 DEF EndTransition
    <2>2. Retires(call[p], c) \/ y = "ACTIVE"
      BY <1>1, <1>2 DEF Retires
    <2> HIDE DEF c, y, n
    <2> QED
      BY <1>1, <1>2, <2>1, <2>2, EntryIsOrderly
  <1>4. CASE ~SameEntryRevision(c, call[p].revision)
    <2>1. UNCHANGED catalog
      BY <1>4 DEF EndTransition
    <2>2. Idle.step \notin {"update", "replace"}
      BY DEF Idle
    <2> QED
      BY <1>1, <2>1, <2>2, PlainIsOrderly
  <1> QED
    BY <1>3, <1>4

LEMMA EndReplaceIsOrderly ==
    ASSUME CatalogInv, NEW p \in Clients, EndReplace(p)
    PROVE  Orderly(p)
  <1>1. call[p] \in Call /\ call[p].step = "replace" /\ UNCHANGED catalog
    BY DEF CatalogInv, CallsOK, EndReplace
  <1>2. call[p].alias \in Aliases /\ call[p].catalog \in Catalogs
    BY <1>1, CallShape
  <1>3. CASE NotCommitted(p)
    BY <1>1, <1>3, PlainIsOrderly DEF NotCommitted, Idle, Refused
  <1>4. CASE Committed(p) /\ PointedAt(p)
    <2>0. PICK answer : answer = [step |-> "returned", binding |-> Len(bindings) + 1]
      OBVIOUS
    <2>0a. /\ call' = [call EXCEPT ![p] = Idle] \/ call' = [call EXCEPT ![p] = answer]
           /\ Idle.step = "idle" /\ answer.step = "returned"
      BY <1>4, <2>0 DEF Committed, Idle
    <2>1. PICK q : call' = [call EXCEPT ![p] = q] /\ q.step \in {"idle", "returned"}
      BY <2>0a
    <2>2. \A r \in Clients : call'[r] = IF r = p THEN q ELSE call[r]
      BY <2>1, OthersCalls
    <2>3. \A c \in Catalogs : IsActive(c)' = IsActive(c)
      BY <1>1 DEF IsActive
    <2>4. \A a \in Aliases :
            Target(a)' # Target(a) => Target(a)' \in Catalogs /\ Activates(call[p], Target(a)')
      BY <1>1, <1>2, <1>4 DEF PointedAt, Activates
    <2> QED
      BY <2>1, <2>2, <2>3, <2>4 DEF Orderly, Retires, Activates
  <1> QED
    BY <1>3, <1>4, EndReplaceStep

LEMMA CatalogNextIsOrderly ==
    ASSUME CatalogInv, CatalogNext
    PROVE  \E p \in Clients : Orderly(p)
  <1>0. Operators \subseteq Clients
    BY DEF Clients
  <1>1. ASSUME NEW p \in Clients, NEW c \in Catalogs, RegisterEntry(p, c) PROVE Orderly(p)
    BY <1>1, EntryIsOrderly DEF RegisterEntry
  <1>2. ASSUME NEW p \in Clients, NEW c \in Catalogs, NEW y, BeginTransition(p, c, y)
        PROVE  Orderly(p)
    BY <1>2, BeginTransitionIsOrderly
  <1>3. ASSUME NEW p \in Clients, NEW a \in Aliases, NEW c, ActivateAlias(p, a, c)
        PROVE  Orderly(p)
    BY <1>3, BeginReplaceIsOrderly DEF ActivateAlias
  <1>4. ASSUME NEW p \in Clients, NEW a \in Aliases, RollbackAlias(p, a) PROVE Orderly(p)
    BY <1>4, BeginReplaceIsOrderly DEF RollbackAlias
  <1>5. ASSUME NEW p \in Clients, EndTransition(p) \/ EndReplace(p) PROVE Orderly(p)
    BY <1>5, EndTransitionIsOrderly, EndReplaceIsOrderly
  <1> QED
    BY <1>0, <1>1, <1>2, <1>3, <1>4, <1>5 DEF CatalogNext
=============================================================================
