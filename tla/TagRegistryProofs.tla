--------------------------- MODULE TagRegistryProofs ---------------------------
(***************************************************************************)
(* Types, the bound on the age of what a cache serves, and what a visit of *)
(* the settings page leaves behind, for any number of tags, columns,       *)
(* requests, processes and readers.                                        *)
(***************************************************************************)
EXTENDS TagRegistry, TLAPS

\* Keys tell rows from places without one.
KeyInv ==
  /\ \A t \in Tags : rows[t].pk = NoPk => rows[t] = NoRow
  /\ \A s \in Sessions :
       /\ \A x \in req[s].fix : x.pk # NoPk
       /\ req[s].pc = "save" => req[s].tag \in Tags /\ req[s].pk # NoPk
       /\ req[s].pc = "delete" => req[s].tag \in Tags

\* What a cache holds, or a reader is about to put there, is as old as it says at most.
AgeInv ==
  /\ \A p \in Processes, k \in Keys : \A e \in cache[p][k] :
       e.value = Loaded(k) \/ quiet[k] <= e.age + MaxLoad
  /\ \A r \in Readers : \A l \in load[r] :
       l.value = Loaded(l.key) \/ quiet[l.key] <= l.held

\* What a calm visit will still restore.
PlanInv ==
  \A s \in Sessions : req[s].calm => \A t \in Defaults :
    /\ req[s].pc = "fix" =>
         /\ Exists(t) \/ t \in req[s].make
         /\ \A f \in rows[t].edits : \E x \in req[s].fix : x.tag = t /\ f \in x.fields
    /\ req[s].pc \in {"clear", "pick"} => Exists(t) /\ rows[t].edits = {}

-----------------------------------------------------------------------------

LEMMA InitTypes == Init => TypeOK
  BY TagAssumption, ProcessAssumption
  DEF Init, TypeOK, Row, NoRow, NoPk, Request, NoRequest, PC, QuietMax, Empty, Keys, Processes

LEMMA ValueTypes ==
  ASSUME TypeOK, NEW k \in Keys
  PROVE  Loaded(k) \in Value
<1>1. \A t \in Tags : Merged(t) \in (SUBSET Fields) \cup {Gone}
  BY TagAssumption DEF TypeOK, Merged, Exists, Row, NoRow
<1>2. QED
  BY <1>1 DEF Loaded, Value, TypeOK, Keys

LEMMA NextTypes == TypeOK /\ [Next]_vars => TypeOK'
<1> SUFFICES ASSUME TypeOK, [Next]_vars PROVE TypeOK'
  OBVIOUS
<1> USE TagAssumption, ProcessAssumption
<1>q. ASSUME TagsTouched PROVE quiet' \in [Keys -> 0 .. QuietMax]
  BY <1>q DEF TypeOK, TagsTouched, Noticed, Keys, QuietMax
<1>r. ASSUME NEW s \in Sessions, NEW r \in Request, Become(s, r) PROVE req' \in [Sessions -> Request]
  BY <1>r DEF TypeOK, Become
<1>n. NoRequest \in Request
  BY DEF NoRequest, Request, PC, NoPk
<1>e. ASSUME NEW s \in Sessions, End(s) PROVE req' \in [Sessions -> Request]
  BY <1>e, <1>n DEF TypeOK, End
<1>c. ASSUME NEW s \in Sessions, NEW r \in Request, BecomeAfterChange(s, r)
      PROVE  req' \in [Sessions -> Request]
  <2>1. \A u \in Sessions, x \in Request : [x EXCEPT !.calm = FALSE] \in Request
    BY DEF Request
  <2> QED
    BY <1>c, <2>1 DEF TypeOK, BecomeAfterChange
<1>m. ASSUME NEW tags \in SUBSET Tags, NEW edits \in SUBSET Fields, Create(tags, edits)
      PROVE  rows' \in [Tags -> Row] /\ lastPk' \in [Tags -> Nat]
  BY <1>m DEF TypeOK, Create, Row
<1>1. ASSUME NEW s \in Sessions, Visit(s) PROVE TypeOK'
  <2>1. [NoRequest EXCEPT !.pc = "read"] \in Request
    BY <1>n DEF Request, PC
  <2> QED
    BY <1>1, <1>r, <2>1 DEF Visit, TypeOK, table
<1>2. ASSUME NEW s \in Sessions, Post(s) PROVE TypeOK'
  <2>1. [NoRequest EXCEPT !.pc = "read", !.post = TRUE] \in Request
    BY <1>n DEF Request, PC
  <2> QED
    BY <1>2, <1>r, <2>1 DEF Post, TypeOK, table
<1>3. ASSUME NEW s \in Sessions, EnsureRead(s) PROVE TypeOK'
  <2>1. Edited \subseteq Fix /\ Missing \subseteq Defaults
    BY DEF Edited, Missing, Fix, TypeOK, Row, Exists, Tags
  <2>2. [req[s] EXCEPT !.pc = "fix", !.fix = Edited, !.make = Missing, !.calm = TRUE] \in Request
    BY <2>1 DEF TypeOK, Request, PC
  <2> QED
    BY <1>3, <1>r, <2>2 DEF EnsureRead, TypeOK, table
<1>4. ASSUME NEW s \in Sessions, EnsureFix(s) PROVE TypeOK'
  <2>1. \A x \in req[s].fix : [rows EXCEPT ![x.tag].edits = @ \ x.fields] \in [Tags -> Row]
    BY DEF TypeOK, Request, Fix, Row, Tags
  <2>2. \A x \in req[s].fix : [req[s] EXCEPT !.fix = @ \ {x}] \in Request
    BY DEF TypeOK, Request
  <2> QED
    BY <1>4, <1>r, <1>e, <1>q, <2>1, <2>2 DEF EnsureFix, TypeOK
<1>5. ASSUME NEW s \in Sessions, EnsureMake(s) PROVE TypeOK'
  <2>1. [req[s] EXCEPT !.pc = "clear", !.make = {}] \in Request
    BY DEF TypeOK, Request, PC
  <2>2. req[s].make \subseteq Tags
    BY DEF TypeOK, Request, Tags
  <2> QED
    BY <1>5, <1>r, <1>e, <1>q, <1>m, <2>1, <2>2 DEF EnsureMake, TypeOK
<1>6. ASSUME NEW s \in Sessions, Clear(s) PROVE TypeOK'
  <2>1. [req[s] EXCEPT !.pc = "pick"] \in Request /\ [NoRequest EXCEPT !.pc = "read"] \in Request
    BY <1>n DEF TypeOK, Request, PC, NoRequest
  <2>2. req' \in [Sessions -> Request]
    BY <1>6, <1>r, <1>e, <2>1 DEF Clear
  <2>3. Empty \in [Keys -> SUBSET Entry]
    BY DEF Empty
  <2>4. cache' \in [Processes -> [Keys -> SUBSET Entry]]
    BY <1>6, <2>3 DEF Clear, TypeOK, Processes
  <2> QED
    BY <1>6, <2>2, <2>4 DEF Clear, TypeOK, table
<1>7. ASSUME NEW s \in Sessions, PickTag(s) PROVE TypeOK'
  <2>1. \A t \in Tags, pc \in {"save", "delete"} :
          [req[s] EXCEPT !.pc = pc, !.tag = t, !.pk = rows[t].pk] \in Request
    <3>1. req[s] \in Request /\ \A t \in Tags : rows[t].pk \in Nat
      BY DEF TypeOK, Row
    <3> QED
      BY <3>1 DEF Request, PC
  <2> QED
    BY <1>7, <1>r, <2>1 DEF PickTag, TypeOK, table
<1>8. ASSUME NEW s \in Sessions, SaveTag(s) PROVE TypeOK'
  <2>1. [req[s] EXCEPT !.pc = "done"] \in Request
    BY DEF TypeOK, Request, PC
  <2>2. \A edits \in SUBSET Fields :
          [rows EXCEPT ![req[s].tag] = [pk |-> req[s].pk, edits |-> edits]] \in [Tags -> Row]
    BY DEF TypeOK, Request, Row
  <2> QED
    <3>1. req' \in [Sessions -> Request]
      BY <1>8, <1>c, <1>e, <2>1 DEF SaveTag, TagForm
    <3>2. rows' \in [Tags -> Row] /\ quiet' \in [Keys -> 0 .. QuietMax]
      BY <1>8, <1>q, <2>2 DEF SaveTag, TagForm, TypeOK
    <3> QED
      BY <1>8, <3>1, <3>2 DEF SaveTag, TagForm, TypeOK
<1>9. ASSUME NEW s \in Sessions, AddTag(s) PROVE TypeOK'
  <2>1. [req[s] EXCEPT !.pc = "done"] \in Request
    BY DEF TypeOK, Request, PC
  <2> QED
    BY <1>9, <1>c, <1>m, <1>q, <2>1 DEF AddTag, TagForm, TypeOK
<1>10. ASSUME NEW s \in Sessions, DeleteTag(s) PROVE TypeOK'
  <2>1. [req[s] EXCEPT !.pc = "done"] \in Request
    BY DEF TypeOK, Request, PC
  <2>2. rows' \in [Tags -> Row]
    BY <1>10 DEF DeleteTag, TypeOK, Row, NoRow, NoPk
  <2> QED
    BY <1>10, <1>c, <1>q, <2>1, <2>2 DEF DeleteTag, TypeOK
<1>11. ASSUME NEW s \in Sessions, SaveLayout(s) PROVE TypeOK'
  <2>1. [req[s] EXCEPT !.pc = "done"] \in Request
    BY DEF TypeOK, Request, PC
  <2>2. quiet' \in [Keys -> 0 .. QuietMax]
    BY <1>11 DEF SaveLayout, PlcForm, Noticed, TypeOK, QuietMax, Keys
  <2> QED
    BY <1>11, <1>r, <2>1, <2>2 DEF SaveLayout, PlcForm, TypeOK
<1>12. ASSUME NEW s \in Sessions, Refuse(s) PROVE TypeOK'
  BY <1>12, <1>e DEF Refuse, TypeOK, table
<1>13. ASSUME NEW r \in Readers, LoadValue(r) PROVE TypeOK'
  <2>1. \A k \in Asks[r] : [key |-> k, value |-> Loaded(k), held |-> 0] \in Load
    BY ValueTypes DEF Load
  <2>2. load' \in [Readers -> SUBSET Load]
    BY <1>13, <2>1 DEF LoadValue, TypeOK
  <2> QED
    BY <1>13, <2>2 DEF LoadValue, TypeOK, table
<1>14. ASSUME NEW r \in Readers, StoreValue(r) PROVE TypeOK'
  <2>1. \A l \in load[r] : l.key \in Keys /\ [value |-> l.value, age |-> 0] \in Entry
    BY DEF TypeOK, Load, Entry
  <2>2. cache' \in [Processes -> [Keys -> SUBSET Entry]]
    BY <1>14, <2>1 DEF StoreValue, TypeOK
  <2>3. load' \in [Readers -> SUBSET Load]
    BY <1>14 DEF StoreValue, TypeOK
  <2> QED
    BY <1>14, <2>2, <2>3 DEF StoreValue, TypeOK, table
<1>15. CASE Tick
  <2>1. \A p \in Processes, k \in Keys : Unexpired(cache[p][k]) \in SUBSET Entry
    <3> SUFFICES ASSUME NEW p \in Processes, NEW k \in Keys PROVE Unexpired(cache[p][k]) \subseteq Entry
      OBVIOUS
    <3>1. cache[p][k] \subseteq Entry
      BY DEF TypeOK
    <3> QED
      BY <3>1 DEF Unexpired, Entry
  <2>2. \A r \in Readers : {[l EXCEPT !.held = l.held + 1] : l \in load[r]} \in SUBSET Load
    <3> SUFFICES ASSUME NEW r \in Readers, NEW l \in load[r] PROVE [l EXCEPT !.held = l.held + 1] \in Load
      OBVIOUS
    <3>1. l \in Load /\ l.held < MaxLoad
      BY <1>15 DEF Tick, TypeOK
    <3> QED
      BY <3>1 DEF Load
  <2>3. quiet' \in [Keys -> 0 .. QuietMax]
    BY <1>15 DEF Tick, TypeOK, QuietMax
  <2> QED
    BY <1>15, <2>1, <2>2, <2>3 DEF Tick, TypeOK, table
<1>16. CASE UNCHANGED vars
  BY <1>16 DEF vars, table, TypeOK
<1> QED
  BY <1>1, <1>2, <1>3, <1>4, <1>5, <1>6, <1>7, <1>8, <1>9, <1>10, <1>11, <1>12, <1>13, <1>14,
     <1>15, <1>16 DEF Next, Settings, Registry

\* All variables have their types (TypeOK), for every instance.
THEOREM RegistryTypeCorrect == Spec => []TypeOK
  BY InitTypes, NextTypes, PTL DEF Spec

-----------------------------------------------------------------------------
(* How old what a cache serves can be.                                     *)

LEMMA NextAges == TypeOK /\ AgeInv /\ [Next]_vars => AgeInv'
<1> SUFFICES ASSUME TypeOK, AgeInv, [Next]_vars PROVE AgeInv'
  OBVIOUS
<1> DEFINE Told == \A k \in Keys : \/ Loaded(k)' = Loaded(k) /\ quiet'[k] = quiet[k]
                                   \/ quiet'[k] = 0
<1> USE ProcessAssumption
<1>a. ASSUME UNCHANGED <<cache, load>>, Told PROVE AgeInv'
  <2>1. ASSUME NEW p \in Processes, NEW k \in Keys, NEW e \in cache[p][k]
        PROVE  e.value = Loaded(k)' \/ quiet'[k] <= e.age + MaxLoad
    <3>1. e.age \in Nat
      BY DEF TypeOK, Entry
    <3> QED
      BY <1>a, <3>1 DEF AgeInv
  <2>2. ASSUME NEW r \in Readers, NEW l \in load[r]
        PROVE  l.value = Loaded(l.key)' \/ quiet'[l.key] <= l.held
    <3>1. l.key \in Keys /\ l.held \in Nat
      BY DEF TypeOK, Load
    <3> QED
      BY <1>a, <3>1 DEF AgeInv
  <2> QED
    BY <1>a, <2>1, <2>2 DEF AgeInv
<1>s. ASSUME UNCHANGED table PROVE \A k : Loaded(k)' = Loaded(k)
  BY <1>s DEF table, Loaded, Merged, Exists
<1>b. ASSUME UNCHANGED <<table, quiet>> PROVE Told
  BY <1>b, <1>s
<1>t. ASSUME TagsTouched, layout' = layout PROVE Told
  <2>1. Loaded("layout")' = Loaded("layout")
    BY <1>t DEF Loaded
  <2>2. "tags" \in Keys /\ "layout" \in Keys /\ \A k \in Keys : k \in {"tags", "layout"}
    BY DEF Keys
  <2>3. quiet'["tags"] = Noticed("tags") /\ quiet'["layout"] = quiet["layout"]
    BY <1>t, <2>2 DEF TagsTouched, TypeOK
  <2> QED
    BY <2>1, <2>2, <2>3 DEF Noticed
<1>1. ASSUME NEW s \in Sessions, Visit(s) \/ Post(s) \/ EnsureRead(s) \/ PickTag(s) \/ Refuse(s)
      PROVE  AgeInv'
  BY <1>1, <1>a, <1>b DEF Visit, Post, EnsureRead, PickTag, Refuse
<1>2. ASSUME NEW s \in Sessions, EnsureFix(s) PROVE AgeInv'
  <2>1. CASE TagsTouched
    BY <1>2, <2>1, <1>a, <1>t DEF EnsureFix
  <2>2. CASE UNCHANGED <<rows, quiet>>
    BY <1>2, <2>2, <1>a, <1>b DEF EnsureFix, table
  <2> QED
    BY <1>2, <2>1, <2>2 DEF EnsureFix
<1>3. ASSUME NEW s \in Sessions, EnsureMake(s) PROVE AgeInv'
  <2>1. CASE TagsTouched
    BY <1>3, <2>1, <1>a, <1>t DEF EnsureMake
  <2>2. CASE UNCHANGED <<rows, lastPk, quiet>>
    BY <1>3, <2>2, <1>a, <1>b DEF EnsureMake, table
  <2> QED
    BY <1>3, <2>1, <2>2 DEF EnsureMake
<1>4. ASSUME NEW s \in Sessions, Clear(s) PROVE AgeInv'
  <2>1. \A p \in Processes, k \in Keys : cache'[p][k] \subseteq cache[p][k]
    <3> SUFFICES ASSUME NEW p \in Processes, NEW k \in Keys PROVE cache'[p][k] \subseteq cache[p][k]
      OBVIOUS
    <3>1. Empty[k] = {}
      BY DEF Empty
    <3> QED
      BY <1>4, <3>1 DEF Clear, TypeOK
  <2>2. quiet' = quiet /\ load' = load /\ \A k : Loaded(k)' = Loaded(k)
    BY <1>4, <1>s DEF Clear
  <2> QED
    BY <2>1, <2>2 DEF AgeInv
<1>5. ASSUME NEW s \in Sessions, SaveTag(s) PROVE AgeInv'
  <2>1. CASE TagsTouched
    BY <1>5, <2>1, <1>a, <1>t DEF SaveTag, TagForm
  <2>2. CASE UNCHANGED <<rows, quiet>>
    BY <1>5, <2>2, <1>a, <1>b DEF SaveTag, TagForm, table
  <2> QED
    BY <1>5, <2>1, <2>2 DEF SaveTag, TagForm
<1>6. ASSUME NEW s \in Sessions, AddTag(s) \/ DeleteTag(s) PROVE AgeInv'
  BY <1>6, <1>a, <1>t DEF AddTag, TagForm, DeleteTag
<1>7. ASSUME NEW s \in Sessions, SaveLayout(s) PROVE AgeInv'
  <2>1. Loaded("tags")' = Loaded("tags")
    BY <1>7 DEF SaveLayout, PlcForm, Loaded, Merged, Exists
  <2>2. "tags" \in Keys /\ "layout" \in Keys /\ \A k \in Keys : k \in {"tags", "layout"}
    BY DEF Keys
  <2>3. quiet'["layout"] = Noticed("layout") /\ quiet'["tags"] = quiet["tags"]
    BY <1>7, <2>2 DEF SaveLayout, PlcForm, TypeOK
  <2>4. Told
    BY <2>1, <2>2, <2>3 DEF Noticed
  <2> QED
    BY <1>7, <2>4, <1>a DEF SaveLayout, PlcForm
<1>8. ASSUME NEW r \in Readers, LoadValue(r) PROVE AgeInv'
  <2>1. quiet' = quiet /\ cache' = cache /\ \A k : Loaded(k)' = Loaded(k)
    BY <1>8, <1>s DEF LoadValue
  <2>2. ASSUME NEW q \in Readers, NEW l \in load'[q]
        PROVE  l.value = Loaded(l.key) \/ quiet[l.key] <= l.held
    BY <1>8 DEF LoadValue, AgeInv, TypeOK
  <2> QED
    BY <2>1, <2>2 DEF AgeInv
<1>9. ASSUME NEW r \in Readers, StoreValue(r) PROVE AgeInv'
  <2>1. quiet' = quiet /\ \A k : Loaded(k)' = Loaded(k)
    BY <1>9, <1>s DEF StoreValue
  <2>2. ASSUME NEW p \in Processes, NEW k \in Keys, NEW e \in cache'[p][k]
        PROVE  e.value = Loaded(k) \/ quiet[k] <= e.age + MaxLoad
    <3>1. PICK l \in load[r] :
            cache' = [cache EXCEPT ![Home[r]][l.key] = {[value |-> l.value, age |-> 0]}]
      BY <1>9 DEF StoreValue
    <3>2. l.key \in Keys /\ l.held \in 0 .. MaxLoad /\ quiet[l.key] \in Nat
      BY DEF TypeOK, Load
    <3>3. l.value = Loaded(l.key) \/ quiet[l.key] <= l.held
      BY DEF AgeInv
    <3>4. CASE p = Home[r] /\ k = l.key
      <4>1. e = [value |-> l.value, age |-> 0]
        BY <2>2, <3>1, <3>4 DEF TypeOK
      <4> QED
        BY <3>2, <3>3, <3>4, <4>1
    <3>5. CASE ~(p = Home[r] /\ k = l.key)
      <4>1. e \in cache[p][k]
        BY <2>2, <3>1, <3>5 DEF TypeOK
      <4> QED
        BY <4>1 DEF AgeInv
    <3> QED
      BY <3>4, <3>5
  <2>3. \A q \in Readers : load'[q] \subseteq load[q]
    BY <1>9 DEF StoreValue, TypeOK
  <2> QED
    BY <2>1, <2>2, <2>3 DEF AgeInv
<1>10. CASE Tick
  <2>1. \A k : Loaded(k)' = Loaded(k)
    BY <1>10, <1>s DEF Tick
  <2>2. \A k \in Keys : quiet[k] \in Nat /\ quiet'[k] <= quiet[k] + 1
    <3> SUFFICES ASSUME NEW k \in Keys PROVE quiet[k] \in Nat /\ quiet'[k] <= quiet[k] + 1
      OBVIOUS
    <3>1. quiet[k] \in 0 .. QuietMax /\ QuietMax \in Nat
      BY DEF TypeOK, QuietMax
    <3>2. quiet'[k] = IF quiet[k] < QuietMax THEN quiet[k] + 1 ELSE QuietMax
      BY <1>10 DEF Tick
    <3> QED
      BY <3>1, <3>2
  <2>3. ASSUME NEW p \in Processes, NEW k \in Keys, NEW e \in cache'[p][k]
        PROVE  e.value = Loaded(k) \/ quiet'[k] <= e.age + MaxLoad
    <3>1. PICK x \in cache[p][k] : e = [x EXCEPT !.age = x.age + 1]
      BY <1>10, <2>3 DEF Tick, Unexpired
    <3>2. x \in Entry
      BY DEF TypeOK
    <3>3. e.value = x.value /\ e.age = x.age + 1 /\ x.age \in Nat /\ quiet'[k] \in Int
      BY <3>1, <3>2, <1>10 DEF Entry, Tick, TypeOK, QuietMax
    <3>4. x.value = Loaded(k) \/ quiet[k] <= x.age + MaxLoad
      BY DEF AgeInv
    <3> QED
      BY <2>2, <3>3, <3>4
  <2>4. ASSUME NEW r \in Readers, NEW l \in load'[r]
        PROVE  l.value = Loaded(l.key) \/ quiet'[l.key] <= l.held
    <3>1. PICK x \in load[r] : l = [x EXCEPT !.held = x.held + 1]
      BY <1>10, <2>4 DEF Tick
    <3>2. x \in Load
      BY DEF TypeOK
    <3>3. l.value = x.value /\ l.key = x.key /\ l.held = x.held + 1 /\ x.held \in Nat /\ x.key \in Keys
      BY <3>1, <3>2 DEF Load
    <3>4. x.value = Loaded(x.key) \/ quiet[x.key] <= x.held
      BY DEF AgeInv
    <3>5. quiet'[x.key] \in Int
      BY <3>3, <1>10 DEF Tick, TypeOK, QuietMax
    <3> QED
      BY <2>2, <3>3, <3>4, <3>5
  <2> QED
    BY <2>1, <2>3, <2>4 DEF AgeInv
<1>11. CASE UNCHANGED vars
  BY <1>11, <1>a, <1>b DEF vars
<1> QED
  BY <1>1, <1>2, <1>3, <1>4, <1>5, <1>6, <1>7, <1>8, <1>9, <1>10, <1>11 DEF Next, Settings, Registry

\* What a process serves from its cache was in the table at most TTL and MaxLoad seconds
\* ago (StaleBound): from AgeInv, and because no entry is served after TTL.
THEOREM CacheStaleBound == Spec => []StaleBound
<1>1. Init => AgeInv
  BY DEF Init, AgeInv, Empty
<1>2. TypeOK /\ AgeInv => StaleBound
  <2> SUFFICES ASSUME TypeOK, AgeInv, NEW p \in Processes, NEW k \in Keys, NEW e \in cache[p][k]
               PROVE  e.value = Loaded(k) \/ quiet[k] <= TTL + MaxLoad
    BY DEF StaleBound
  <2>1. e.age \in 0 .. TTL /\ quiet[k] \in Nat
    BY DEF TypeOK, Entry
  <2>2. e.value = Loaded(k) \/ quiet[k] <= e.age + MaxLoad
    BY DEF AgeInv
  <2> QED
    BY <2>1, <2>2, ProcessAssumption
<1> QED
  BY <1>1, <1>2, InitTypes, NextTypes, NextAges, PTL DEF Spec

-----------------------------------------------------------------------------
(* What a visit of the settings page leaves behind.                        *)

LEMMA NextKeys == TypeOK /\ KeyInv /\ [Next]_vars => KeyInv'
<1> SUFFICES ASSUME TypeOK, KeyInv, [Next]_vars PROVE KeyInv'
  OBVIOUS
<1> DEFINE RowKeyed(row) == row.pk = NoPk => row = NoRow
           Keyed(q) == /\ \A x \in q.fix : x.pk # NoPk
                       /\ q.pc = "save" => q.tag \in Tags /\ q.pk # NoPk
                       /\ q.pc = "delete" => q.tag \in Tags
<1>k. KeyInv <=> (\A t \in Tags : RowKeyed(rows[t])) /\ (\A s \in Sessions : Keyed(req[s]))
  BY DEF KeyInv
<1>p. KeyInv' <=> (\A t \in Tags : RowKeyed(rows'[t])) /\ (\A s \in Sessions : Keyed(req'[s]))
  BY DEF KeyInv
<1>n. Keyed(NoRequest)
  BY DEF NoRequest
<1>b. ASSUME NEW s \in Sessions, NEW q, Keyed(q), Become(s, q)
      PROVE  \A u \in Sessions : Keyed(req'[u])
  BY <1>b, <1>k DEF Become, TypeOK
<1>e. ASSUME NEW s \in Sessions, End(s) PROVE \A u \in Sessions : Keyed(req'[u])
  BY <1>e, <1>k, <1>n DEF End, TypeOK
<1>c. ASSUME NEW s \in Sessions, NEW q \in Request, Keyed(q), BecomeAfterChange(s, q)
      PROVE  \A u \in Sessions : Keyed(req'[u])
  <2> SUFFICES ASSUME NEW u \in Sessions PROVE Keyed(req'[u])
    OBVIOUS
  <2> DEFINE x == IF u = s THEN q ELSE req[u]
  <2>1. Keyed(x) /\ x \in Request
    BY <1>c, <1>k DEF TypeOK
  <2>2. req'[u] = [x EXCEPT !.calm = FALSE]
    BY <1>c DEF BecomeAfterChange
  <2> HIDE DEF x
  <2> QED
    BY <2>1, <2>2 DEF Request
<1>m. ASSUME NEW tags \in SUBSET Tags, NEW edits, Create(tags, edits)
      PROVE  \A t \in Tags : RowKeyed(rows'[t])
  BY <1>m, <1>k DEF Create, TypeOK, NoPk
<1>r. ASSUME rows' = rows PROVE \A t \in Tags : RowKeyed(rows'[t])
  BY <1>r, <1>k
<1>x. \A s \in Sessions : Keyed(req[s]) /\ req[s] \in Request
  BY <1>k DEF TypeOK
<1> HIDE DEF RowKeyed
<1>1. ASSUME NEW s \in Sessions, Visit(s) PROVE KeyInv'
  <2>1. Keyed([NoRequest EXCEPT !.pc = "read"])
    BY DEF NoRequest
  <2> QED
    BY <1>1, <2>1, <1>b, <1>r, <1>p DEF Visit, table
<1>2. ASSUME NEW s \in Sessions, Post(s) PROVE KeyInv'
  <2>1. Keyed([NoRequest EXCEPT !.pc = "read", !.post = TRUE])
    BY DEF NoRequest
  <2> QED
    BY <1>2, <2>1, <1>b, <1>r, <1>p DEF Post, table
<1>3. ASSUME NEW s \in Sessions, EnsureRead(s) PROVE KeyInv'
  <2>1. \A x \in Edited : x.pk # NoPk
    BY <1>k DEF Edited, Exists, RowKeyed, Tags
  <2>2. Keyed([req[s] EXCEPT !.pc = "fix", !.fix = Edited, !.make = Missing, !.calm = TRUE])
    BY <2>1, <1>x DEF Request
  <2> QED
    BY <1>3, <2>2, <1>b, <1>r, <1>p DEF EnsureRead, table
<1>4. ASSUME NEW s \in Sessions, EnsureFix(s) PROVE KeyInv'
  <2>1. \A x \in req[s].fix : Keyed([req[s] EXCEPT !.fix = @ \ {x}])
    BY <1>x, <1>4 DEF Request, EnsureFix
  <2>2. \A u \in Sessions : Keyed(req'[u])
    BY <1>4, <2>1, <1>b, <1>e DEF EnsureFix
  <2>3. \A t \in Tags : RowKeyed(rows'[t])
    <3>1. CASE rows' = rows
      BY <3>1, <1>r
    <3>2. CASE rows' # rows
      <4>1. PICK x \in req[s].fix :
              rows[x.tag].pk = x.pk /\ rows' = [rows EXCEPT ![x.tag].edits = @ \ x.fields]
        BY <1>4, <3>2 DEF EnsureFix
      <4>2. x.pk # NoPk
        BY <1>x
      <4> QED
        BY <4>1, <4>2, <1>k DEF RowKeyed, TypeOK, Row
    <3> QED
      BY <3>1, <3>2
  <2> QED
    BY <2>2, <2>3, <1>p
<1>5. ASSUME NEW s \in Sessions, EnsureMake(s) PROVE KeyInv'
  <2>1. Keyed([req[s] EXCEPT !.pc = "clear", !.make = {}])
    BY <1>x DEF Request
  <2>2. \A u \in Sessions : Keyed(req'[u])
    BY <1>5, <2>1, <1>b, <1>e DEF EnsureMake
  <2>3. \A t \in Tags : RowKeyed(rows'[t])
    BY <1>5, <1>m, <1>r, <1>x DEF EnsureMake, Request, Tags
  <2> QED
    BY <2>2, <2>3, <1>p
<1>6. ASSUME NEW s \in Sessions, Clear(s) PROVE KeyInv'
  <2>1. Keyed([req[s] EXCEPT !.pc = "pick"])
    BY <1>x DEF Request
  <2>2. Keyed([NoRequest EXCEPT !.pc = "read"])
    BY DEF NoRequest
  <2>3. \A u \in Sessions : Keyed(req'[u])
    BY <1>6, <2>1, <2>2, <1>b, <1>e DEF Clear
  <2> QED
    BY <1>6, <2>3, <1>r, <1>p DEF Clear, table
<1>7. ASSUME NEW s \in Sessions, PickTag(s) PROVE KeyInv'
  <2>1. ASSUME NEW t \in Tags, Exists(t), NEW pc \in {"save", "delete"}
        PROVE  Keyed([req[s] EXCEPT !.pc = pc, !.tag = t, !.pk = rows[t].pk])
    <3>1. rows[t].pk # NoPk
      BY <2>1, <1>k DEF Exists, RowKeyed
    <3> QED
      BY <3>1, <1>x DEF Request
  <2>2. \A u \in Sessions : Keyed(req'[u])
    BY <1>7, <2>1, <1>b DEF PickTag
  <2> QED
    BY <1>7, <2>2, <1>r, <1>p DEF PickTag, table
<1>8. ASSUME NEW s \in Sessions, SaveTag(s) PROVE KeyInv'
  <2>1. Keyed([req[s] EXCEPT !.pc = "done"]) /\ [req[s] EXCEPT !.pc = "done"] \in Request
    BY <1>x DEF Request, PC
  <2>2. \A u \in Sessions : Keyed(req'[u])
    BY <1>8, <2>1, <1>c, <1>e DEF SaveTag, TagForm
  <2>3. \A t \in Tags : RowKeyed(rows'[t])
    <3>1. CASE rows' = rows
      BY <3>1, <1>r
    <3>2. CASE rows' # rows
      <4>1. PICK edits \in SUBSET Fields :
              rows' = [rows EXCEPT ![req[s].tag] = [pk |-> req[s].pk, edits |-> edits]]
        BY <1>8, <3>2 DEF SaveTag, TagForm
      <4>2. req[s].pk # NoPk
        BY <1>8, <1>x DEF SaveTag, TagForm
      <4> QED
        BY <4>1, <4>2, <1>k DEF RowKeyed, TypeOK
    <3> QED
      BY <3>1, <3>2
  <2> QED
    BY <2>2, <2>3, <1>p
<1>9. ASSUME NEW s \in Sessions, AddTag(s) PROVE KeyInv'
  <2>1. Keyed([req[s] EXCEPT !.pc = "done"]) /\ [req[s] EXCEPT !.pc = "done"] \in Request
    BY <1>x DEF Request, PC
  <2>2. \A u \in Sessions : Keyed(req'[u])
    BY <1>9, <2>1, <1>c DEF AddTag, TagForm
  <2>3. \A t \in Tags : RowKeyed(rows'[t])
    BY <1>9, <1>m DEF AddTag, TagForm
  <2> QED
    BY <2>2, <2>3, <1>p
<1>10. ASSUME NEW s \in Sessions, DeleteTag(s) PROVE KeyInv'
  <2>1. Keyed([req[s] EXCEPT !.pc = "done"]) /\ [req[s] EXCEPT !.pc = "done"] \in Request
    BY <1>x DEF Request, PC
  <2>2. \A u \in Sessions : Keyed(req'[u])
    BY <1>10, <2>1, <1>c DEF DeleteTag
  <2>3. \A t \in Tags : RowKeyed(rows'[t])
    BY <1>10, <1>k DEF DeleteTag, RowKeyed, TypeOK
  <2> QED
    BY <2>2, <2>3, <1>p
<1>11. ASSUME NEW s \in Sessions, SaveLayout(s) PROVE KeyInv'
  <2>1. Keyed([req[s] EXCEPT !.pc = "done"])
    BY <1>x DEF Request
  <2> QED
    BY <1>11, <2>1, <1>b, <1>r, <1>p DEF SaveLayout, PlcForm
<1>12. ASSUME NEW s \in Sessions, Refuse(s) PROVE KeyInv'
  BY <1>12, <1>e, <1>r, <1>p DEF Refuse, table
<1>13. CASE UNCHANGED <<rows, req>>
  BY <1>13, <1>k, <1>p
<1> QED
  BY <1>1, <1>2, <1>3, <1>4, <1>5, <1>6, <1>7, <1>8, <1>9, <1>10, <1>11, <1>12, <1>13
  DEF Next, Settings, Registry, LoadValue, StoreValue, Tick, vars, table

\* A calm request is where PlanInv says, also after a step of another one.
LEMMA NextPlans == TypeOK /\ KeyInv /\ PlanInv /\ [Next]_vars => PlanInv'
<1> SUFFICES ASSUME TypeOK, KeyInv, PlanInv, [Next]_vars PROVE PlanInv'
  OBVIOUS
<1> DEFINE Planned(q, tag, row) ==
      /\ q.pc = "fix" => /\ row # NoRow \/ tag \in q.make
                         /\ \A f \in row.edits : \E x \in q.fix : x.tag = tag /\ f \in x.fields
      /\ q.pc \in {"clear", "pick"} => row # NoRow /\ row.edits = {}
<1>k. PlanInv <=> \A s \in Sessions, t \in Defaults : req[s].calm => Planned(req[s], t, rows[t])
  BY DEF PlanInv, Exists
<1>p. PlanInv' <=> \A s \in Sessions, t \in Defaults : req'[s].calm => Planned(req'[s], t, rows'[t])
  BY DEF PlanInv, Exists
<1>x. \A s \in Sessions : req[s] \in Request
  BY DEF TypeOK
<1>d. \A t \in Defaults : t \in Tags /\ rows[t] \in Row
  BY DEF TypeOK, Tags
<1>b. ASSUME NEW s \in Sessions, NEW q, Become(s, q), rows' = rows,
             q.calm => \A t \in Defaults : Planned(q, t, rows[t])
      PROVE  PlanInv'
  <2> SUFFICES ASSUME NEW u \in Sessions, NEW t \in Defaults, req'[u].calm
               PROVE  Planned(req'[u], t, rows[t])
    BY <1>p, <1>b
  <2>1. req'[u] = IF u = s THEN q ELSE req[u]
    BY <1>b DEF Become, TypeOK
  <2> QED
    BY <2>1, <1>b, <1>k
<1>e. ASSUME NEW s \in Sessions, End(s), rows' = rows PROVE PlanInv'
  <2>1. Become(s, NoRequest) /\ ~NoRequest.calm
    BY <1>e DEF End, Become, NoRequest
  <2> QED
    BY <2>1, <1>e, <1>b
<1>c. ASSUME NEW s \in Sessions, NEW q \in Request, BecomeAfterChange(s, q) PROVE PlanInv'
  <2>1. \A u \in Sessions : ~req'[u].calm
    <3> SUFFICES ASSUME NEW u \in Sessions PROVE ~req'[u].calm
      OBVIOUS
    <3> DEFINE x == IF u = s THEN q ELSE req[u]
    <3>1. x \in Request
      BY <1>x
    <3>2. req'[u] = [x EXCEPT !.calm = FALSE]
      BY <1>c DEF BecomeAfterChange
    <3> HIDE DEF x
    <3> QED
      BY <3>1, <3>2 DEF Request
  <2> QED
    BY <2>1, <1>p
<1>1. ASSUME NEW s \in Sessions, Visit(s) \/ Post(s) \/ Refuse(s) PROVE PlanInv'
  <2>1. ~[NoRequest EXCEPT !.pc = "read"].calm /\ ~[NoRequest EXCEPT !.pc = "read", !.post = TRUE].calm
    BY DEF NoRequest
  <2> QED
    BY <1>1, <2>1, <1>b, <1>e DEF Visit, Post, Refuse, table
<1>2. ASSUME NEW s \in Sessions, EnsureRead(s) PROVE PlanInv'
  <2> DEFINE q == [req[s] EXCEPT !.pc = "fix", !.fix = Edited, !.make = Missing, !.calm = TRUE]
  <2>1. q.pc = "fix" /\ q.fix = Edited /\ q.make = Missing
    BY <1>x DEF Request
  <2>2. ASSUME NEW t \in Defaults PROVE Planned(q, t, rows[t])
    <3>1. rows[t] # NoRow \/ t \in Missing
      BY DEF Missing, Exists
    <3>2. ASSUME NEW f \in rows[t].edits PROVE \E x \in Edited : x.tag = t /\ f \in x.fields
      <4>1. Exists(t)
        BY <3>2 DEF Exists, NoRow
      <4> DEFINE x == [tag |-> t, pk |-> rows[t].pk, fields |-> rows[t].edits]
      <4>2. x \in Edited
        BY <3>2, <4>1 DEF Edited
      <4> QED
        BY <3>2, <4>2
    <3> QED
      BY <2>1, <3>1, <3>2
  <2> QED
    BY <1>2, <2>2, <1>b DEF EnsureRead, table
<1>3. ASSUME NEW s \in Sessions, EnsureFix(s) PROVE PlanInv'
  <2>1. CASE End(s) /\ rows' = rows
    BY <2>1, <1>e
  <2>2. CASE ~(End(s) /\ rows' = rows)
    <3>1. PICK x \in req[s].fix :
            /\ rows[x.tag].pk = x.pk
            /\ rows' = [rows EXCEPT ![x.tag].edits = @ \ x.fields]
            /\ Become(s, [req[s] EXCEPT !.fix = @ \ {x}])
      BY <1>3, <2>2 DEF EnsureFix
    <3>2. req[s].pc = "fix" /\ x.tag \in Tags /\ x.pk # NoPk
      BY <1>3, <1>x DEF EnsureFix, KeyInv, Request, Fix, Tags
    <3> SUFFICES ASSUME NEW u \in Sessions, NEW t \in Defaults, req'[u].calm
                 PROVE  Planned(req'[u], t, rows'[t])
      BY <1>p
    <3>3. /\ rows'[t].edits = IF t = x.tag THEN rows[t].edits \ x.fields ELSE rows[t].edits
          /\ rows[t] # NoRow => rows'[t] # NoRow
      BY <3>1, <3>2, <1>d DEF TypeOK, Row, NoRow
    <3>4. req'[u] = IF u = s THEN [req[s] EXCEPT !.fix = @ \ {x}] ELSE req[u]
      BY <3>1 DEF Become, TypeOK
    <3>5. CASE u = s
      <4>1. /\ req'[u].pc = "fix" /\ req'[u].make = req[s].make
            /\ req'[u].fix = req[s].fix \ {x} /\ req[s].calm
        BY <3>2, <3>4, <3>5, <1>x DEF Request
      <4>2. Planned(req[s], t, rows[t])
        BY <4>1, <1>k
      <4>3. ASSUME NEW f \in rows'[t].edits
            PROVE  \E y \in req[s].fix \ {x} : y.tag = t /\ f \in y.fields
        <5>1. PICK y \in req[s].fix : y.tag = t /\ f \in y.fields
          BY <3>2, <3>3, <4>2, <4>3
        <5>2. y # x
          BY <3>3, <4>3, <5>1
        <5> QED
          BY <5>1, <5>2
      <4> QED
        BY <3>2, <3>3, <4>1, <4>2, <4>3
    <3>6. CASE u # s
      <4>1. req'[u] = req[u] /\ Planned(req[u], t, rows[t])
        BY <3>4, <3>6, <1>k
      <4> QED
        BY <3>3, <4>1
    <3> QED
      BY <3>5, <3>6
  <2> QED
    BY <2>1, <2>2
<1>4. ASSUME NEW s \in Sessions, EnsureMake(s) PROVE PlanInv'
  <2>1. CASE End(s) /\ rows' = rows
    BY <2>1, <1>e
  <2>2. CASE ~(End(s) /\ rows' = rows)
    <3>1. /\ req[s].pc = "fix" /\ req[s].fix = {}
          /\ \A t \in req[s].make : rows[t] = NoRow
          /\ Create(req[s].make, {})
          /\ Become(s, [req[s] EXCEPT !.pc = "clear", !.make = {}])
      BY <1>4, <2>2 DEF EnsureMake, Exists
    <3> SUFFICES ASSUME NEW u \in Sessions, NEW t \in Defaults, req'[u].calm
                 PROVE  Planned(req'[u], t, rows'[t])
      BY <1>p
    <3>2. /\ t \in req[s].make => rows[t] = NoRow /\ rows'[t] # NoRow /\ rows'[t].edits = {}
          /\ t \notin req[s].make => rows'[t] = rows[t]
      BY <3>1, <1>d DEF Create, TypeOK, NoRow, NoPk
    <3>3. req'[u] = IF u = s THEN [req[s] EXCEPT !.pc = "clear", !.make = {}] ELSE req[u]
      BY <3>1 DEF Become, TypeOK
    <3>4. CASE u = s
      <4>1. req'[u].pc = "clear" /\ req[s].calm
        BY <3>3, <3>4, <1>x DEF Request
      <4>2. rows[t] # NoRow \/ t \in req[s].make
        BY <3>1, <4>1, <1>k
      <4>3. rows[t].edits = {}
        <5>1. rows[t].edits \in SUBSET Fields
          BY <1>d DEF Row
        <5>2. \A f \in rows[t].edits : \E x \in req[s].fix : x.tag = t /\ f \in x.fields
          BY <3>1, <4>1, <1>k
        <5> QED
          BY <3>1, <5>1, <5>2
      <4> QED
        BY <3>2, <4>1, <4>2, <4>3
    <3>5. CASE u # s
      <4>1. req'[u] = req[u] /\ Planned(req[u], t, rows[t])
        BY <3>3, <3>5, <1>k
      <4> QED
        BY <3>2, <4>1
    <3> QED
      BY <3>4, <3>5
  <2> QED
    BY <2>1, <2>2
<1>5. ASSUME NEW s \in Sessions, Clear(s) PROVE PlanInv'
  <2>1. CASE req[s].pc = "clear" /\ Become(s, [req[s] EXCEPT !.pc = "pick"])
    <3>1. /\ [req[s] EXCEPT !.pc = "pick"].pc = "pick"
          /\ [req[s] EXCEPT !.pc = "pick"].calm = req[s].calm
      BY <1>x DEF Request
    <3> QED
      BY <1>5, <2>1, <3>1, <1>b, <1>k DEF Clear, table
  <2>2. ~[NoRequest EXCEPT !.pc = "read"].calm
    BY DEF NoRequest
  <2> QED
    BY <1>5, <2>1, <2>2, <1>b, <1>e DEF Clear, table
<1>6. ASSUME NEW s \in Sessions, PickTag(s) PROVE PlanInv'
  <2>1. \A t \in Tags, pc \in {"save", "delete"} :
          LET q == [req[s] EXCEPT !.pc = pc, !.tag = t, !.pk = rows[t].pk]
          IN  q.pc = pc
    BY <1>x DEF Request
  <2> QED
    BY <1>6, <2>1, <1>b DEF PickTag, table
<1>7. ASSUME NEW s \in Sessions, SaveTag(s) PROVE PlanInv'
  <2>1. [req[s] EXCEPT !.pc = "done"] \in Request
    BY <1>x DEF Request, PC
  <2> QED
    BY <1>7, <2>1, <1>c, <1>e DEF SaveTag, TagForm
<1>8. ASSUME NEW s \in Sessions, AddTag(s) \/ DeleteTag(s) PROVE PlanInv'
  <2>1. [req[s] EXCEPT !.pc = "done"] \in Request
    BY <1>x DEF Request, PC
  <2> QED
    BY <1>8, <2>1, <1>c DEF AddTag, TagForm, DeleteTag
<1>9. ASSUME NEW s \in Sessions, SaveLayout(s) PROVE PlanInv'
  <2>1. [req[s] EXCEPT !.pc = "done"].pc = "done"
    BY <1>x DEF Request
  <2> QED
    BY <1>9, <2>1, <1>b DEF SaveLayout, PlcForm
<1>10. CASE UNCHANGED <<rows, req>>
  BY <1>10, <1>k, <1>p
<1> QED
  BY <1>1, <1>2, <1>3, <1>4, <1>5, <1>6, <1>7, <1>8, <1>9, <1>10
  DEF Next, Settings, Registry, LoadValue, StoreValue, Tick, vars, table

\* A visit of the settings page restores the tags of TAG_DEFINITIONS, for any number of
\* requests (VisitRestoresDefaults): PlanInv says what a calm request will still restore.
THEOREM SettingsRestoreDefaults == Spec => []VisitRestoresDefaults
<1>1. Init => KeyInv /\ PlanInv
  BY DEF Init, KeyInv, PlanInv, NoRequest, NoRow
<1>2. TypeOK /\ PlanInv => VisitRestoresDefaults
  BY DEF PlanInv, VisitRestoresDefaults
<1> QED
  BY <1>1, <1>2, InitTypes, NextTypes, NextKeys, NextPlans, PTL DEF Spec
=============================================================================
