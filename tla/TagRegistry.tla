------------------------------ MODULE TagRegistry ------------------------------
(***************************************************************************)
(* The tags and the register layout: two tables of the database, the       *)
(* settings page that edits them, and the cache that every process keeps   *)
(* of them.                                                                *)
(*                                                                         *)
(* Daphne serves each request in a thread of its own, and all of them      *)
(* share the cache of their process; a child of the worker runs one task   *)
(* at a time and has a cache to itself.  The unit of interleaving is one   *)
(* statement of the database or one access to the cache.  A column of a    *)
(* tag either has its default or has been edited.                          *)
(***************************************************************************)
EXTENDS Integers

CONSTANTS
  Defaults,   \* tags of TAG_DEFINITIONS
  Disabled,   \* those in LEGACY_DISABLED_TAG_IDS
  Fields,     \* columns of a tag
  Others,     \* further tags that an operator may add
  Layouts,    \* what PlcSchemaConfig may hold
  Standard,   \* the layout of PLC_REGISTER_LAYOUT
  Sessions,   \* requests to the settings page that may overlap
  Children,   \* children of the worker
  Readers,    \* other requests that may overlap, and one task for each child
  Home,       \* the process of a reader
  Asks,       \* the keys it asks for
  TTL,        \* ttl_seconds
  MaxLoad,    \* bound: seconds from the load of a table to its store in the cache
  MaxPosts    \* bound: forms an operator sends

Tags == Defaults \cup Others
Web == "web"
Processes == {Web} \cup Children
Keys == {"tags", "layout"}

ASSUME TagAssumption ==
  /\ Tags \subseteq Nat /\ Disabled \subseteq Defaults /\ Defaults \cap Others = {}
  /\ Standard \in Layouts /\ "is_active" \in Fields
ASSUME ProcessAssumption ==
  /\ Home \in [Readers -> Processes] /\ Asks \in [Readers -> SUBSET Keys]
  /\ TTL \in Nat /\ MaxLoad \in Nat /\ MaxPosts \in Nat

VARIABLES
  rows,     \* the TagConfig rows
  lastPk,   \* the last primary key given to a row of a tag (rows of two tags never meet)
  layout,   \* the PlcSchemaConfig row
  cache,    \* the cache of a process: for each key one entry or none
  load,     \* a value that a reader has loaded and not stored, or none
  req,      \* where a request to the settings page is and what it holds
  posts,    \* forms sent so far
  quiet     \* for the properties: seconds since what a key stands for has changed

table == <<rows, lastPk, layout>>
vars == <<table, cache, load, req, posts, quiet>>

-----------------------------------------------------------------------------
(* The tables and the caches.                                              *)

NoPk == 0
Row == [pk : Nat, edits : SUBSET Fields]
NoRow == [pk |-> NoPk, edits |-> {}]
Exists(t) == rows[t] # NoRow

\* _load_tags: tags that have no row are as in TAG_DEFINITIONS, but active all of them.
Gone == {"gone"}
Merged(t) ==
  IF Exists(t) THEN rows[t].edits
  ELSE IF t \in Disabled THEN {"is_active"} ELSE IF t \in Defaults THEN {} ELSE Gone
Loaded(key) == IF key = "tags" THEN [t \in Tags |-> Merged(t)] ELSE layout
Value == [Tags -> (SUBSET Fields) \cup {Gone}] \cup Layouts
Entry == [value : Value, age : 0 .. TTL]
Load == [key : Keys, value : Value, held : 0 .. MaxLoad]

\* An entry that has expired is not served any more.  NeverExpired is wrong on purpose.
NeverExpired(entries) == {[e EXCEPT !.age = IF e.age < TTL THEN e.age + 1 ELSE e.age] : e \in entries}
Unexpired(entries) == {[e EXCEPT !.age = e.age + 1] : e \in {x \in entries : x.age < TTL}}

Empty == [k \in Keys |-> {}]

QuietMax == TTL + MaxLoad + 1
Noticed(key) == IF Loaded(key)' # Loaded(key) THEN 0 ELSE quiet[key]
TagsTouched == quiet' = [quiet EXCEPT !["tags"] = Noticed("tags")]

-----------------------------------------------------------------------------
(* Requests to the settings page.  calm is for the properties: no form has *)
(* changed a tag since the request has read the tags.                      *)

PC == {"idle", "read", "fix", "clear", "pick", "save", "delete", "done"}
Fix == [tag : Defaults, pk : Nat, fields : SUBSET Fields]
Request == [pc : PC, post : BOOLEAN, fix : SUBSET Fix, make : SUBSET Defaults,
            tag : Tags \cup {NoPk}, pk : Nat, calm : BOOLEAN]
NoRequest == [pc |-> "idle", post |-> FALSE, fix |-> {}, make |-> {}, tag |-> NoPk,
              pk |-> NoPk, calm |-> FALSE]

\* A request ends, with a page or with an error 500.
End(s) == req' = [req EXCEPT ![s] = NoRequest]
Become(s, r) == req' = [req EXCEPT ![s] = r]
\* After a form has changed a tag no request is calm.
BecomeAfterChange(s, r) ==
  req' = [u \in Sessions |-> [(IF u = s THEN r ELSE req[u]) EXCEPT !.calm = FALSE]]

\* A visit, or a form that an operator sends; either begins with ensure_defaults.
Visit(s) ==
  /\ req[s].pc = "idle"
  /\ Become(s, [NoRequest EXCEPT !.pc = "read"])
  /\ UNCHANGED <<table, cache, load, posts, quiet>>

Post(s) ==
  /\ req[s].pc = "idle" /\ posts < MaxPosts
  /\ posts' = posts + 1
  /\ Become(s, [NoRequest EXCEPT !.pc = "read", !.post = TRUE])
  /\ UNCHANGED <<table, cache, load, quiet>>

\* ensure_defaults reads the rows and finds what is not as in TAG_DEFINITIONS.
Edited == {[tag |-> t, pk |-> rows[t].pk, fields |-> rows[t].edits] :
             t \in {u \in Defaults : Exists(u) /\ rows[u].edits # {}}}
Missing == {t \in Defaults : ~Exists(t)}

EnsureRead(s) ==
  /\ req[s].pc = "read"
  /\ Become(s, [req[s] EXCEPT !.pc = "fix", !.fix = Edited, !.make = Missing, !.calm = TRUE])
  /\ UNCHANGED <<table, cache, load, posts, quiet>>

\* The columns found changed are saved, one row after the other; a row that has gone
\* since makes the save fail.
EnsureFix(s) ==
  /\ req[s].pc = "fix"
  /\ \E x \in req[s].fix :
       /\ \A y \in req[s].fix : x.tag <= y.tag
       /\ \/ /\ rows[x.tag].pk = x.pk
             /\ rows' = [rows EXCEPT ![x.tag].edits = @ \ x.fields]
             /\ Become(s, [req[s] EXCEPT !.fix = @ \ {x}])
             /\ TagsTouched
          \/ /\ rows[x.tag].pk # x.pk
             /\ End(s)
             /\ UNCHANGED <<rows, quiet>>
  /\ UNCHANGED <<lastPk, layout, cache, load, posts>>

\* bulk_create of those that were missing: all of them, or an IntegrityError.
Create(tags, edits) ==
  /\ lastPk' = [t \in Tags |-> IF t \in tags THEN lastPk[t] + 1 ELSE lastPk[t]]
  /\ rows' = [t \in Tags |-> IF t \in tags THEN [pk |-> lastPk[t] + 1, edits |-> edits]
                             ELSE rows[t]]

EnsureMake(s) ==
  /\ req[s].pc = "fix" /\ req[s].fix = {}
  /\ \/ /\ \A t \in req[s].make : ~Exists(t)
        /\ Create(req[s].make, {})
        /\ Become(s, [req[s] EXCEPT !.pc = "clear", !.make = {}])
        /\ TagsTouched
     \/ /\ \E t \in req[s].make : Exists(t)
        /\ End(s)
        /\ UNCHANGED <<rows, lastPk, quiet>>
  /\ UNCHANGED <<layout, cache, load, posts>>

\* clear_cache, which reaches the cache of this process only.
Clear(s) ==
  /\ req[s].pc \in {"clear", "done"}
  /\ cache' = [cache EXCEPT ![Web] = Empty]
  /\ \/ req[s].pc = "clear" /\ req[s].post /\ Become(s, [req[s] EXCEPT !.pc = "pick"])
     \/ ~req[s].post /\ End(s)
     \* After a form the browser is sent to the page, where it may never arrive.
     \/ req[s].pc = "done" /\ Become(s, [NoRequest EXCEPT !.pc = "read"])
     \/ req[s].pc = "done" /\ End(s)
  /\ UNCHANGED <<table, load, posts, quiet>>

\* save_tag and delete_tag get the row first.
PickTag(s) ==
  /\ req[s].pc = "pick"
  /\ \E t \in {u \in Tags : Exists(u)}, pc \in {"save", "delete"} :
       Become(s, [req[s] EXCEPT !.pc = pc, !.tag = t, !.pk = rows[t].pk])
  /\ UNCHANGED <<table, cache, load, posts, quiet>>

\* The forms have a field for every column.
TagForm == SUBSET Fields
PlcForm == Layouts

\* form.save of a row that exists writes all columns; if the row has gone it is
\* inserted again under its old key, unless another row has the tag by now.
SaveTag(s) ==
  LET t == req[s].tag IN
  /\ req[s].pc = "save"
  /\ \/ /\ rows[t].pk \in {req[s].pk, NoPk}
        /\ \E edits \in TagForm : rows' = [rows EXCEPT ![t] = [pk |-> req[s].pk, edits |-> edits]]
        /\ BecomeAfterChange(s, [req[s] EXCEPT !.pc = "done"])
        /\ TagsTouched
     \/ /\ rows[t].pk \notin {req[s].pk, NoPk}
        /\ End(s)
        /\ UNCHANGED <<rows, quiet>>
  /\ UNCHANGED <<lastPk, layout, cache, load, posts>>

\* save_tag without a row to edit; a tag that has one is refused.
AddTag(s) ==
  /\ req[s].pc = "pick"
  /\ \E t \in {u \in Tags : ~Exists(u)}, edits \in TagForm : Create({t}, edits)
  /\ BecomeAfterChange(s, [req[s] EXCEPT !.pc = "done"])
  /\ TagsTouched
  /\ UNCHANGED <<layout, cache, load, posts>>

DeleteTag(s) ==
  LET t == req[s].tag IN
  /\ req[s].pc = "delete"
  /\ rows' = IF rows[t].pk = req[s].pk THEN [rows EXCEPT ![t] = NoRow] ELSE rows
  /\ BecomeAfterChange(s, [req[s] EXCEPT !.pc = "done"])
  /\ TagsTouched
  /\ UNCHANGED <<lastPk, layout, cache, load, posts>>

\* save_plc_schema
SaveLayout(s) ==
  /\ req[s].pc = "pick"
  /\ layout' \in PlcForm
  /\ Become(s, [req[s] EXCEPT !.pc = "done"])
  /\ quiet' = [quiet EXCEPT !["layout"] = Noticed("layout")]
  /\ UNCHANGED <<rows, lastPk, cache, load, posts>>

\* A form that is not valid, a row that has gone, an action without effect on the tables.
Refuse(s) ==
  /\ req[s].pc = "pick"
  /\ End(s)
  /\ UNCHANGED <<table, cache, load, posts, quiet>>

-----------------------------------------------------------------------------
(* Readers of the registry: get_tags, get_register_layout.                 *)

\* The cache has nothing to serve, and the table is read ...
LoadValue(r) ==
  /\ load[r] = {}
  /\ \E k \in Asks[r] :
       /\ cache[Home[r]][k] = {}
       /\ load' = [load EXCEPT ![r] = {[key |-> k, value |-> Loaded(k), held |-> 0]}]
  /\ UNCHANGED <<table, cache, req, posts, quiet>>

\* ... and put into the cache, as of now.
StoreValue(r) ==
  /\ \E l \in load[r] :
       cache' = [cache EXCEPT ![Home[r]][l.key] = {[value |-> l.value, age |-> 0]}]
  /\ load' = [load EXCEPT ![r] = {}]
  /\ UNCHANGED <<table, req, posts, quiet>>

-----------------------------------------------------------------------------

\* A second goes by.  No load takes longer than MaxLoad.
Tick ==
  /\ \A r \in Readers : \A l \in load[r] : l.held < MaxLoad
  /\ load' = [r \in Readers |-> {[l EXCEPT !.held = l.held + 1] : l \in load[r]}]
  /\ cache' = [p \in Processes |-> [k \in Keys |-> Unexpired(cache[p][k])]]
  /\ quiet' = [k \in Keys |-> IF quiet[k] < QuietMax THEN quiet[k] + 1 ELSE QuietMax]
  /\ UNCHANGED <<table, req, posts>>

Init ==
  /\ rows = [t \in Tags |-> NoRow] /\ lastPk = [t \in Tags |-> NoPk]
  /\ layout = Standard
  /\ cache = [p \in Processes |-> Empty]
  /\ load = [r \in Readers |-> {}]
  /\ req = [s \in Sessions |-> NoRequest]
  /\ posts = 0
  /\ quiet = [k \in Keys |-> 0]

Settings(s) ==
  \/ Visit(s) \/ Post(s) \/ EnsureRead(s) \/ EnsureFix(s) \/ EnsureMake(s) \/ Clear(s)
  \/ PickTag(s) \/ SaveTag(s) \/ AddTag(s) \/ DeleteTag(s) \/ SaveLayout(s) \/ Refuse(s)
Registry(r) == LoadValue(r) \/ StoreValue(r)

Next == Tick \/ (\E s \in Sessions : Settings(s)) \/ (\E r \in Readers : Registry(r))

Spec == Init /\ [][Next]_vars

-----------------------------------------------------------------------------
(* Properties.                                                             *)

TypeOK ==
  /\ rows \in [Tags -> Row] /\ lastPk \in [Tags -> Nat]
  /\ layout \in Layouts
  /\ cache \in [Processes -> [Keys -> SUBSET Entry]]
  /\ load \in [Readers -> SUBSET Load]
  /\ req \in [Sessions -> Request]
  /\ posts \in 0 .. MaxPosts
  /\ quiet \in [Keys -> 0 .. QuietMax]

\* Whatever is opened, sent, saved and deleted at the same time: a visit of the settings
\* page that is not refused leaves every tag of TAG_DEFINITIONS as it is there, unless a
\* form has changed a tag since the visit has read them.
VisitRestoresDefaults ==
  \A s \in Sessions : req[s].pc \in {"clear", "pick"} /\ req[s].calm =>
    \A t \in Defaults : Exists(t) /\ rows[t].edits = {}

\* What a process serves from its cache was in the table at most ttl_seconds and the time
\* of one load ago, although no process is told of a change, a request may fail before it
\* has cleared the cache, and an old value can be stored after a clear.
StaleBound ==
  \A p \in Processes, k \in Keys : \A e \in cache[p][k] :
    e.value = Loaded(k) \/ quiet[k] <= TTL + MaxLoad

\* The page says that tags are managed there and "Tag was updated." after an edit: what an
\* operator has saved in a tag stays until a form saves or deletes that tag.
ChangedByForm(t) == \E s \in Sessions : req[s].tag = t /\ (SaveTag(s) \/ DeleteTag(s))
EditsStay ==
  [][\A t \in Tags : Exists(t) /\ rows[t].edits # {} =>
       rows'[t].edits = rows[t].edits \/ ChangedByForm(t)]_rows
=============================================================================
