----------------------------- MODULE DataStore -----------------------------
(***************************************************************************)
(* BinaryDataStore (src/qt/business_objects/binarydatastore.cpp): data in  *)
(* a table of an SQLite file that several instances, also of different     *)
(* processes, share.  A call is one SQL statement, which SQLite makes      *)
(* atomic; the constructor is several steps.  A version is a new UUID.     *)
(***************************************************************************)
EXTENDS Integers, FiniteSetsExt

CONSTANTS Agents,      \* the instances
          Datas,       \* the data, which are their own lengths (a bound)
          MaxVersions, \* the most versions that are given (a bound)
          MaxIds       \* the largest id (a bound)

ASSUME DataStoreAssumption == MaxVersions \in Nat /\ MaxIds \in Nat

VARIABLE store   \* file: none, empty or with its table; rows: id -> row; versions: how
                 \* many UUIDs were made; agent: each instance and what it remembers

Files  == {"none", "empty", "table"}
NoData == -1

NoKnowledge == [id |-> 0, version |-> 0, data |-> NoData]

Row(version, data) == [size |-> data, version |-> version, data |-> data]

WithRowAt(rows, id, row) == [i \in DOMAIN rows \cup {id} |-> IF i = id THEN row ELSE rows[i]]

StoreInit ==
  \E file \in {"none", "table"} :
    store = [file |-> file, rows |-> [i \in {} |-> Row(0, 0)], versions |-> 0,
             agent |-> [a \in Agents |-> [pc |-> "none", existed |-> FALSE, knows |-> NoKnowledge]]]

Open(a) == store.agent[a].pc = "open"

---------------------------------------------------------------------------
(* The constructor *)

\* QFile::exists ...
LookForFile(a) ==
  /\ store.agent[a].pc = "none"
  /\ store' = [store EXCEPT !.agent[a].pc = "looked", !.agent[a].existed = store.file # "none"]

\* ... then SQLite opens the file, and makes an empty one if there is none ...
OpenDatabase(a) ==
  /\ store.agent[a].pc = "looked"
  /\ store' = [store EXCEPT !.file = IF @ = "none" THEN "empty" ELSE @, !.agent[a].pc = "opened"]

\* ... and a file that was there is checked: without a table, because another instance has
\* not made it yet or never got to it, the constructor throws.
CheckTable(a) ==
  /\ store.agent[a].pc = "opened" /\ store.agent[a].existed
  /\ store' = [store EXCEPT !.agent[a].pc = IF store.file = "table" THEN "open" ELSE "none"]

\* In a new one the table is created: which fails, and the constructor throws, if another
\* instance has done it in between.
CreateTable(a) ==
  /\ store.agent[a].pc = "opened" /\ ~store.agent[a].existed
  /\ store' = [store EXCEPT !.file = "table",
                            !.agent[a].pc = IF store.file = "table" THEN "none" ELSE "open"]

\* An instance is destroyed, or its process ends, be it in the constructor.
Close(a) == /\ store.agent[a].pc # "none"
            /\ store' = [store EXCEPT !.agent[a].pc = "none", !.agent[a].knows = NoKnowledge]

---------------------------------------------------------------------------
(* The calls *)

\* The id of a new row is one more than the largest: an INTEGER PRIMARY KEY.
NewId == 1 + Max(DOMAIN store.rows \cup {0})

Remember(s, a, id, version, data) ==
  [s EXCEPT !.agent[a].knows = [id |-> id, version |-> version, data |-> data]]

AddData(a, data) ==
  /\ Open(a) /\ NewId <= MaxIds /\ store.versions < MaxVersions
  /\ LET version == store.versions + 1
         added   == [store EXCEPT !.rows = WithRowAt(@, NewId, Row(version, data)), !.versions = version]
     IN  store' = Remember(added, a, NewId, version, data)

\* A bug to detect: the version stays.
UpdatedInPlace(rows, id, version, data) ==
  IF id \notin DOMAIN rows THEN rows ELSE [rows EXCEPT ![id] = Row(@.version, data)]

Updated(rows, id, version, data) ==
  IF id \notin DOMAIN rows THEN rows ELSE [rows EXCEPT ![id] = Row(version, data)]

\* The new version is returned even if there is no such id.
SetData(a, id, data) ==
  /\ Open(a) /\ store.versions < MaxVersions
  /\ LET version == store.versions + 1
         set     == [store EXCEPT !.rows = Updated(@, id, version, data), !.versions = version]
     IN  store' = Remember(set, a, id, version, data)

RemoveData(a, id) ==
  /\ Open(a)
  /\ store' = [store EXCEPT !.rows = [i \in DOMAIN @ \ {id} |-> @[i]]]

ClearData(a) == Open(a) /\ store' = [store EXCEPT !.rows = [i \in {} |-> Row(0, 0)]]

GetData(s, id)    == IF id \in DOMAIN s.rows THEN s.rows[id].data ELSE NoData
GetSize(s, id)    == IF id \in DOMAIN s.rows THEN s.rows[id].size ELSE -1
GetVersion(s, id) == IF id \in DOMAIN s.rows THEN s.rows[id].version ELSE 0

StoreNext ==
  \E a \in Agents :
    \/ LookForFile(a) \/ OpenDatabase(a) \/ CheckTable(a) \/ CreateTable(a)
    \/ Close(a) \/ ClearData(a)
    \/ \E data \in Datas : AddData(a, data)
    \/ \E id \in 1 .. MaxIds : RemoveData(a, id)
    \/ \E id \in 1 .. MaxIds, data \in Datas : SetData(a, id, data)

---------------------------------------------------------------------------
(* Properties *)

\* The version is "how you will know if the value ever changes from behind your back": if the
\* version of an id is the one that an instance remembers, so are the data, although the ids
\* of removed data are given again.  No two data have the same version, a size is that of the
\* data, and whoever has come through the constructor has a file with its table, whichever
\* instances were between looking, opening and creating then.
VersionsTell ==
  /\ \A a \in Agents : Open(a) => store.file = "table"
  /\ \A a \in Agents :
       LET k == store.agent[a].knows
       IN  k.version # 0 /\ GetVersion(store, k.id) = k.version => GetData(store, k.id) = k.data
  /\ \A i \in DOMAIN store.rows : GetSize(store, i) = GetData(store, i)
  /\ \A i, j \in DOMAIN store.rows : i # j => GetVersion(store, i) # GetVersion(store, j)
=============================================================================
