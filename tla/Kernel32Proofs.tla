---------------------------- MODULE Kernel32Proofs -----------------------------
(***************************************************************************)
(* Proofs about the handle table of Kernel32, for any number of handles,   *)
(* files, directories and libraries.                                       *)
(***************************************************************************)
EXTENDS Kernel32, FiniteSetTheorems, TLAPS

\* The inductive invariant.  Names and streams of handles are kept apart only
\* because a handle in use is never given out again and a stream has a number
\* of its own; that in turn needs the types.
Inv == TypeOK /\ HandlesNameTheirOwn /\ OnlyDirectoriesLeak

LEMMA InitInv == Init => Inv
<1> SUFFICES ASSUME Init PROVE Inv
  OBVIOUS
<1>1. DOMAIN handles = {} /\ DOMAIN held = {} /\ DOMAIN streams = {}
  BY DEF Init
<1>2. /\ handles \in [{} -> [type : Type, name : Names, stream : Nat]]
      /\ held \in [{} -> [type : Type, name : Names, position : Nat]]
      /\ streams \in [{} -> Stream]
  BY DEF Init
<1>3. /\ disk \in [Paths -> {"missing", "file", "directory"}]
      /\ \A p \in Paths : disk[p] = "file" => p \in DOMAIN Size
      /\ handle \in Numbers /\ opened \in Nat
  BY BoundAssumption DEF Init, Numbers
<1>e. lastError \in Error /\ failed \in BOOLEAN
  BY DEF Init, Error
<1>4. TypeOK
  BY <1>1, <1>2, <1>3, <1>e DEF TypeOK
<1> QED
  BY <1>1, <1>4 DEF Inv, HandlesNameTheirOwn, OnlyDirectoriesLeak

\* A new handle that leads to no stream.
LEMMA CreateObjectKeeps ==
  ASSUME Inv, NEW type \in Type \ {"File"}, NEW name \in Names,
         CreateHandleType(type, name, NoStream),
         lastError' \in Error, failed' \in BOOLEAN,
         UNCHANGED <<disk, streamVars>>
  PROVE  Inv'
<1>1. PICK h \in Numbers :
        /\ h \notin DOMAIN handles
        /\ handle' = h
        /\ handles' = With(handles, h, [type |-> type, name |-> name, stream |-> NoStream])
        /\ held' = With(held, h, [type |-> type, name |-> name, position |-> 0])
  BY DEF CreateHandleType, Takes, Inv, HandlesNameTheirOwn
<1>2. /\ DOMAIN handles' = DOMAIN handles \cup {h} /\ DOMAIN held' = DOMAIN held \cup {h}
      /\ \A k \in DOMAIN handles : handles'[k] = handles[k]
      /\ \A k \in DOMAIN held : held'[k] = held[k]
      /\ handles'[h] = [type |-> type, name |-> name, stream |-> NoStream]
      /\ held'[h] = [type |-> type, name |-> name, position |-> 0]
  BY <1>1 DEF With, Inv, HandlesNameTheirOwn
<1>3. streams' = streams /\ opened' = opened /\ disk' = disk
  BY DEF streamVars
<1>4. NoStream \notin DOMAIN streams /\ NoStream \in Nat
  BY DEF Inv, TypeOK, NoStream
<1>5. TypeOK'
  <2>1. handles' \in [DOMAIN handles' -> [type : Type, name : Names, stream : Nat]]
    BY <1>1, <1>2, <1>4 DEF With, Inv, TypeOK
  <2>2. held' \in [DOMAIN held' -> [type : Type, name : Names, position : Nat]]
    BY <1>1, <1>2 DEF With, Inv, TypeOK
  <2>3. \A k \in DOMAIN handles' :
          IF handles'[k].type = "File"
          THEN disk'[handles'[k].name] = "file" /\ handles'[k].stream \in DOMAIN streams'
          ELSE handles'[k].stream = NoStream
    BY <1>2, <1>3, <1>4 DEF Inv, TypeOK
  <2>4. /\ handle' \in Numbers /\ DOMAIN handles' \subseteq Numbers
        /\ lastError' \in Error /\ failed' \in BOOLEAN
    <3>1. DOMAIN handles \subseteq Numbers
      BY DEF Inv, TypeOK
    <3>2. handle' \in Numbers /\ DOMAIN handles' \subseteq Numbers
      BY <1>1, <1>2, <3>1
    <3>3. lastError' \in Error /\ failed' \in BOOLEAN
      BY <1>3 DEF Error
    <3> QED
      BY <3>2, <3>3
  <2>5. /\ disk' \in [Paths -> {"missing", "file", "directory"}]
        /\ \A p \in Paths : disk'[p] = "file" => p \in DOMAIN Size
        /\ opened' \in Nat /\ DOMAIN streams' \subseteq 1..opened'
        /\ streams' \in [DOMAIN streams' -> Stream]
    BY <1>3 DEF Inv, TypeOK
  <2> QED
    BY <2>1, <2>2, <2>3, <2>4, <2>5 DEF TypeOK
<1>6. HandlesNameTheirOwn'
  <2>1. DOMAIN handles' = DOMAIN held'
    BY <1>2 DEF Inv, HandlesNameTheirOwn
  <2>2. ASSUME NEW k \in DOMAIN held'
        PROVE  /\ handles'[k].type = held'[k].type /\ handles'[k].name = held'[k].name
               /\ held'[k].type = "File" => streams'[handles'[k].stream].path = held'[k].name
    <3>1. CASE k = h
      BY <1>2, <3>1
    <3>2. CASE k \in DOMAIN held
      BY <1>2, <1>3, <3>2 DEF Inv, HandlesNameTheirOwn
    <3> QED
      BY <1>2, <3>1, <3>2
  <2>3. ASSUME NEW k \in DOMAIN handles', NEW g \in DOMAIN handles',
               handles'[k].type = "File", handles'[k].stream = handles'[g].stream
        PROVE  k = g
    <3>1. k # h /\ k \in DOMAIN handles /\ handles[k].type = "File"
      BY <1>2, <2>3
    <3>2. handles'[k].stream = handles[k].stream /\ handles[k].stream \in DOMAIN streams
      BY <1>2, <3>1 DEF Inv, TypeOK
    <3>3. g # h
      <4>1. handles'[h].stream = NoStream
        BY <1>2
      <4> QED
        BY <1>4, <2>3, <3>2, <4>1
    <3>4. g \in DOMAIN handles /\ handles[k].stream = handles[g].stream
      BY <1>2, <2>3, <3>2, <3>3
    <3> QED
      BY <3>1, <3>4 DEF Inv, HandlesNameTheirOwn
  <2> QED
    BY <2>1, <2>2, <2>3 DEF HandlesNameTheirOwn
<1>7. OnlyDirectoriesLeak'
  <2>1. ASSUME NEW s \in DOMAIN streams
        PROVE  \/ \E k \in DOMAIN handles' : handles'[k].stream = s
               \/ disk'[streams'[s].path] = "directory"
    BY <1>2, <1>3 DEF Inv, OnlyDirectoriesLeak
  <2> QED
    BY <1>3, <2>1 DEF OnlyDirectoriesLeak
<1> QED
  BY <1>5, <1>6, <1>7 DEF Inv

\* CreateFileA: a file gets a stream and a handle, a directory a stream only.
LEMMA CreateFileKeeps ==
  ASSUME Inv, NEW path \in Paths, CreateFileA(path)
  PROVE  Inv'
<1> DEFINE n == opened + 1
<1>1. /\ disk' = disk /\ disk[path] \in {"missing", "file", "directory"}
      /\ lastError' \in Error /\ failed' \in BOOLEAN
      /\ n \in Nat /\ n \notin DOMAIN streams /\ n # NoStream
  <2>1. lastError' \in Error /\ failed' \in BOOLEAN
    BY DEF CreateFileA, Succeeds, Fails, Error
  <2>2. n \in Nat /\ n \notin DOMAIN streams /\ n # NoStream
    BY DEF Inv, TypeOK, NoStream
  <2> QED
    BY <2>1, <2>2 DEF CreateFileA, Inv, TypeOK
<1>2. CASE disk[path] = "missing"
  <2>1. UNCHANGED <<handles, handle, held, streams, opened>>
    BY <1>2 DEF CreateFileA, Opens, tableVars, streamVars
  <2> QED
    BY <1>1, <2>1 DEF Inv, TypeOK, HandlesNameTheirOwn, OnlyDirectoriesLeak
<1>3. ASSUME disk[path] # "missing"
      PROVE  /\ opened' = n /\ DOMAIN streams' = DOMAIN streams \cup {n}
             /\ \A s \in DOMAIN streams : streams'[s] = streams[s]
             /\ streams'[n] = [path |-> path, position |-> 0]
             /\ DOMAIN streams' \subseteq 1..n
             /\ streams' \in [DOMAIN streams' -> Stream]
  <2>1. opened' = n /\ streams' = With(streams, n, [path |-> path, position |-> 0])
    BY <1>3 DEF CreateFileA, Opens
  <2>2. /\ DOMAIN streams' = DOMAIN streams \cup {n}
        /\ \A s \in DOMAIN streams : streams'[s] = streams[s]
        /\ streams'[n] = [path |-> path, position |-> 0]
    BY <1>1, <2>1 DEF With
  <2>3. streams' \in [DOMAIN streams' -> Stream]
    BY <2>1, <2>2 DEF With, Inv, TypeOK, Stream
  <2>4. DOMAIN streams' \subseteq 1..n
    BY <2>2 DEF Inv, TypeOK
  <2> QED
    BY <2>1, <2>2, <2>3, <2>4
<1>4. CASE disk[path] = "directory"
  <2>1. UNCHANGED <<handles, handle, held>>
    BY <1>4 DEF CreateFileA, tableVars
  <2>2. \A h \in DOMAIN handles : handles[h].stream # n
    BY <1>1 DEF Inv, TypeOK
  <2>3. TypeOK'
    BY <1>1, <1>3, <1>4, <2>1 DEF Inv, TypeOK
  <2>4. HandlesNameTheirOwn'
    BY <1>3, <1>4, <2>1 DEF Inv, TypeOK, HandlesNameTheirOwn
  <2>5. OnlyDirectoriesLeak'
    BY <1>1, <1>3, <1>4, <2>1 DEF Inv, OnlyDirectoriesLeak
  <2> QED
    BY <2>3, <2>4, <2>5 DEF Inv
<1>5. CASE disk[path] = "file"
  <2>1. CreateHandleType("File", path, n)
    BY <1>3, <1>5 DEF CreateFileA
  <2>2. PICK h \in Numbers :
          /\ h \notin DOMAIN handles
          /\ handle' = h
          /\ handles' = With(handles, h, [type |-> "File", name |-> path, stream |-> n])
          /\ held' = With(held, h, [type |-> "File", name |-> path, position |-> 0])
    BY <2>1 DEF CreateHandleType, Takes, Inv, HandlesNameTheirOwn
  <2>3. /\ DOMAIN handles' = DOMAIN handles \cup {h} /\ DOMAIN held' = DOMAIN held \cup {h}
        /\ \A k \in DOMAIN handles : handles'[k] = handles[k] /\ handles'[k].stream # n
        /\ \A k \in DOMAIN held : held'[k] = held[k]
        /\ handles'[h] = [type |-> "File", name |-> path, stream |-> n]
        /\ held'[h] = [type |-> "File", name |-> path, position |-> 0]
    BY <1>1, <2>2 DEF With, Inv, TypeOK, HandlesNameTheirOwn
  <2>4. TypeOK'
    <3>1. handles' \in [DOMAIN handles' -> [type : Type, name : Names, stream : Nat]]
      BY <1>1, <2>2, <2>3 DEF With, Inv, TypeOK, Type, Names
    <3>2. held' \in [DOMAIN held' -> [type : Type, name : Names, position : Nat]]
      BY <2>2, <2>3 DEF With, Inv, TypeOK, Type, Names
    <3>3. \A k \in DOMAIN handles' :
            IF handles'[k].type = "File"
            THEN disk'[handles'[k].name] = "file" /\ handles'[k].stream \in DOMAIN streams'
            ELSE handles'[k].stream = NoStream
      BY <1>1, <1>3, <1>5, <2>3 DEF Inv, TypeOK
    <3> QED
      BY <1>1, <1>3, <1>5, <2>2, <2>3, <3>1, <3>2, <3>3 DEF Inv, TypeOK
  <2>5. HandlesNameTheirOwn'
    <3>1. DOMAIN handles' = DOMAIN held'
      BY <2>3 DEF Inv, HandlesNameTheirOwn
    <3>2. ASSUME NEW k \in DOMAIN held'
          PROVE  /\ handles'[k].type = held'[k].type /\ handles'[k].name = held'[k].name
                 /\ held'[k].type = "File" => streams'[handles'[k].stream].path = held'[k].name
      <4>1. CASE k = h
        BY <1>3, <1>5, <2>3, <4>1
      <4>2. CASE k \in DOMAIN held
        BY <1>3, <1>5, <2>3, <4>2 DEF Inv, TypeOK, HandlesNameTheirOwn
      <4> QED
        BY <2>3, <4>1, <4>2
    <3>3. ASSUME NEW k \in DOMAIN handles', NEW g \in DOMAIN handles',
                 handles'[k].type = "File", handles'[k].stream = handles'[g].stream
          PROVE  k = g
      <4>1. CASE k = h \/ g = h
        BY <2>3, <3>3, <4>1
      <4>2. CASE k # h /\ g # h
        BY <2>3, <3>3, <4>2 DEF Inv, HandlesNameTheirOwn
      <4> QED
        BY <4>1, <4>2
    <3> QED
      BY <3>1, <3>2, <3>3 DEF HandlesNameTheirOwn
  <2>6. OnlyDirectoriesLeak'
    BY <1>1, <1>3, <1>5, <2>2, <2>3 DEF Inv, OnlyDirectoriesLeak
  <2> QED
    BY <2>4, <2>5, <2>6 DEF Inv
<1> QED
  BY <1>1, <1>2, <1>4, <1>5

\* The table f with the position of one entry set.
Moved(f, k, to) == [f EXCEPT ![k].position = to]

\* A move or a read changes one stream's position and nothing else.
LEMMA MoveKeeps ==
  ASSUME Inv, NEW h \in DOMAIN held, held[h].type = "File", NEW to \in Nat, NEW wanted \in Nat,
         streams' = Moved(streams, handles[h].stream, to), held' = Moved(held, h, wanted),
         Succeeds, UNCHANGED <<disk, handles, handle, opened>>
  PROVE  Inv'
<1> DEFINE s == handles[h].stream
<1>1. s \in DOMAIN streams /\ streams[s] \in Stream
  BY DEF Inv, TypeOK, HandlesNameTheirOwn
<1>2. /\ DOMAIN streams' = DOMAIN streams /\ streams' \in [DOMAIN streams -> Stream]
      /\ \A k \in DOMAIN streams : streams'[k].path = streams[k].path
  BY <1>1 DEF Moved, Inv, TypeOK, Stream
<1>3. /\ DOMAIN held' = DOMAIN held
      /\ held' \in [DOMAIN held -> [type : Type, name : Names, position : Nat]]
      /\ \A k \in DOMAIN held : held'[k].type = held[k].type /\ held'[k].name = held[k].name
  BY DEF Moved, Inv, TypeOK
<1>4. lastError' \in Error /\ failed' \in BOOLEAN
  BY DEF Succeeds, Error
<1>5. TypeOK'
  BY <1>2, <1>3, <1>4 DEF Inv, TypeOK
<1>6. HandlesNameTheirOwn'
  BY <1>2, <1>3 DEF Inv, TypeOK, HandlesNameTheirOwn
<1>7. OnlyDirectoriesLeak'
  BY <1>2 DEF Inv, OnlyDirectoriesLeak
<1> QED
  BY <1>5, <1>6, <1>7 DEF Inv

LEMMA SetFilePointerKeeps ==
  ASSUME Inv, NEW h \in DOMAIN held, NEW d \in 0..(Modulus - 1), NEW method \in 0..2,
         SetFilePointer(h, d, method)
  PROVE  Inv'
<1> DEFINE s == handles[h].stream
           path == streams[s].path
           to == Origin(method, streams[s].position, Size[path]) + d
           wanted == Wanted(h, d, method)
<1>1. /\ held[h].type = "File"
      /\ wanted \in 0..(Modulus - 1) /\ to \in 0..(Reach - 1)
      /\ streams' = Moved(streams, s, to) /\ held' = Moved(held, h, wanted)
      /\ Succeeds /\ UNCHANGED <<disk, handles, handle, opened>>
  BY DEF SetFilePointer, Moved
<1>2. wanted \in Nat /\ to \in Nat
  BY <1>1, ModulusAssumption, BoundAssumption
<1> QED
  BY <1>1, <1>2, MoveKeeps

LEMMA ReadFileKeeps ==
  ASSUME Inv, NEW h \in DOMAIN held, NEW n \in 0..(Modulus \div 2), ReadFile(h, n)
  PROVE  Inv'
<1> DEFINE s == handles[h].stream
           left == Size[streams[s].path] - streams[s].position
           read == IF left <= 0 THEN 0 ELSE IF n < left THEN n ELSE left
<1>1. /\ held[h].type = "File"
      /\ streams' = [streams EXCEPT ![s].position = @ + read]
      /\ held' = [held EXCEPT ![h].position = @ + read]
      /\ Succeeds /\ UNCHANGED <<disk, handles, handle, opened>>
  BY DEF ReadFile
<1>2. s \in DOMAIN streams /\ streams[s] \in Stream /\ held[h].position \in Nat
  BY <1>1 DEF Inv, TypeOK, HandlesNameTheirOwn
<1>3. streams[s].path \in DOMAIN Size
  BY <1>1, <1>2 DEF Inv, TypeOK, HandlesNameTheirOwn, Stream
<1>4. Size[streams[s].path] \in Nat /\ streams[s].position \in Nat
  BY <1>2, <1>3, SizeAssumption DEF Stream
<1>5. n \in Nat
  BY ModulusAssumption
<1>6. read \in Nat
  BY <1>4, <1>5
<1>7. streams[s].position + read \in Nat /\ held[h].position + read \in Nat
  BY <1>2, <1>4, <1>6
<1> HIDE DEF read
<1>8. /\ streams' = Moved(streams, handles[h].stream, streams[s].position + read)
      /\ held' = Moved(held, h, held[h].position + read)
  BY <1>1 DEF Moved
<1>9. held[h].type = "File" /\ Succeeds /\ UNCHANGED <<disk, handles, handle, opened>>
  BY <1>1
<1> QED
  BY <1>7, <1>8, <1>9, MoveKeeps

\* Closing takes the handle out, and its stream with it.
LEMMA CloseHandleKeeps ==
  ASSUME Inv, NEW h \in DOMAIN held, CloseHandle(h)
  PROVE  Inv'
<1>1. /\ DOMAIN handles' = DOMAIN handles \ {h} /\ DOMAIN held' = DOMAIN held \ {h}
      /\ \A k \in DOMAIN handles' : handles'[k] = handles[k]
      /\ \A k \in DOMAIN held' : held'[k] = held[k]
      /\ handles' \in [DOMAIN handles' -> [type : Type, name : Names, stream : Nat]]
      /\ held' \in [DOMAIN held' -> [type : Type, name : Names, position : Nat]]
      /\ handle' = handle /\ h \in DOMAIN handles
  BY DEF CloseHandle, FreeHandle, Without, Inv, TypeOK, HandlesNameTheirOwn
<1>2. disk' = disk /\ opened' = opened /\ lastError' \in Error /\ failed' \in BOOLEAN
  BY DEF CloseHandle, Closes, Succeeds, Error, streamVars
<1>3. CASE handles[h].type = "File"
  <2> DEFINE s == handles[h].stream
  <2>1. /\ DOMAIN streams' = DOMAIN streams \ {s}
        /\ \A k \in DOMAIN streams' : streams'[k] = streams[k]
        /\ streams' \in [DOMAIN streams' -> Stream]
    BY <1>3 DEF CloseHandle, Closes, Without, Inv, TypeOK
  <2>2. \A k \in DOMAIN handles' : handles'[k].stream # s
    BY <1>1, <1>3 DEF Inv, HandlesNameTheirOwn
  <2>3. TypeOK'
    BY <1>1, <1>2, <2>1, <2>2 DEF Inv, TypeOK
  <2>4. HandlesNameTheirOwn'
    BY <1>1, <2>1, <2>2 DEF Inv, TypeOK, HandlesNameTheirOwn
  <2>5. OnlyDirectoriesLeak'
    BY <1>1, <1>2, <2>1, <2>2 DEF Inv, OnlyDirectoriesLeak
  <2> QED
    BY <2>3, <2>4, <2>5 DEF Inv
<1>4. CASE handles[h].type # "File"
  <2>1. streams' = streams
    BY <1>4 DEF CloseHandle, Closes, streamVars
  <2>2. handles[h].stream \notin DOMAIN streams
    BY <1>1, <1>4 DEF Inv, TypeOK, NoStream
  <2>3. TypeOK'
    BY <1>1, <1>2, <2>1 DEF Inv, TypeOK
  <2>4. HandlesNameTheirOwn'
    BY <1>1, <2>1 DEF Inv, HandlesNameTheirOwn
  <2>5. OnlyDirectoriesLeak'
    BY <1>1, <1>2, <2>1, <2>2 DEF Inv, OnlyDirectoriesLeak
  <2> QED
    BY <2>3, <2>4, <2>5 DEF Inv
<1> QED
  BY <1>3, <1>4

\* A step that leaves handles and streams alone, and no directory goes away.
LEMMA RestKeeps ==
  ASSUME Inv, UNCHANGED <<handles, handle, held, streams, opened>>,
         disk' \in [Paths -> {"missing", "file", "directory"}],
         \A p \in Paths : disk[p] # "missing" => disk'[p] = disk[p],
         \A p \in Paths : disk'[p] = "file" => disk[p] = "file",
         lastError' \in Error, failed' \in BOOLEAN
  PROVE  Inv'
<1>1. \A h \in DOMAIN handles : handles[h].type = "File" => handles[h].name \in Paths
  BY DEF Inv, TypeOK, Stream, HandlesNameTheirOwn
<1>2. TypeOK'
  BY <1>1 DEF Inv, TypeOK
<1>3. HandlesNameTheirOwn'
  BY DEF Inv, HandlesNameTheirOwn
<1>4. OnlyDirectoriesLeak'
  BY DEF Inv, TypeOK, Stream, OnlyDirectoriesLeak
<1> QED
  BY <1>2, <1>3, <1>4 DEF Inv

LEMMA NextKeeps == Inv /\ [Next]_vars => Inv'
<1> SUFFICES ASSUME Inv, [Next]_vars PROVE Inv'
  OBVIOUS
<1>t. /\ disk \in [Paths -> {"missing", "file", "directory"}]
      /\ lastError \in Error /\ failed \in BOOLEAN
  BY DEF Inv, TypeOK
<1>1. ASSUME NEW p \in Paths, CreateFileA(p) PROVE Inv'
  BY <1>1, CreateFileKeeps
<1>2. ASSUME NEW p \in Directories, CreateDirectoryA(p) PROVE Inv'
  <2>1. /\ disk' \in [Paths -> {"missing", "file", "directory"}]
        /\ \A q \in Paths : disk[q] # "missing" => disk'[q] = disk[q]
        /\ \A q \in Paths : disk'[q] = "file" => disk[q] = "file"
    BY <1>2, <1>t DEF CreateDirectoryA, Paths
  <2>2. lastError' \in Error /\ failed' \in BOOLEAN
    BY <1>2 DEF CreateDirectoryA, Succeeds, Fails, Error
  <2> QED
    BY <1>2, <2>1, <2>2, RestKeeps DEF CreateDirectoryA, tableVars, streamVars
<1>3. CASE DeleteFileA
  BY <1>3, <1>t, RestKeeps DEF DeleteFileA, Fails, Succeeds, Error, tableVars, streamVars
<1>4. CASE CreateObject \/ GetStockObject
  <2>1. lastError' \in Error /\ failed' \in BOOLEAN
    BY <1>4, <1>t DEF CreateObject, GetStockObject, Succeeds, Error, errorVars
  <2> QED
    BY <1>4, <2>1, CreateObjectKeeps DEF CreateObject, GetStockObject, Type, Names
<1>5. CASE CallUser32
  BY <1>5, <1>t, RestKeeps DEF CallUser32, Succeeds, Error, tableVars, streamVars
<1>6. ASSUME NEW dll \in Libraries, LoadLibraryA(dll) PROVE Inv'
  <2>1. CASE LoadUnknown(dll) /\ UNCHANGED tableVars
    BY <1>6, <1>t, <2>1, RestKeeps DEF LoadLibraryA, Succeeds, Error, tableVars, streamVars
  <2>2. CASE CreateHandleType("Module", dll, NoStream)
    BY <1>6, <2>2, CreateObjectKeeps DEF LoadLibraryA, Type, Names, Succeeds, Error
  <2> QED
    BY <1>6, <2>1, <2>2 DEF LoadLibraryA
<1>7. ASSUME NEW a \in Callable, CallLink(a) PROVE Inv'
  BY <1>7, <1>t, RestKeeps DEF CallLink, tableVars, streamVars, errorVars
<1>8. ASSUME NEW h \in DOMAIN held, NEW f \in Functions, GetProcAddress(h, f) PROVE Inv'
  BY <1>8, <1>t, RestKeeps DEF GetProcAddress, Succeeds, Error, tableVars, streamVars
<1>9. ASSUME NEW h \in DOMAIN held, NEW d \in 0..(Modulus - 1), NEW method \in 0..2,
             SetFilePointer(h, d, method)
      PROVE  Inv'
  BY <1>9, SetFilePointerKeeps
<1>10. ASSUME NEW h \in DOMAIN held, NEW n \in 0..(Modulus \div 2), ReadFile(h, n) PROVE Inv'
  BY <1>10, ReadFileKeeps
<1>11. ASSUME NEW h \in DOMAIN held, CloseHandle(h) PROVE Inv'
  BY <1>11, CloseHandleKeeps
<1>12. ASSUME NEW h \in Numbers, CloseUnknown(h) PROVE Inv'
  BY <1>12, <1>t, RestKeeps DEF CloseUnknown, Error, tableVars, streamVars
<1>13. CASE UNCHANGED vars
  BY <1>13, <1>t, RestKeeps DEF vars, tableVars, streamVars, errorVars
<1> QED
  BY <1>1, <1>2, <1>3, <1>4, <1>5, <1>6, <1>7, <1>8, <1>9, <1>10, <1>11, <1>12, <1>13 DEF Next

LEMMA InvHolds == Spec => []Inv
  BY InitInv, NextKeeps, PTL DEF Spec

\* The handle table and the streams keep their types: a handle of type File
\* always leads to an open stream, which is what every cast of a payload in
\* FEKernel32DLL.m relies on.
THEOREM KernelTypeCorrect == Spec => []TypeOK
  BY InvHolds, PTL DEF Inv

\* A handle goes on naming what it was made for until it is closed, for any
\* number of handles and whatever the order of opening and closing.
THEOREM HandlesKeepTheirObjects == Spec => []HandlesNameTheirOwn
  BY InvHolds, PTL DEF Inv

\* CreateFileA and CloseHandle lose no stream but those of directories.
THEOREM StreamsAreClosed == Spec => []OnlyDirectoriesLeak
  BY InvHolds, PTL DEF Inv

--------------------------------------------------------------------------------
(* The last error *)

\* Every function of kernel32 and user32 clears the last error or sets it where it
\* fails; gdi32 and the other libraries leave it with the answer it tells of.
THEOREM LastErrorIsCurrent == Spec => []ErrorIsCurrent
<1>1. Init => ErrorIsCurrent
  BY DEF Init, ErrorIsCurrent
<1>2. ErrorIsCurrent /\ [Next]_vars => ErrorIsCurrent'
  <2> SUFFICES ASSUME ErrorIsCurrent, [Next]_vars PROVE ErrorIsCurrent'
    OBVIOUS
  <2>1. CASE lastError' = 0 \/ failed'
    BY <2>1 DEF ErrorIsCurrent
  <2>2. CASE UNCHANGED errorVars
    BY <2>2 DEF ErrorIsCurrent, errorVars
  <2>3. CASE UNCHANGED vars
    BY <2>2, <2>3 DEF vars
  <2>4. CASE Next
    <3>1. ASSUME NEW p \in Paths, CreateFileA(p) PROVE lastError' = 0 \/ failed'
      BY <3>1 DEF CreateFileA, Succeeds, Fails
    <3>2. ASSUME NEW p \in Directories, CreateDirectoryA(p) PROVE lastError' = 0 \/ failed'
      BY <3>2 DEF CreateDirectoryA, Succeeds, Fails
    <3>3. DeleteFileA \/ CreateObject \/ CallUser32 => lastError' = 0 \/ failed'
      BY DEF DeleteFileA, CreateObject, CallUser32, Succeeds, Fails
    <3>4. ASSUME NEW dll \in Libraries, LoadLibraryA(dll) PROVE lastError' = 0 \/ failed'
      BY <3>4 DEF LoadLibraryA, Succeeds
    <3>5. ASSUME GetStockObject \/ \E a \in Callable : CallLink(a) PROVE UNCHANGED errorVars
      BY <3>5 DEF GetStockObject, CallLink
    <3>6. ASSUME NEW h \in DOMAIN held,
                 \/ \E f \in Functions : GetProcAddress(h, f)
                 \/ \E d \in 0..(Modulus - 1), method \in 0..2 : SetFilePointer(h, d, method)
                 \/ \E n \in 0..(Modulus \div 2) : ReadFile(h, n)
                 \/ CloseHandle(h)
          PROVE  lastError' = 0
      BY <3>6 DEF GetProcAddress, SetFilePointer, ReadFile, CloseHandle, Succeeds
    <3>7. ASSUME NEW h \in Numbers, CloseUnknown(h) PROVE lastError' = 0
      BY <3>7 DEF CloseUnknown
    <3> QED
      BY <2>1, <2>2, <2>4, <3>1, <3>2, <3>3, <3>4, <3>5, <3>6, <3>7 DEF Next
  <2> QED
    BY <2>3, <2>4
<1> QED
  BY <1>1, <1>2, PTL DEF Spec

--------------------------------------------------------------------------------
(* Where streams stand *)

SamePosition(h) ==
  /\ h \in DOMAIN held /\ IsFile(h)
  /\ Position(h)' = Position(h) /\ (held[h].position)' = held[h].position
NewPosition(h) == h \notin DOMAIN held /\ Position(h)' = 0 /\ (held[h].position)' = 0
SetsPosition(h) == \E d \in 0..(Modulus - 1), method \in 0..2 : SetFilePointer(h, d, method)
ReadsOn(h) == \E n \in 0..(Modulus \div 2) : ReadFile(h, n)

LEMMA SamePositionIs ==
  ASSUME Inv, NEW h \in DOMAIN held, IsFile(h),
         handles'[h] = handles[h], held'[h] = held[h],
         streams'[handles[h].stream] = streams[handles[h].stream]
  PROVE  SamePosition(h)
  BY DEF SamePosition, Position

\* A new handle, of a file or of anything else, moves no stream.
LEMMA HandlePosition ==
  ASSUME Inv, NEW type \in Type, NEW name, NEW stream,
         CreateHandleType(type, name, stream),
         type = "File" => streams'[stream].position = 0,
         \A s \in DOMAIN streams : streams'[s] = streams[s],
         NEW h \in DOMAIN held', IsFile(h)'
  PROVE  SamePosition(h) \/ NewPosition(h)
<1>1. PICK g \in Numbers :
        /\ g \notin DOMAIN handles
        /\ handles' = With(handles, g, [type |-> type, name |-> name, stream |-> stream])
        /\ held' = With(held, g, [type |-> type, name |-> name, position |-> 0])
  BY DEF CreateHandleType, Takes, Inv, HandlesNameTheirOwn
<1>2. /\ DOMAIN held' = DOMAIN held \cup {g} /\ DOMAIN held = DOMAIN handles
      /\ \A k \in DOMAIN handles : handles'[k] = handles[k]
      /\ \A k \in DOMAIN held : held'[k] = held[k]
      /\ handles'[g].type = type /\ handles'[g].stream = stream /\ held'[g].position = 0
  BY <1>1 DEF With, Inv, HandlesNameTheirOwn
<1>3. CASE h = g
  BY <1>1, <1>2, <1>3 DEF NewPosition, Position, IsFile
<1>4. CASE h \in DOMAIN held
  <2>1. IsFile(h) /\ handles[h].stream \in DOMAIN streams
    BY <1>2, <1>4 DEF IsFile, Inv, TypeOK
  <2> QED
    BY <1>2, <1>4, <2>1, SamePositionIs
<1> QED
  BY <1>2, <1>3, <1>4

LEMMA CreateFilePosition ==
  ASSUME Inv, NEW path \in Paths, CreateFileA(path), NEW h \in DOMAIN held', IsFile(h)'
  PROVE  SamePosition(h) \/ NewPosition(h)
<1> DEFINE n == opened + 1
<1>1. n \notin DOMAIN streams
  BY DEF Inv, TypeOK
<1>2. /\ \A s \in DOMAIN streams : streams'[s] = streams[s]
      /\ disk[path] # "missing" => opened' = n /\ streams'[n].position = 0
  BY <1>1 DEF CreateFileA, Opens, With, streamVars
<1>3. CASE disk[path] = "file"
  <2>1. CreateHandleType("File", path, n)
    BY <1>2, <1>3 DEF CreateFileA
  <2> QED
    BY <1>2, <1>3, <2>1, HandlePosition DEF Type
<1>4. CASE disk[path] # "file"
  <2>1. UNCHANGED <<handles, held>>
    BY <1>4 DEF CreateFileA, tableVars
  <2>2. h \in DOMAIN held /\ IsFile(h) /\ handles[h].stream \in DOMAIN streams
    BY <2>1 DEF IsFile, Inv, TypeOK, HandlesNameTheirOwn
  <2> QED
    BY <1>2, <2>1, <2>2, SamePositionIs
<1> QED
  BY <1>3, <1>4

\* A move of one handle's stream is no move of another's.
LEMMA OtherPosition ==
  ASSUME Inv, NEW g \in DOMAIN held, held[g].type = "File", NEW to, NEW wanted,
         streams' = Moved(streams, handles[g].stream, to), held' = Moved(held, g, wanted),
         UNCHANGED handles, NEW h \in DOMAIN held', IsFile(h)', h # g
  PROVE  SamePosition(h)
<1>1. h \in DOMAIN held /\ held'[h] = held[h] /\ IsFile(h)
  BY DEF Moved, IsFile
<1>2. handles[h].stream # handles[g].stream /\ handles[h].stream \in DOMAIN streams
  BY <1>1 DEF Inv, TypeOK, HandlesNameTheirOwn, IsFile
<1>3. streams'[handles[h].stream] = streams[handles[h].stream]
  BY <1>2 DEF Moved
<1> QED
  BY <1>1, <1>3, SamePositionIs

LEMMA ClosePosition ==
  ASSUME Inv, NEW g \in DOMAIN held, CloseHandle(g), NEW h \in DOMAIN held', IsFile(h)'
  PROVE  SamePosition(h)
<1>1. /\ DOMAIN held' = DOMAIN held \ {g} /\ held'[h] = held[h] /\ DOMAIN held = DOMAIN handles
  BY DEF CloseHandle, FreeHandle, Without, Inv, HandlesNameTheirOwn
<1>2. h # g /\ h \in DOMAIN handles /\ handles'[h] = handles[h]
  BY <1>1 DEF CloseHandle, FreeHandle, Without
<1>3. IsFile(h) /\ handles[h].stream \in DOMAIN streams
  BY <1>2 DEF IsFile, Inv, TypeOK
<1>4. handles[h].stream # handles[g].stream
  BY <1>1, <1>2, <1>3 DEF Inv, HandlesNameTheirOwn, IsFile
<1>5. streams'[handles[h].stream] = streams[handles[h].stream]
  BY <1>3, <1>4 DEF CloseHandle, Closes, Without, streamVars
<1> QED
  BY <1>1, <1>2, <1>3, <1>5, SamePositionIs

\* How a step may move the stream of a handle.
LEMMA PositionStep ==
  ASSUME Inv, [Next]_vars, NEW h \in DOMAIN held', IsFile(h)'
  PROVE  SamePosition(h) \/ NewPosition(h) \/ SetsPosition(h) \/ ReadsOn(h)
<1>1. ASSUME UNCHANGED <<handles, held, streams>> PROVE SamePosition(h)
  <2>1. h \in DOMAIN held /\ IsFile(h)
    BY <1>1 DEF IsFile
  <2> QED
    BY <1>1, <2>1, SamePositionIs
<1>2. ASSUME NEW type \in Type \ {"File"}, NEW name, CreateHandleType(type, name, NoStream),
             UNCHANGED streams
      PROVE  SamePosition(h) \/ NewPosition(h)
  BY <1>2, HandlePosition
<1>3. ASSUME NEW p \in Paths, CreateFileA(p) PROVE SamePosition(h) \/ NewPosition(h)
  BY <1>3, CreateFilePosition
<1>4. CASE CreateObject \/ GetStockObject
  BY <1>2, <1>4 DEF CreateObject, GetStockObject, Type, streamVars
<1>5. ASSUME NEW dll \in Libraries, LoadLibraryA(dll) PROVE SamePosition(h) \/ NewPosition(h)
  BY <1>1, <1>2, <1>5 DEF LoadLibraryA, Type, streamVars, tableVars
<1>6. ASSUME \/ \E p \in Directories : CreateDirectoryA(p)
             \/ DeleteFileA
             \/ CallUser32
             \/ \E a \in Callable : CallLink(a)
             \/ \E g \in DOMAIN held, f \in Functions : GetProcAddress(g, f)
             \/ \E g \in Numbers : CloseUnknown(g)
             \/ UNCHANGED vars
      PROVE  SamePosition(h)
  <2>1. UNCHANGED <<handles, held, streams>>
    BY <1>6 DEF CreateDirectoryA, DeleteFileA, CallUser32, CallLink, GetProcAddress,
                CloseUnknown, vars, tableVars, streamVars
  <2> QED
    BY <1>1, <2>1
<1>7. ASSUME NEW g \in DOMAIN held, NEW d \in 0..(Modulus - 1), NEW method \in 0..2,
             SetFilePointer(g, d, method)
      PROVE  SamePosition(h) \/ SetsPosition(h)
  <2>1. CASE g = h
    BY <1>7, <2>1 DEF SetsPosition
  <2>2. CASE g # h
    <3>1. PICK to, wanted :
            /\ streams' = Moved(streams, handles[g].stream, to) /\ held' = Moved(held, g, wanted)
      BY <1>7 DEF SetFilePointer, Moved
    <3>2. held[g].type = "File" /\ UNCHANGED handles
      BY <1>7 DEF SetFilePointer
    <3> QED
      BY <2>2, <3>1, <3>2, OtherPosition
  <2> QED
    BY <2>1, <2>2
<1>8. ASSUME NEW g \in DOMAIN held, NEW n \in 0..(Modulus \div 2), ReadFile(g, n)
      PROVE  SamePosition(h) \/ ReadsOn(h)
  <2>1. CASE g = h
    BY <1>8, <2>1 DEF ReadsOn
  <2>2. CASE g # h
    <3>1. PICK to, wanted :
            /\ streams' = Moved(streams, handles[g].stream, to) /\ held' = Moved(held, g, wanted)
      BY <1>8 DEF ReadFile, Moved
    <3>2. held[g].type = "File" /\ UNCHANGED handles
      BY <1>8 DEF ReadFile
    <3> QED
      BY <2>2, <3>1, <3>2, OtherPosition
  <2> QED
    BY <2>1, <2>2
<1>9. ASSUME NEW g \in DOMAIN held, CloseHandle(g) PROVE SamePosition(h)
  BY <1>9, ClosePosition
<1> QED
  BY <1>3, <1>4, <1>2, <1>5, <1>6, <1>7, <1>8, <1>9 DEF Next

LEMMA ModUnique ==
  ASSUME NEW m \in Nat \ {0}, NEW k \in Int, NEW y \in Nat, y < m
  PROVE  (k * m + y) % m = y
  BY Z3

LEMMA Widened ==
  ASSUME NEW m \in Nat \ {0}, NEW x \in Nat
  PROVE  /\ (x \div m) \in Int /\ (x % m) \in Nat /\ (x % m) < m
         /\ x = (x \div m) * m + (x % m)
         /\ ((x \div m) + 1) * m = (x \div m) * m + m
  BY Z3

\* A distance that is read as a uint32_t and not as a LONG ends up at the same
\* position modulo 2^32.
LEMMA MoveAgrees ==
  ASSUME NEW x \in Nat, NEW d \in 0..(Modulus - 1), NEW wanted \in 0..(Modulus - 1),
         wanted = (x % Modulus) + Signed(d)
  PROVE  (x + d) % Modulus = wanted
<1>1. Modulus \in Nat \ {0} /\ Modulus \div 2 \in Int
  BY ModulusAssumption
<1> DEFINE k == x \div Modulus
           y == x % Modulus
<1>2. /\ k \in Int /\ y \in Nat /\ x = k * Modulus + y /\ (k + 1) * Modulus = k * Modulus + Modulus
      /\ k * Modulus \in Int
  BY <1>1, Widened
<1> HIDE DEF k, y
<1>3. wanted \in Nat /\ wanted < Modulus /\ d \in Nat
  BY <1>1
<1>4. CASE d < Modulus \div 2
  <2>1. wanted = y + d
    BY <1>4 DEF Signed, y
  <2>2. x + d = k * Modulus + wanted
    BY <1>2, <1>3, <2>1
  <2> QED
    BY <1>1, <1>2, <1>3, <2>2, ModUnique, Zenon
<1>5. CASE ~ d < Modulus \div 2
  <2>1. wanted = y + (d - Modulus)
    BY <1>5 DEF Signed, y
  <2>2. x + d = (k + 1) * Modulus + wanted
    BY <1>1, <1>2, <1>3, <2>1
  <2>3. k + 1 \in Int
    BY <1>2
  <2> QED
    BY <1>1, <1>2, <1>3, <2>2, <2>3, ModUnique, Zenon
<1> QED
  BY <1>4, <1>5

LEMMA SmallMod ==
  ASSUME NEW x \in Nat, x < Modulus
  PROVE  x % Modulus = x
<1>1. Modulus \in Nat \ {0} /\ x = 0 * Modulus + x
  BY ModulusAssumption
<1>2. (0 * Modulus + x) % Modulus = x
  BY <1>1, ModUnique
<1> QED
  BY <1>1, <1>2

\* What SetFilePointer and ReadFile do to a handle of a file.
LEMMA SetsFacts ==
  ASSUME Inv, NEW h, NEW d \in 0..(Modulus - 1), NEW method \in 0..2,
         h \in DOMAIN held, SetFilePointer(h, d, method)
  PROVE  /\ Position(h) \in Nat /\ Size[held[h].name] \in Nat /\ IsFile(h)
         /\ Size[held[h].name] < Modulus /\ held[h].position \in Nat
         /\ Position(h)' = Origin(method, Position(h), Size[held[h].name]) + d
         /\ (held[h].position)' = Wanted(h, d, method)
         /\ Wanted(h, d, method) \in 0..(Modulus - 1)
<1> DEFINE s == handles[h].stream
           to == Origin(method, streams[s].position, Size[streams[s].path]) + d
           wanted == Wanted(h, d, method)
<1>1. /\ held[h].type = "File" /\ handles' = handles
      /\ streams' = Moved(streams, s, to) /\ held' = Moved(held, h, wanted)
      /\ wanted \in 0..(Modulus - 1)
  BY DEF SetFilePointer, Moved
<1>2. /\ s \in DOMAIN streams /\ streams[s] \in Stream /\ streams[s].path = held[h].name
      /\ disk[held[h].name] = "file" /\ held[h].position \in Nat /\ IsFile(h)
      /\ held[h] \in [type : Type, name : Names, position : Nat]
  BY <1>1 DEF Inv, TypeOK, HandlesNameTheirOwn, IsFile
<1>3. held[h].name \in DOMAIN Size
  BY <1>2 DEF Inv, TypeOK, Stream
<1>4. Size[held[h].name] \in Nat /\ Size[held[h].name] < Modulus
  BY <1>3, SizeAssumption, ModulusAssumption
<1>5. Position(h) \in Nat
  BY <1>2 DEF Position, Stream
<1>6. Position(h)' = Origin(method, Position(h), Size[held[h].name]) + d
  <2>1. (streams'[s]).position = to
    BY <1>1, <1>2 DEF Moved, Stream
  <2> QED
    BY <1>1, <1>2, <2>1 DEF Position
<1>7. (held[h].position)' = wanted
  <2> HIDE DEF wanted
  <2> QED
    BY <1>1, <1>2 DEF Moved
<1> QED
  BY <1>1, <1>2, <1>4, <1>5, <1>6, <1>7

LEMMA ReadsFacts ==
  ASSUME Inv, NEW h, NEW n \in 0..(Modulus \div 2), h \in DOMAIN held, ReadFile(h, n)
  PROVE  /\ Position(h) \in Nat /\ held[h].position \in Nat /\ IsFile(h)
         /\ \E r \in Nat : /\ Position(h)' = Position(h) + r
                           /\ (held[h].position)' = held[h].position + r
                           /\ r # 0 => Position(h) + r < Modulus
<1> DEFINE s == handles[h].stream
           left == Size[streams[s].path] - streams[s].position
           r == IF left <= 0 THEN 0 ELSE IF n < left THEN n ELSE left
<1>1. /\ held[h].type = "File" /\ handles' = handles
      /\ streams' = [streams EXCEPT ![s].position = @ + r]
      /\ held' = [held EXCEPT ![h].position = @ + r]
  BY DEF ReadFile
<1>2. /\ s \in DOMAIN streams /\ streams[s] \in Stream /\ streams[s].path = held[h].name
      /\ disk[held[h].name] = "file" /\ held[h].position \in Nat /\ IsFile(h)
      /\ held[h] \in [type : Type, name : Names, position : Nat]
  BY <1>1 DEF Inv, TypeOK, HandlesNameTheirOwn, IsFile
<1>3. streams[s].path \in DOMAIN Size
  BY <1>2 DEF Inv, TypeOK, Stream
<1>4. /\ Size[streams[s].path] \in Nat /\ Size[streams[s].path] < Modulus
      /\ streams[s].position \in Nat /\ Modulus \in Nat /\ n \in Nat
  BY <1>2, <1>3, SizeAssumption, ModulusAssumption DEF Stream
<1>5. r \in Nat /\ (r # 0 => streams[s].position + r < Modulus)
  BY <1>4
<1> HIDE DEF r
<1>6. (streams'[s]).position = streams[s].position + r
  BY <1>1, <1>2 DEF Stream
<1>7. (held'[h]).position = held[h].position + r
  BY <1>1, <1>2
<1> QED
  BY <1>1, <1>2, <1>4, <1>5, <1>6, <1>7 DEF Position

LEMMA ReportsStep == Inv /\ ReportsExpected /\ [Next]_vars => ReportsExpected'
<1> SUFFICES ASSUME Inv, ReportsExpected, [Next]_vars, NEW h \in DOMAIN held', IsFile(h)'
             PROVE  Position(h)' % Modulus = (held[h].position)'
  BY DEF ReportsExpected
<1>1. CASE SamePosition(h)
  BY <1>1 DEF SamePosition, ReportsExpected
<1>2. CASE NewPosition(h)
  BY <1>2, SmallMod, ModulusAssumption DEF NewPosition
<1>3. ASSUME NEW d \in 0..(Modulus - 1), NEW method \in 0..2, SetFilePointer(h, d, method)
      PROVE  Position(h)' % Modulus = (held[h].position)'
  <2> DEFINE wanted == Wanted(h, d, method)
             size == Size[held[h].name]
  <2>1. h \in DOMAIN held
    BY <1>3 DEF SetFilePointer
  <2>2. /\ Position(h) \in Nat /\ size \in Nat /\ size < Modulus /\ IsFile(h)
        /\ Position(h)' = Origin(method, Position(h), size) + d
        /\ (held[h].position)' = wanted /\ wanted \in 0..(Modulus - 1)
    BY <1>3, <2>1, SetsFacts
  <2>3. Position(h) % Modulus = held[h].position
    BY <2>1, <2>2 DEF ReportsExpected
  <2>4. PICK x \in Nat : x = Origin(method, Position(h), size) /\ wanted = (x % Modulus) + Signed(d)
    <3>1. CASE method = 0
      BY <3>1, SmallMod, ModulusAssumption DEF Origin, Wanted
    <3>2. CASE method = 1
      BY <2>2, <2>3, <3>2 DEF Origin, Wanted
    <3>3. CASE method = 2
      BY <2>2, <3>3, SmallMod DEF Origin, Wanted
    <3> QED
      BY <3>1, <3>2, <3>3
  <2> HIDE DEF wanted
  <2> QED
    BY <2>2, <2>4, MoveAgrees
<1>4. ASSUME NEW n \in 0..(Modulus \div 2), ReadFile(h, n)
      PROVE  Position(h)' % Modulus = (held[h].position)'
  <2>1. h \in DOMAIN held
    BY <1>4 DEF ReadFile
  <2>2. Position(h) \in Nat /\ held[h].position \in Nat /\ IsFile(h)
    BY <1>4, <2>1, ReadsFacts
  <2>3. PICK r \in Nat : /\ Position(h)' = Position(h) + r
                         /\ (held[h].position)' = held[h].position + r
                         /\ r # 0 => Position(h) + r < Modulus
    BY <1>4, <2>1, ReadsFacts
  <2>4. Position(h) % Modulus = held[h].position
    BY <2>1, <2>2 DEF ReportsExpected
  <2>5. CASE r = 0
    BY <2>2, <2>3, <2>4, <2>5
  <2>6. CASE r # 0
    <3>1. Position(h) < Modulus /\ Position(h) + r < Modulus
      BY <2>2, <2>3, <2>6, ModulusAssumption
    <3> QED
      BY <2>2, <2>3, <2>4, <3>1, SmallMod
  <2> QED
    BY <2>5, <2>6
<1> QED
  BY <1>1, <1>2, <1>3, <1>4, PositionStep DEF SetsPosition, ReadsOn

\* For every 32-bit width and any mixture of moves and reads, the low word of
\* ftell that SetFilePointer returns is what the guest works out by itself.
THEOREM PositionsReported == Spec => []ReportsExpected
<1>1. Init => ReportsExpected
  BY DEF Init, ReportsExpected
<1> QED
  BY <1>1, InvHolds, ReportsStep, PTL DEF Spec

LEMMA DriftStep ==
  ASSUME Inv, [Next]_vars, NEW h \in DOMAIN held, h \in DOMAIN held',
         IsFile(h), Stands(h), IsFile(h)', ~ Stands(h)'
  PROVE  \E d \in 0..(Modulus - 1), method \in 0..2 :
           Signed(d) < 0 /\ SetFilePointer(h, d, method)
<1>1. ~ SamePosition(h) /\ ~ NewPosition(h)
  BY DEF SamePosition, NewPosition, Stands
<1>2. ASSUME NEW n \in 0..(Modulus \div 2), ReadFile(h, n) PROVE FALSE
  BY <1>2, ReadsFacts DEF Stands
<1>3. PICK d \in 0..(Modulus - 1), method \in 0..2 : SetFilePointer(h, d, method)
  BY <1>1, <1>2, PositionStep DEF SetsPosition, ReadsOn
<1>4. CASE d < Modulus \div 2
  <2>1. Signed(d) = d
    BY <1>4 DEF Signed
  <2>2. /\ Position(h)' = Origin(method, Position(h), Size[held[h].name]) + d
        /\ (held[h].position)' = Wanted(h, d, method)
    BY <1>3, SetsFacts
  <2>3. Wanted(h, d, method) = Origin(method, Position(h), Size[held[h].name]) + d
    BY <2>1 DEF Wanted, Origin, Stands
  <2> QED
    BY <2>2, <2>3 DEF Stands
<1>5. CASE ~ d < Modulus \div 2
  <2>1. Signed(d) < 0
    BY <1>5, ModulusAssumption DEF Signed
  <2> QED
    BY <1>3, <2>1
<1> QED
  BY <1>4, <1>5

\* A stream leaves the place the guest expects it at by nothing but a move of
\* its own backwards: opening, closing and reading other files never moves it.
THEOREM OnlyBackwardMoves == Spec => OnlyBackwardMovesDrift
<1>1. ASSUME Inv, [Next]_vars
      PROVE  [\A h \in DOMAIN held \cap (DOMAIN held)' :
                IsFile(h) /\ Stands(h) /\ IsFile(h)' /\ ~ Stands(h)'
                  => \E d \in 0..(Modulus - 1), method \in 0..2 :
                       Signed(d) < 0 /\ SetFilePointer(h, d, method)]_vars
  BY <1>1, DriftStep
<1> QED
  BY <1>1, InvHolds, PTL DEF Spec, OnlyBackwardMovesDrift

--------------------------------------------------------------------------------
(* Links *)

LinkBlock == [tag : {Static} \cup DOMAIN Proxies, lo : Nat, hi : Nat]

\* The address where the next block of links starts.
Above == BlockSpan * (Len(blocks) + 1)

\* A link lies in a block of its own library, or in that of the executable.
LinkedBy(a, i) == ContainsVirtualAddress(blocks[i], a) /\ (i = 1 \/ blocks[i].tag = links[a][1])

FirstOfItsTag(i) == \A j \in 1..Len(blocks) : blocks[j].tag = blocks[i].tag => i <= j

LinkInv ==
  /\ blocks \in Seq(LinkBlock) /\ Len(blocks) >= 1
  /\ \A a \in DOMAIN links : a \in Nat /\ a < Above /\ \E i \in 1..Len(blocks) : LinkedBy(a, i)
  /\ \A i \in 1..Len(blocks) : FirstOfItsTag(i) => blocks[i] \in imported
  /\ \A p \in procs : p.addr \in DOMAIN links
  /\ ProcsReach

\* A DLL that was loaded once has one block, which blockWithTag finds first.
LEMMA LoadedOnce ==
  ASSUME blocks \in Seq(LinkBlock), NEW dll, Loads(dll) <= 1,
         NEW i \in 1..Len(blocks), NEW j \in 1..Len(blocks),
         blocks[i].tag = dll, blocks[j].tag = dll
  PROVE  i = j
<1> DEFINE S == {k \in DOMAIN blocks : blocks[k].tag = dll}
           D == {i} \cup {j}
<1>1. DOMAIN blocks = 1..Len(blocks) /\ Len(blocks) \in Nat
  OBVIOUS
<1>2. IsFiniteSet(1..Len(blocks))
  BY <1>1, FS_Interval
<1>3. IsFiniteSet(S)
  BY <1>1, <1>2, FS_Subset
<1>4. Cardinality(S) <= 1 /\ D \in SUBSET S
  BY <1>1 DEF Loads
<1> HIDE DEF S
<1>5. Cardinality(D) <= 1 /\ IsFiniteSet(D)
  <2>1. Cardinality(D) <= Cardinality(S) /\ IsFiniteSet(D)
    BY <1>3, <1>4, FS_Subset
  <2>2. Cardinality(D) \in Nat /\ Cardinality(S) \in Nat
    BY <1>3, <2>1, FS_CardinalityType
  <2> QED
    BY <1>4, <2>1, <2>2
<1>6. SUFFICES ASSUME i # j PROVE FALSE
  OBVIOUS
<1>7. IsFiniteSet({i}) /\ Cardinality({i}) = 1 /\ j \notin {i}
  BY <1>6, FS_Singleton
<1>8. Cardinality(D) = Cardinality({i}) + 1
  BY <1>7, FS_AddElement
<1> HIDE DEF D
<1> QED
  BY <1>5, <1>7, <1>8

LEMMA SpanTypes ==
  /\ BlockSpan \in Nat \ {0}
  /\ Cardinality(Imports) \in Nat /\ Cardinality(Imports) < BlockSpan
<1>1. IsFiniteSet(Imports) /\ Cardinality(Imports) < BlockSpan /\ BlockSpan \in Nat \ {0}
  BY ImportsAssumption
<1> QED
  BY <1>1, FS_CardinalityType

LEMMA TargetsFit ==
  ASSUME NEW dll \in DOMAIN Proxies
  PROVE  LET n == Cardinality({<<dll, f>> : f \in Proxies[dll]}) IN n \in Nat /\ n < BlockSpan
<1> DEFINE T == {<<dll, f>> : f \in Proxies[dll]}
           pair == [f \in Proxies[dll] |-> <<dll, f>>]
<1>1. IsFiniteSet(Proxies[dll]) /\ Cardinality(Proxies[dll]) < BlockSpan
  BY ImportsAssumption
<1>2. pair \in Surjection(Proxies[dll], T)
  BY DEF Surjection
<1> HIDE DEF T, pair
<1>3. IsFiniteSet(T) /\ Cardinality(T) <= Cardinality(Proxies[dll])
  BY <1>1, <1>2, FS_Surjection
<1>4. Cardinality(T) \in Nat /\ Cardinality(Proxies[dll]) \in Nat
  BY <1>1, <1>3, FS_CardinalityType
<1> QED
  BY <1>1, <1>3, <1>4, SpanTypes DEF T

LEMMA LinkInit == Init => LinkInv
<1> SUFFICES ASSUME Init PROVE LinkInv
  OBVIOUS
<1> DEFINE n == Cardinality(Imports)
           static == [tag |-> Static, lo |-> BlockSpan, hi |-> BlockSpan + n]
<1>1. /\ blocks = <<static>> /\ imported = {static} /\ procs = {}
      /\ DOMAIN links = BlockSpan..(BlockSpan + n - 1)
  BY DEF Init, ImportsInit, LinksOf
<1>2. n \in Nat /\ n < BlockSpan /\ BlockSpan \in Nat
  BY SpanTypes
<1> HIDE DEF n
<1>3. static \in LinkBlock /\ static.lo = BlockSpan /\ static.hi = BlockSpan + n
  BY <1>2 DEF LinkBlock
<1>4. blocks \in Seq(LinkBlock) /\ Len(blocks) = 1 /\ blocks[1] = static
  BY <1>1, <1>3
<1>5. Above = BlockSpan + BlockSpan
  BY <1>2, <1>4 DEF Above
<1>6. ASSUME NEW a \in DOMAIN links
      PROVE  a \in Nat /\ a < Above /\ \E i \in 1..Len(blocks) : LinkedBy(a, i)
  BY <1>1, <1>2, <1>3, <1>4, <1>5, <1>6 DEF LinkedBy, ContainsVirtualAddress
<1> QED
  BY <1>1, <1>4, <1>6 DEF LinkInv, ProcsReach

LEMMA LoadKeepsLinks ==
  ASSUME LinkInv, NEW dll, LoadLibraryNamed(dll)
  PROVE  LinkInv'
<1> DEFINE targets == {<<dll, f>> : f \in Proxies[dll]}
           n == Cardinality(targets)
           b == NewBlock(dll, n)
<1> PICK l : l = Len(blocks)
  OBVIOUS
<1>1. /\ dll \in DOMAIN Proxies /\ blocks' = Append(blocks, b)
      /\ imported \subseteq imported' /\ BlockWithTag(blocks', dll) \in imported'
      /\ procs' = procs
  BY DEF LoadLibraryNamed
<1>2. PICK new \in LinksOf(b.lo, targets) :
        links' = [a \in DOMAIN links \cup DOMAIN new |->
                    IF a \in DOMAIN new THEN new[a] ELSE links[a]]
  BY DEF LoadLibraryNamed
<1>3. n \in Nat /\ n < BlockSpan /\ BlockSpan \in Nat /\ l \in Nat /\ l >= 1
  <2>1. n \in Nat /\ n < BlockSpan
    BY <1>1, TargetsFit, Zenon
  <2>2. l \in Nat /\ l >= 1
    BY DEF LinkInv
  <2> QED
    BY <2>1, <2>2, SpanTypes
<1>4. b.tag = dll /\ b.lo = Above /\ b.hi = Above + n
  BY DEF NewBlock, Above
<1>5. Above \in Nat /\ Above' = Above + BlockSpan /\ Len(blocks') = l + 1
  <2>1. Len(blocks') = l + 1
    BY <1>1 DEF LinkInv
  <2>2. BlockSpan * (l + 1) \in Nat /\ BlockSpan * (l + 1 + 1) = BlockSpan * (l + 1) + BlockSpan
    BY <1>3, Z3
  <2> QED
    BY <2>1, <2>2 DEF Above
<1>6. /\ DOMAIN new = Above..(Above + n - 1)
      /\ \A a \in DOMAIN new : new[a][1] = dll
  BY <1>2, <1>4 DEF LinksOf
<1> HIDE DEF n, b, targets
<1>7. b \in LinkBlock
  <2>1. b = [tag |-> dll, lo |-> Above, hi |-> Above + n]
    BY DEF b, NewBlock, Above
  <2> QED
    BY <1>1, <1>3, <1>5, <2>1 DEF LinkBlock
<1>8. /\ blocks' \in Seq(LinkBlock) /\ blocks'[l + 1] = b
      /\ \A i \in 1..l : blocks'[i] = blocks[i]
  BY <1>1, <1>7 DEF LinkInv
<1>9. /\ DOMAIN links' = DOMAIN links \cup DOMAIN new
      /\ \A a \in DOMAIN links : a \notin DOMAIN new /\ links'[a] = links[a]
      /\ \A a \in DOMAIN new : links'[a] = new[a]
  <2>1. \A a \in DOMAIN links : a \notin DOMAIN new
    BY <1>3, <1>5, <1>6 DEF LinkInv
  <2> QED
    BY <1>2, <2>1
<1>10. ASSUME NEW a \in DOMAIN links'
       PROVE  a \in Nat /\ a < Above' /\ (\E i \in 1..Len(blocks') : LinkedBy(a, i)')
  <2>1. CASE a \in DOMAIN links
    <3>1. a \in Nat /\ a < Above
      BY <2>1 DEF LinkInv
    <3>2. PICK i \in 1..l : LinkedBy(a, i)
      BY <2>1 DEF LinkInv
    <3>3. i \in 1..(l + 1) /\ LinkedBy(a, i)'
      BY <1>3, <1>8, <1>9, <2>1, <3>2 DEF LinkedBy, ContainsVirtualAddress
    <3> QED
      BY <1>3, <1>5, <3>1, <3>3
  <2>2. CASE a \in DOMAIN new
    <3>1. a \in Nat /\ a < Above' /\ Above <= a /\ a < Above + n
      BY <1>3, <1>5, <1>6, <2>2
    <3>2. LinkedBy(a, l + 1)'
      BY <1>4, <1>6, <1>8, <1>9, <2>2, <3>1 DEF LinkedBy, ContainsVirtualAddress
    <3> QED
      BY <1>3, <1>5, <3>1, <3>2
  <2> QED
    BY <1>9, <2>1, <2>2
<1>11. ASSUME NEW i \in 1..Len(blocks'), FirstOfItsTag(i)'
       PROVE  blocks'[i] \in imported'
  <2>1. CASE i \in 1..l
    <3>1. FirstOfItsTag(i)
      BY <1>3, <1>5, <1>8, <1>11, <2>1 DEF FirstOfItsTag
    <3> QED
      BY <1>1, <1>8, <2>1, <3>1 DEF LinkInv
  <2>2. CASE i = l + 1
    <3>1. \A j \in DOMAIN blocks' : blocks'[j].tag = dll <=> j = i
      BY <1>3, <1>4, <1>5, <1>8, <1>11, <2>2 DEF FirstOfItsTag
    <3>2. BlockWithTag(blocks', dll) = blocks'[i]
      <4>1. DOMAIN blocks' = 1..(l + 1) /\ i \in DOMAIN blocks'
        BY <1>3, <1>5, <1>8, <2>2
      <4>2. \A k \in DOMAIN blocks' :
              (blocks'[k].tag = dll /\ \A j \in DOMAIN blocks' : blocks'[j].tag = dll => k <= j)
                <=> k = i
        BY <1>3, <3>1, <4>1
      <4> QED
        BY <4>1, <4>2 DEF BlockWithTag
    <3> QED
      BY <1>1, <3>2
  <2> QED
    BY <1>3, <1>5, <2>1, <2>2
<1>12. /\ \A p \in procs' : p.addr \in DOMAIN links'
       /\ ProcsReach'
  BY <1>1, <1>9 DEF LinkInv, ProcsReach, Reaches, IsAddressWithinLoadedImports
<1> QED
  BY <1>3, <1>5, <1>8, <1>10, <1>11, <1>12 DEF LinkInv

LEMMA AddressKeepsLinks ==
  ASSUME LinkInv, NEW dll, NEW f, AddressOfFunction(dll, f)
  PROVE  LinkInv'
<1>1. /\ UNCHANGED <<links, blocks, imported>>
      /\ \E a \in AddressesOf(dll, f) :
           procs' = procs \cup {[addr |-> a, link |-> <<dll, f>>, loads |-> Loads(dll)]}
  BY DEF AddressOfFunction
<1>2. PICK a \in DOMAIN links :
        /\ links[a] = <<dll, f>>
        /\ procs' = procs \cup {[addr |-> a, link |-> <<dll, f>>, loads |-> Loads(dll)]}
  BY <1>1 DEF AddressesOf
<1>3. ASSUME Loads(dll) <= 1 PROVE IsAddressWithinLoadedImports(a)
  <2>1. PICK i \in 1..Len(blocks) : LinkedBy(a, i)
    BY DEF LinkInv
  <2>2. FirstOfItsTag(i)
    <3>1. CASE i = 1
      BY <3>1 DEF FirstOfItsTag
    <3>2. CASE blocks[i].tag = dll
      BY <1>3, <3>2, LoadedOnce DEF FirstOfItsTag, LinkInv
    <3> QED
      BY <1>2, <2>1, <3>1, <3>2 DEF LinkedBy
  <2> QED
    BY <2>1, <2>2 DEF LinkInv, LinkedBy, IsAddressWithinLoadedImports
<1>4. ProcsReach'
  <2> SUFFICES ASSUME NEW p \in procs', p.loads <= 1
               PROVE  IsAddressWithinLoadedImports(p.addr) /\ links[p.addr] = p.link
    BY <1>1 DEF ProcsReach, Reaches, IsAddressWithinLoadedImports
  <2>1. CASE p \in procs
    BY <2>1 DEF LinkInv, ProcsReach, Reaches
  <2>2. CASE p = [addr |-> a, link |-> <<dll, f>>, loads |-> Loads(dll)]
    BY <1>2, <1>3, <2>2
  <2> QED
    BY <1>2, <2>1, <2>2
<1>5. \A p \in procs' : p.addr \in DOMAIN links
  BY <1>2 DEF LinkInv
<1> QED
  BY <1>1, <1>4, <1>5 DEF LinkInv, Above, LinkedBy, FirstOfItsTag

LEMMA LinkStep == LinkInv /\ [Next]_vars => LinkInv'
<1> SUFFICES ASSUME LinkInv, [Next]_vars PROVE LinkInv'
  OBVIOUS
<1>1. ASSUME UNCHANGED importVars PROVE LinkInv'
  BY <1>1 DEF importVars, LinkInv, Above, LinkedBy, FirstOfItsTag, ProcsReach, Reaches,
              IsAddressWithinLoadedImports
<1>2. ASSUME NEW dll \in Libraries, LoadLibraryA(dll) PROVE LinkInv'
  BY <1>1, <1>2, LoadKeepsLinks DEF LoadLibraryA, LoadUnknown, Stops
<1>3. ASSUME NEW h \in DOMAIN held, NEW f \in Functions, GetProcAddress(h, f) PROVE LinkInv'
  BY <1>1, <1>3, AddressKeepsLinks DEF GetProcAddress, AddressOfUnknown, Stops
<1>4. ASSUME NEW a \in Callable, CallLink(a) PROVE LinkInv'
  <2>1. UNCHANGED importVars
    BY <1>4 DEF CallLink, ExecuteFunctionAtAddress, Stops
  <2> QED
    BY <1>1, <2>1
<1>5. ASSUME \/ \E p \in Paths : CreateFileA(p)
             \/ \E p \in Directories : CreateDirectoryA(p)
             \/ DeleteFileA \/ CreateObject \/ GetStockObject \/ CallUser32
             \/ \E h \in DOMAIN held, d \in 0..(Modulus - 1), method \in 0..2 :
                  SetFilePointer(h, d, method)
             \/ \E h \in DOMAIN held, n \in 0..(Modulus \div 2) : ReadFile(h, n)
             \/ \E h \in DOMAIN held : CloseHandle(h)
             \/ \E h \in Numbers : CloseUnknown(h)
             \/ UNCHANGED vars
      PROVE  UNCHANGED importVars
  BY <1>5 DEF CreateFileA, CreateDirectoryA, DeleteFileA, CreateObject, GetStockObject, CallUser32,
              SetFilePointer, ReadFile, CloseHandle, CloseUnknown, vars
<1> QED
  BY <1>1, <1>2, <1>3, <1>4, <1>5 DEF Next

\* For any set of DLLs and functions: an address that GetProcAddress gave out
\* goes on running the function it was asked for, whatever is loaded later,
\* unless its DLL had been loaded twice before the guest asked.
THEOREM ProcAddressesReach == Spec => []ProcsReach
<1>1. LinkInv => ProcsReach
  BY DEF LinkInv
<1> QED
  BY <1>1, LinkInit, LinkStep, PTL DEF Spec
================================================================================
