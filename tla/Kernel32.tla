------------------------------- MODULE Kernel32 --------------------------------
(***************************************************************************)
(* The kernel objects of FEKernel32DLL.m: the table of handles that files, *)
(* mutexes, modules and the objects of other proxies share, the C streams  *)
(* behind file handles, the last error, and the libraries of ImportsProxy. *)
(*                                                                         *)
(* The host is a 64-bit one: a FILE position is a number of its own, and   *)
(* only what the guest passes and gets back is taken modulo 2^32, Modulus  *)
(* here.  `held` is the guest's own record of what it opened and of where  *)
(* each file ought to stand.                                               *)
(***************************************************************************)
EXTENDS ImportsProxy

CONSTANTS
  Size,        \* path -> length, for the files that can be on the disk
  Directories, \* paths the guest may create as directories
  Modulus,     \* number of values of a uint32_t
  Reach,       \* bound: a stream's position stays below Reach
  MaxHandle,   \* bound: the highest handle number used
  MaxStreams   \* bound: streams a behaviour opens

VARIABLES
  disk,      \* path -> "missing", "file" or "directory"
  handles,   \* _handles: number -> [type, name, stream]
  handle,    \* the static counter of createHandleType
  streams,   \* open FILEs: stream -> [path, position]
  opened,    \* FILEs opened so far; the next one's identity
  lastError, \* lastError
  failed,    \* the latest call of kernel32 or user32 told the guest it failed
  held       \* the guest's record: number -> [type, name, position]

tableVars == <<handles, handle, held>>
streamVars == <<streams, opened>>
errorVars == <<lastError, failed>>
vars == <<disk, tableVars, streamVars, errorVars, importVars, status>>

Paths == DOMAIN Size \cup Directories
Numbers == 0..MaxHandle
NoStream == 0

ASSUME SizeAssumption == \A p \in DOMAIN Size : Size[p] \in Nat
ASSUME ModulusAssumption ==
  /\ Modulus \in Nat \ {0} /\ Modulus % 2 = 0
  /\ \A p \in DOMAIN Size : Size[p] < Modulus \div 2
ASSUME BoundAssumption == Reach \in Nat /\ MaxHandle \in Nat /\ MaxStreams \in Nat

With(f, key, value) == [k \in DOMAIN f \cup {key} |-> IF k = key THEN value ELSE f[k]]
Without(f, key) == [k \in DOMAIN f \ {key} |-> f[k]]

Running == status = "running"

--------------------------------------------------------------------------------
(* Handles *)

\* The counter is static: it stays on the number it gave out last, so that
\* number is given out again once it is closed.
TakesCounter(h) == h = handle
Takes(h) ==
  /\ handle <= h /\ h \notin DOMAIN handles
  /\ \A k \in handle..(h - 1) : k \in DOMAIN handles

CreateHandleType(type, name, stream) ==
  \E h \in Numbers :
    /\ Takes(h)
    /\ handle' = h
    /\ handles' = With(handles, h, [type |-> type, name |-> name, stream |-> stream])
    /\ held' = IF h \in DOMAIN held THEN held    \* the guest forgets nothing
               ELSE With(held, h, [type |-> type, name |-> name, position |-> 0])

FreeHandleKeeps(h) == UNCHANGED tableVars    \* a slip for the next definition
FreeHandle(h) ==
  /\ handles' = Without(handles, h)
  /\ held' = Without(held, h)
  /\ UNCHANGED handle

--------------------------------------------------------------------------------
(* The last error: executeFunctionWithName of kernel32 clears it before     *)
(* every function but GetLastError, that of user32 before every function;   *)
(* the other proxies leave it alone.                                        *)

SucceedsSilently == failed' = FALSE /\ UNCHANGED lastError   \* a slip for the next
Succeeds == failed' = FALSE /\ lastError' = 0
Fails(code) == failed' = TRUE /\ lastError' = code

--------------------------------------------------------------------------------
(* Operations *)

\* fopen is called before the path is looked at; for reading it opens a
\* directory too, and that stream is not closed.
Opens(path) == disk[path] # "missing"

CreateFileA(path) ==
  /\ Running /\ opened < MaxStreams
  /\ IF Opens(path)
     THEN /\ opened' = opened + 1
          /\ streams' = With(streams, opened', [path |-> path, position |-> 0])
     ELSE UNCHANGED streamVars
  /\ IF disk[path] = "file"
     THEN CreateHandleType("File", path, opened') /\ Succeeds
     ELSE UNCHANGED tableVars /\ Fails(IF disk[path] = "directory" THEN 5 ELSE 2)
  /\ UNCHANGED <<disk, importVars, status>>

CreateDirectoryA(path) ==
  /\ Running
  /\ IF disk[path] = "missing"
     THEN disk' = [disk EXCEPT ![path] = "directory"] /\ Succeeds
     ELSE Fails(183) /\ UNCHANGED disk
  /\ UNCHANGED <<tableVars, streamVars, importVars, status>>

\* The path of DeleteFileA is not converted: it names something in the working
\* directory of the host, if anything, and never a file of the guest's disk.
DeleteFileA ==
  /\ Running
  /\ Fails(0) \/ Succeeds
  /\ UNCHANGED <<disk, tableVars, streamVars, importVars, status>>

\* CreateMutexA, and the icons, classes, windows and hooks of user32: objects that
\* are nothing but their handle.
CreateObject ==
  /\ Running
  /\ CreateHandleType("Object", "object", NoStream)
  /\ Succeeds
  /\ UNCHANGED <<disk, streamVars, importVars, status>>

\* The brush of gdi32 is a handle of the same table, but a call of gdi32 leaves
\* the last error of kernel32 as it was.
GetStockObject ==
  /\ Running
  /\ CreateHandleType("Object", "object", NoStream)
  /\ UNCHANGED <<disk, streamVars, errorVars, importVars, status>>

LoadLibraryA(dll) ==
  /\ Running /\ Len(blocks) <= MaxLoads
  /\ \/ LoadLibraryNamed(dll) /\ CreateHandleType("Module", dll, NoStream)
     \/ LoadUnknown(dll) /\ UNCHANGED tableVars
  /\ Succeeds
  /\ UNCHANGED <<disk, streamVars>>

GetProcAddress(h, f) ==
  /\ Running /\ Cardinality(procs) < MaxProcs
  /\ held[h].type = "Module"
  /\ AddressOfFunction(handles[h].name, f) \/ AddressOfUnknown(handles[h].name, f)
  /\ Succeeds
  /\ UNCHANGED <<disk, tableVars, streamVars>>

\* A call to a function the guest imported or asked the address of; what it
\* does is another action's business.
CallLink(a) ==
  /\ Running
  /\ ExecuteFunctionAtAddress(a)
  /\ UNCHANGED <<disk, tableVars, streamVars, errorVars>>

\* user32 clears the last error of kernel32 before each of its functions, none of
\* which tells of a failure.
CallUser32 ==
  /\ Running
  /\ Succeeds
  /\ UNCHANGED <<disk, tableVars, streamVars, importVars, status>>

Signed(d) == IF d < Modulus \div 2 THEN d ELSE d - Modulus

\* Where a move of each method starts.
OriginSwapped(method, position, size) ==
  CASE method = 0 -> 0 [] method = 1 -> size [] method = 2 -> position
Origin(method, position, size) ==
  CASE method = 0 -> 0 [] method = 1 -> position [] method = 2 -> size

\* Where the guest, which passes a LONG, expects to be after a move.
Wanted(h, d, method) ==
  <<0, held[h].position, Size[held[h].name]>>[method + 1] + Signed(d)

\* The uint32_t distance is widened to the long that fseek takes.  The guest
\* never asks for a position before the start of the file.
SetFilePointer(h, d, method) ==
  /\ Running
  /\ held[h].type = "File"
  /\ LET s == handles[h].stream
         path == streams[s].path
         to == Origin(method, streams[s].position, Size[path]) + d
         wanted == Wanted(h, d, method) IN
     /\ wanted \in 0..(Modulus - 1) /\ to \in 0..(Reach - 1)
     /\ streams' = [streams EXCEPT ![s].position = to]
     /\ held' = [held EXCEPT ![h].position = wanted]
  /\ Succeeds
  /\ UNCHANGED <<disk, handles, handle, opened, importVars, status>>

\* The guest moves its own record by the count it is given.
ReadFile(h, n) ==
  /\ Running
  /\ held[h].type = "File"
  /\ LET s == handles[h].stream
         left == Size[streams[s].path] - streams[s].position
         read == IF left <= 0 THEN 0 ELSE IF n < left THEN n ELSE left IN
     /\ streams' = [streams EXCEPT ![s].position = @ + read]
     /\ held' = [held EXCEPT ![h].position = @ + read]
  /\ Succeeds
  /\ UNCHANGED <<disk, handles, handle, opened, importVars, status>>

ClosesNothing(h) == UNCHANGED streamVars
Closes(h) ==
  IF handles[h].type = "File"
  THEN streams' = Without(streams, handles[h].stream) /\ UNCHANGED opened
  ELSE UNCHANGED streamVars

CloseHandle(h) ==
  /\ Running
  /\ Closes(h)
  /\ FreeHandle(h)
  /\ Succeeds
  /\ UNCHANGED <<disk, importVars, status>>

\* A number that names nothing has the type of a file, which has value 0, and
\* no stream: the guest that closes a handle twice stops the emulator.
CloseUnknown(h) ==
  /\ Running
  /\ h \notin DOMAIN handles
  /\ status' = "closed an unknown handle"
  /\ lastError' = 0
  /\ UNCHANGED <<disk, tableVars, streamVars, failed, importVars>>

--------------------------------------------------------------------------------
Init ==
  /\ ImportsInit
  /\ disk \in [Paths -> {"missing", "file", "directory"}]
  /\ \A p \in Paths : disk[p] = "file" => p \in DOMAIN Size
  /\ handles = <<>> /\ held = <<>>
  /\ handle = 0
  /\ streams = <<>> /\ opened = 0
  /\ lastError = 0 /\ failed = FALSE

Next ==
  \/ \E p \in Paths : CreateFileA(p)
  \/ \E p \in Directories : CreateDirectoryA(p)
  \/ DeleteFileA
  \/ CreateObject
  \/ GetStockObject
  \/ CallUser32
  \/ \E dll \in Libraries : LoadLibraryA(dll)
  \/ \E a \in Callable : CallLink(a)
  \/ \E h \in DOMAIN held :
       \/ \E f \in Functions : GetProcAddress(h, f)
       \/ \E d \in 0..(Modulus - 1), method \in 0..2 : SetFilePointer(h, d, method)
       \/ \E n \in 0..(Modulus \div 2) : ReadFile(h, n)
       \/ CloseHandle(h)
  \/ \E h \in Numbers : CloseUnknown(h)

Spec == Init /\ [][Next]_vars

--------------------------------------------------------------------------------
(* Properties *)

Type == {"File", "Module", "Object"}
Error == {0, 2, 5, 183}

Names == Paths \cup Libraries \cup {"object"}
Stream == [path : Paths, position : Nat]

\* Type invariant; the handles with a stream are those of files on the disk.
TypeOK ==
  /\ disk \in [Paths -> {"missing", "file", "directory"}]
  /\ \A p \in Paths : disk[p] = "file" => p \in DOMAIN Size
  /\ handle \in Numbers
  /\ DOMAIN handles \subseteq Numbers
  /\ handles \in [DOMAIN handles -> [type : Type, name : Names, stream : Nat]]
  /\ held \in [DOMAIN held -> [type : Type, name : Names, position : Nat]]
  /\ opened \in Nat
  /\ DOMAIN streams \subseteq 1..opened
  /\ streams \in [DOMAIN streams -> Stream]
  /\ \A h \in DOMAIN handles :
       IF handles[h].type = "File"
       THEN disk[handles[h].name] = "file" /\ handles[h].stream \in DOMAIN streams
       ELSE handles[h].stream = NoStream
  /\ lastError \in Error /\ failed \in BOOLEAN

\* Whatever is opened and closed in between, a handle the guest holds goes on
\* naming the object it was made for, and no two name one stream: a number is
\* never given out while it is held, though the last one closed comes back.
HandlesNameTheirOwn ==
  /\ DOMAIN handles = DOMAIN held
  /\ \A h \in DOMAIN held :
       /\ handles[h].type = held[h].type /\ handles[h].name = held[h].name
       /\ held[h].type = "File" => streams[handles[h].stream].path = held[h].name
  /\ \A h, g \in DOMAIN handles :
       handles[h].type = "File" /\ handles[h].stream = handles[g].stream => h = g

\* A stream that no handle leads to was left by a CreateFileA of a directory.
OnlyDirectoriesLeak ==
  \A s \in DOMAIN streams :
    (\A h \in DOMAIN handles : handles[h].stream # s) => disk[streams[s].path] = "directory"

\* GetLastError never reports a failure that a later call of kernel32 or user32
\* made obsolete by succeeding.  A call of another library in between, which may
\* make a handle of the same table, changes neither.
ErrorIsCurrent == lastError # 0 => failed

Position(h) == streams[handles[h].stream].position
IsFile(h) == handles[h].type = "File"

\* The position SetFilePointer reports is the one the guest works out, even
\* when the stream is somewhere else.
ReportsExpected ==
  \A h \in DOMAIN held : IsFile(h) => Position(h) % Modulus = held[h].position

Stands(h) == Position(h) = held[h].position

\* A stream stands where the guest expects it until a move backwards: the LONG
\* of "_In_ LONG lDistanceToMove" (FEKernel32DLL.m:616) is read as a uint32_t,
\* and the stream ends up 2^32 further on, where there is nothing to read.
OnlyBackwardMovesDrift ==
  [][\A h \in DOMAIN held \cap (DOMAIN held)' :
       IsFile(h) /\ Stands(h) /\ IsFile(h)' /\ ~ Stands(h)'
         => \E d \in 0..(Modulus - 1), method \in 0..2 :
              Signed(d) < 0 /\ SetFilePointer(h, d, method)]_vars
================================================================================
