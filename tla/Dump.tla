-------------------------------- MODULE Dump --------------------------------
(***************************************************************************)
(* DumpPathFilter (src/pkg/nar/dump.go): the walk of a file system that    *)
(* others may change under it, as the caller of NarWriter.  Each system    *)
(* call is a step of its own.                                              *)
(*                                                                         *)
(* The recursion of dumpPath only ever goes on to the next path: todo is   *)
(* what is left to visit, the children of a directory in front of its      *)
(* siblings.  Head(todo) is the node at hand.                              *)
(***************************************************************************)
EXTENDS NarWriter, FiniteSets, SequencesExt

CONSTANTS
  Node,        \* what may be found at a path: records of the fields below
  Trees,       \* the file systems to begin with: functions from paths to nodes
  Filters,     \* for each filter, the set of paths it returns false for
  Elsewhere,   \* what symlinks lead to: a function from targets to nodes
  MaxChanges   \* a bound on the changes others make

HeaderOf(p, node) ==
  [path |-> p, type |-> node.type, target |-> node.target, size |-> node.size,
   executable |-> node.executable]

Absent == [type |-> "none", size |-> 0, executable |-> FALSE, target |-> ""]

\* A file system is finite, and a tree.  Whatever is found is nothing, or is something no
\* archive can hold, or can be announced: of the rest, Header.Validate has no complaint.
ASSUME TreesAreOffered ==
  \A tree \in Trees :
    /\ IsFiniteSet(DOMAIN tree) /\ DOMAIN tree \subseteq Path /\ Root \in DOMAIN tree
    /\ \A p \in DOMAIN tree : \A i \in 0..Len(p) : SubSeq(p, 1, i) \in DOMAIN tree
    /\ \A p \in DOMAIN tree : \A node \in Node \cup {tree[p]} :
         \/ node = Absent \/ node.type = "other"
         \/ HeaderOf(p, node) \in Offers /\ Valid(HeaderOf(p, node))

VARIABLES
  fs,              \* the file system
  changes, known,  \* changes made so far; history: all that fs has ever said
  refused,         \* the filter
  dpc, todo,       \* dumpPath: label, and what is left to visit
  fi,              \* what Lstat, and Readlink, have said of the node at hand
  opened,          \* the file that Open has opened
  copied,          \* words that io.Copy has copied
  result           \* the error dumpPath, and then DumpPathFilter, has returned

world    == <<fs, changes, known>>
dumpPath == <<dpc, todo, fi, opened, copied, result>>
dumpVars == <<world, refused, dumpPath>>

Facts(tree) == {<<p, tree[p]>> : p \in DOMAIN tree}

DumpInit ==
  /\ Init
  /\ fs \in Trees /\ changes = 0 /\ known = Facts(fs)
  /\ refused \in Filters
  /\ dpc = "lstat" /\ todo = <<Root>> /\ fi = Absent /\ opened = Absent
  /\ copied = 0 /\ result = "nil"

----------------------------------------------------------------------------
(***************************************************************************)
(* The file system.  Whoever has a file open can write to it, whatever     *)
(* has become of its name.                                                 *)
(***************************************************************************)
Change(p, node) ==
  /\ dpc # "end" /\ changes < MaxChanges /\ fs[p] # node
  /\ fs' = [fs EXCEPT ![p] = node] /\ changes' = changes + 1
  /\ known' = known \cup Facts(fs')
  /\ \/ UNCHANGED opened
     \/ dpc = "copy" /\ node.type = "regular" /\ opened' = node
  /\ UNCHANGED <<vars, refused, dpc, todo, fi, copied, result>>

\* A path leads through directories.  (A symlink on the way leads to no directory.)
Lookup(p) ==
  IF \A i \in 0..(Len(p) - 1) : fs[SubSeq(p, 1, i)].type = "directory" THEN fs[p] ELSE Absent

Followed(p) == IF Lookup(p).type = "symlink" THEN Elsewhere[Lookup(p).target] ELSE Lookup(p)

\* os.ReadDir sorts what it finds by name.
Found(p)    == {q \in DOMAIN fs : q # Root /\ Parent(q) = p /\ fs[q] # Absent}
Children(p) ==
  {s \in [1..Cardinality(Found(p)) -> Found(p)] :
     \A i, j \in DOMAIN s : i < j => s[i] # s[j] /\ Ordered(s[i], s[j])}

----------------------------------------------------------------------------
(***************************************************************************)
(* dumpPath                                                                *)
(***************************************************************************)
At(label) == dpc = label /\ todo # << >>

\* An error is passed up through all calls; what is left is the deferred Close.
GiveUp == dpc' = "close" /\ result' = "err" /\ UNCHANGED <<todo, fi, opened, copied>>

GoOn(rest) == dpc' = "lstat" /\ todo' = rest /\ UNCHANGED <<fi, opened, copied, result>>

\* A node of another type is an error even where the filter would have omitted it.
Lstat ==
  /\ At("lstat")
  /\ LET node == Lookup(Head(todo)) IN
       IF node.type \in {"none", "other"} THEN GiveUp
       ELSE IF Head(todo) \in refused THEN GoOn(Tail(todo))
       ELSE /\ fi' = node
            /\ dpc' = IF node.type = "symlink" THEN "readlink" ELSE "announce"
            /\ UNCHANGED <<todo, opened, copied, result>>
  /\ UNCHANGED <<vars, world, refused>>

Readlink ==
  /\ At("readlink")
  /\ LET node == Lookup(Head(todo)) IN
       IF node.type # "symlink" THEN GiveUp
       ELSE fi' = node /\ dpc' = "announce" /\ UNCHANGED <<todo, opened, copied, result>>
  /\ UNCHANGED <<vars, world, refused>>

Announce ==
  /\ At("announce")
  /\ WriteHeader(HeaderOf(Head(todo), fi))
  /\ dpc' = "announced"
  /\ UNCHANGED <<world, refused, todo, fi, opened, copied, result>>

Announced ==
  /\ At("announced") /\ wpc = "idle"
  /\ IF err # "none" THEN GiveUp
     ELSE IF fi.type = "symlink" THEN GoOn(Tail(todo))
     ELSE /\ dpc' = IF fi.type = "directory" THEN "readdir" ELSE "open"
          /\ UNCHANGED <<todo, fi, opened, copied, result>>
  /\ UNCHANGED <<vars, world, refused>>

\* Mutant: the children of a directory are left for later.
ReadDirBreadthFirst ==
  /\ At("readdir")
  /\ IF Followed(Head(todo)).type = "directory"
       THEN \E children \in Children(Head(todo)) : GoOn(Tail(todo) \o children)
       ELSE GiveUp
  /\ UNCHANGED <<vars, world, refused>>

ReadDir ==
  /\ At("readdir")
  /\ IF Followed(Head(todo)).type = "directory"
       THEN \E children \in Children(Head(todo)) : GoOn(children \o Tail(todo))
       ELSE GiveUp
  /\ UNCHANGED <<vars, world, refused>>

\* Open follows symlinks.  A directory opens as well, and is an error to read.
Open ==
  /\ At("open")
  /\ IF Followed(Head(todo)).type = "regular"
       THEN /\ opened' = Followed(Head(todo)) /\ copied' = 0 /\ dpc' = "copy"
            /\ UNCHANGED <<todo, fi, result>>
       ELSE GiveUp
  /\ UNCHANGED <<vars, world, refused>>

(***************************************************************************)
(* io.Copy, a chunk at a time, until a write fails or the file has no      *)
(* more; then "check if read bytes matches fi.Size()".                     *)
(***************************************************************************)
CopyChunk ==
  /\ At("copy") /\ err = "none"
  /\ \E n \in 1..2 : n <= opened.size - copied /\ Write(n) /\ copied' = copied + n
  /\ UNCHANGED <<world, refused, dpc, todo, fi, opened, result>>

CopyEnds ==
  /\ At("copy")
  /\ \/ err = "err" /\ GiveUp
     \/ err = "none" /\ opened.size <= copied
        /\ IF copied = fi.size THEN GoOn(Tail(todo)) ELSE GiveUp
  /\ UNCHANGED <<vars, world, refused>>

\* Mutant: nothing is closed after an error.
StartCloseUnlessFailed ==
  \/ /\ dpc = "lstat" /\ todo = << >>
     /\ Close
     /\ dpc' = "closing" /\ UNCHANGED <<world, refused, todo, fi, opened, copied, result>>
  \/ /\ dpc = "close"
     /\ dpc' = "closing" /\ UNCHANGED <<vars, world, refused, todo, fi, opened, copied, result>>

(***************************************************************************)
(* DumpPathFilter.  Where Close is not the deferred one, its error counts; *)
(* the deferred one that comes behind it changes nothing.                  *)
(***************************************************************************)
StartClose ==
  /\ dpc = "close" \/ (dpc = "lstat" /\ todo = << >>)
  /\ Close
  /\ dpc' = "closing"
  /\ UNCHANGED <<world, refused, todo, fi, opened, copied, result>>

\* Mutant: the error of Close does not count.
EndDumpQuietly ==
  /\ dpc = "closing" /\ wpc = "idle"
  /\ dpc' = "end"
  /\ UNCHANGED <<vars, world, refused, todo, fi, opened, copied, result>>

EndDump ==
  /\ dpc = "closing" /\ wpc = "idle"
  /\ dpc' = "end"
  /\ result' = IF err = "none" THEN result ELSE "err"
  /\ UNCHANGED <<vars, world, refused, todo, fi, opened, copied>>

DumpStep ==
  \/ Lstat \/ Readlink \/ Announce \/ Announced \/ ReadDir \/ Open \/ CopyChunk \/ CopyEnds
  \/ StartClose \/ EndDump

WriterStep == (EmitterStep \/ CallProceeds) /\ UNCHANGED dumpVars

Ended == dpc = "end" /\ UNCHANGED <<vars, dumpVars>>

DumpNext ==
  DumpStep \/ WriterStep \/ Ended \/ \E p \in DOMAIN fs, node \in Node : Change(p, node)

DumpSpec == DumpInit /\ [][DumpNext]_<<vars, dumpVars>>

\* The dump and the emitter run; nobody has to change a file.
DumpFairSpec ==
  DumpSpec /\ WF_<<vars, dumpVars>>(DumpStep) /\ WF_<<vars, dumpVars>>(WriterStep)

----------------------------------------------------------------------------
(***************************************************************************)
(* Properties                                                              *)
(***************************************************************************)
(***************************************************************************)
(* Of a file system that nobody changes, onto a destination that does not  *)
(* fail, a nil error means that exactly the nodes the filter leaves are    *)
(* dumped, each as it is; and there is no error where everything can be    *)
(* dumped (dump.go:25-41, 44-150).                                         *)
(*                                                                         *)
(* Two trees may be refused or not, as far as this goes.  The code refuses *)
(* both: one with a socket that the filter would have omitted, since it    *)
(* looks at the type first (dump.go:62, against dump.go:11-13), and one    *)
(* with a name that begins with "..", which the writer takes for the way   *)
(* up (writer.go:224, against writer.go:223).                              *)
(***************************************************************************)
Ancestors(p) == {SubSeq(p, 1, i) : i \in 0..(Len(p) - 1)}
Reached      == {p \in DOMAIN fs : Lookup(p) # Absent /\ Ancestors(p) \cap refused = {}}
Wanted       == Reached \ refused

Dumpable ==
  /\ Root \in Wanted
  /\ \A p \in Reached : fs[p].type # "other"
  /\ \A p \in Wanted \ {Root} : Last(p) \notin DotDotNames

DumpsTree ==
  dpc = "end" /\ changes = 0 /\ ~failing =>
    /\ result = "nil" => ToSet(accepted) = {HeaderOf(p, fs[p]) : p \in Wanted}
    /\ Dumpable => result = "nil"

(***************************************************************************)
(* Whatever changes during the dump, and wherever the destination fails: a *)
(* nil error means that the archive is closed and whole, that every file   *)
(* in it has as much data as its header says, and that every header was    *)
(* true at some moment (dump.go:25-41, 114-146).                           *)
(***************************************************************************)
DataIn(words) == {i \in DOMAIN words : words[i] = W(Oversized)}
DataOf(hs)    == UNION {{i} \X (1..hs[i].size) : i \in DOMAIN hs}

NilMeansWhole ==
  dpc = "end" /\ result = "nil" =>
    /\ Succeeded /\ ~failing /\ left = 0
    /\ Cardinality(DataIn(out)) = Cardinality(DataOf(accepted))
    /\ \A i \in DOMAIN accepted :
         \E fact \in known : accepted[i] = HeaderOf(fact[1], fact[2])

(***************************************************************************)
(* The dump ends, and the emitter with it: "make sure the NAR writer is    *)
(* always closed, so the underlying goroutine is stopped" (dump.go:32).    *)
(***************************************************************************)
DumpEnds == <>[](dpc = "end" /\ epc = "done")
============================================================================
