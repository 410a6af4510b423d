-------------------------------- MODULE Env ---------------------------------
(* Env (env.cc): operations on files that are several system calls each,   *)
(* run by threads and processes that share one file system. One action per *)
(* system call; any of them may fail.                                      *)
EXTENDS Integers, FileTree, Status

CONSTANTS
  Procs,      \* threads that call Env
  Plans,      \* what they do: functions from Procs to jobs
  Trees,      \* trees to start from
  Schemes,    \* schemes of names; no name has another one
  MaxFaults   \* bound: system calls that fail for no reason in the tree

VARIABLES
  tree,      \* what each path is: None, Dir or a file
  data,      \* the bytes of each file
  writes,    \* how often each file was written (truncation included)
  registry,  \* registry_: the file system of each scheme, or None
  job,       \* the locals of each thread's operation
  faults

envVars == <<tree, data, writes, registry, job, faults>>

-----------------------------------------------------------------------------
(* A job: the operation and its arguments, and the locals of the code.     *)
Job(op, path, to, bytes) ==
  [op |-> op, path |-> path, to |-> to, bytes |-> bytes, scheme |-> "file", toScheme |-> "file",
   pc |-> IF op = "none" THEN "done" ELSE "lookup", status |-> OK,
   left |-> path, sub |-> <<>>,                                   \* RecursivelyCreateDir
   queue |-> <<>>, list |-> <<>>, children |-> {}, child |-> path,
   files |-> 0, dirs |-> 0, ret |-> OK,                           \* DeleteRecursively
   size |-> 0, file |-> None, got |-> <<>>, seen |-> 0, pending |-> 0]

NoJob == Job("none", <<>>, <<>>, 0)

Operations == {"none", "CreateDir", "DeleteDir", "DeleteFile", "RenameFile",
               "RecursivelyCreateDir", "DeleteRecursively", "ReadFileToString",
               "WriteStringToFile"}

(* Nobody names the base. Only RenameFile has a second name.               *)
IsJob(j) ==
  /\ j.op \in Operations /\ j.path \in Paths /\ j.to \in Paths /\ j.bytes \in Nat
  /\ j.op # "none" => j.path # <<>>
  /\ j.op = "RenameFile" => j.to # <<>>
  /\ \E s \in IF j.op = "RenameFile" THEN Schemes ELSE {"file"} :
       j = [Job(j.op, j.path, j.to, j.bytes) EXCEPT !.toScheme = s]

ASSUME EnvAssumption ==
  /\ \A plan \in Plans : plan = [p \in Procs |-> plan[p]] /\ \A p \in Procs : IsJob(plan[p])
  /\ \A t \in Trees : IsTree(t)
  /\ "file" \in Schemes /\ MaxFaults \in Nat

EnvInit ==
  /\ tree \in Trees
  /\ data = [f \in Files |-> IF \E p \in Paths : tree[p] = f
                             THEN <<<<"old", 1>>, <<"old", 2>>>> ELSE <<>>]
  /\ writes = [f \in Files |-> 0]
  /\ registry = [s \in Schemes |-> IF s = "file" THEN "local" ELSE None]
  /\ job \in Plans
  /\ faults = 0

At(p, pc) == job[p].pc = pc
Step(p, locals) == job' = [job EXCEPT ![p] = locals]
Go(p, pc) == [job[p] EXCEPT !.pc = pc]
Completed(locals, status) == [locals EXCEPT !.pc = "done", !.status = status]

(* A system call answers what the tree gives, or fails.                    *)
Answers(errno) == {errno} \cup (IF faults < MaxFaults THEN {"EIO"} ELSE {})
Counting(errno) == faults' = IF errno = "EIO" THEN faults + 1 ELSE faults
SameFiles == UNCHANGED <<tree, data, writes, registry>>

-----------------------------------------------------------------------------
(* FileSystemRegistryImpl, under its mutex                                 *)

Register(scheme, fs) ==
  /\ registry' = IF registry[scheme] = None THEN [registry EXCEPT ![scheme] = fs] ELSE registry
  /\ UNCHANGED <<tree, data, writes, job, faults>>

FirstStep(op) ==
  CASE op = "RecursivelyCreateDir" -> "probe"
    [] op = "DeleteRecursively"    -> "exists"
    [] op = "ReadFileToString"     -> "size"
    [] op = "WriteStringToFile"    -> "create"
    [] OTHER                       -> "call"

(* GetFileSystemForFile; RenameFile does not cross file systems.           *)
Lookup(p) ==
  /\ At(p, "lookup")
  /\ LET me == job[p]
         missing == registry[me.scheme] = None \/ registry[me.toScheme] = None
         crossing == registry[me.scheme] # registry[me.toScheme] IN
     Step(p, IF missing \/ crossing THEN Completed(me, "UNIMPLEMENTED")
             ELSE Go(p, FirstStep(me.op)))
  /\ SameFiles /\ UNCHANGED faults

(* CreateDir, DeleteDir, DeleteFile and RenameFile are one call each.      *)
CallOnce(p) ==
  LET me == job[p]
      errno == CASE me.op = "CreateDir"  -> mkdir(tree, me.path)
                 [] me.op = "DeleteDir"  -> rmdir(tree, me.path)
                 [] me.op = "DeleteFile" -> unlink(tree, me.path)
                 [] OTHER                -> rename(tree, me.path, me.to)
      after == CASE me.op = "CreateDir"  -> Made(tree, me.path, Dir)
                 [] me.op = "RenameFile" -> Renamed(tree, me.path, me.to)
                 [] OTHER                -> Removed(tree, me.path) IN
  /\ At(p, "call")
  /\ \E a \in Answers(errno) :
       /\ tree' = IF a = "OK" THEN after ELSE tree
       /\ Step(p, Completed(me, ErrnoToCode(a)))
       /\ Counting(a)
  /\ UNCHANGED <<data, writes, registry>>

-----------------------------------------------------------------------------
(* RecursivelyCreateDir: climb to what exists, then make what is missing.  *)

(* mutant: the missing directories stay in the order they were met in *)
MetInOrder(sub, name) == Append(sub, name)

Reversed(sub, name) == <<name>> \o sub

(* The base is there: the climb ends at the latest there.                  *)
CreateProbe(p) ==
  /\ At(p, "probe")
  /\ LET me == job[p] IN
     \E a \in IF me.left = <<>> THEN {"OK"} ELSE Answers(access(tree, me.left)) :
       /\ Step(p, IF a # "OK" THEN [me EXCEPT !.left = Front(@),
                                              !.sub = Reversed(@, Last(me.left))]
                  ELSE IF me.sub = <<>> THEN Completed(me, OK) ELSE Go(p, "make"))
       /\ Counting(a)
  /\ SameFiles

CreateNext(p) ==
  /\ At(p, "make")
  /\ LET me == job[p]
         built == Append(me.left, Head(me.sub))
         rest == [me EXCEPT !.left = built, !.sub = Tail(@)] IN
     \E a \in Answers(IF built \in Paths THEN mkdir(tree, built) ELSE "ENOENT") :
       /\ tree' = IF a = "OK" THEN Made(tree, built, Dir) ELSE tree
       /\ Step(p, IF a # "OK" \/ rest.sub = <<>> THEN Completed(rest, ErrnoToCode(a)) ELSE rest)
       /\ Counting(a)
  /\ UNCHANGED <<data, writes, registry>>

-----------------------------------------------------------------------------
(* DeleteRecursively: a breadth-first search that deletes files and lists  *)
(* directories, then the directories from the last one found to the first. *)

DeleteProbe(p) ==
  /\ At(p, "exists")
  /\ LET me == job[p] IN
     \E a \in Answers(access(tree, me.path)) :
       /\ Step(p, IF a = "OK" THEN [me EXCEPT !.pc = "scan", !.queue = <<me.path>>]
                  ELSE Completed([me EXCEPT !.dirs = 1], "NOT_FOUND"))
       /\ Counting(a)
  /\ SameFiles

(* GetChildren reads the whole directory; readdir's errors are not told.   *)
DeleteScan(p) ==
  /\ At(p, "scan")
  /\ LET me == job[p]
         popped == [me EXCEPT !.queue = Tail(@), !.list = Append(@, Head(me.queue))] IN
     IF me.queue = <<>> THEN Step(p, Go(p, "rmdir")) /\ UNCHANGED faults
     ELSE \E a \in Answers(opendir(tree, Head(me.queue))) :
            /\ Step(p, IF a = "OK"
                       THEN [popped EXCEPT !.children = ChildrenOf(tree, Head(me.queue)),
                                           !.pc = "child"]
                       ELSE [popped EXCEPT !.ret = Updated(@, ErrnoToCode(a)), !.dirs = @ + 1])
            /\ Counting(a)
  /\ SameFiles

(* IsDirectory asks whether the path is there, then what it is. Children   *)
(* come in the order of readdir, which is any.                             *)
DeleteChild(p) ==
  /\ At(p, "child")
  /\ LET me == job[p] IN
     IF me.children = {} THEN Step(p, Go(p, "scan")) /\ UNCHANGED faults
     ELSE \E c \in me.children : \E a \in Answers(access(tree, c)) :
            /\ Step(p, [me EXCEPT !.children = @ \ {c}, !.child = c,
                                  !.pc = IF a = "OK" THEN "stat" ELSE "unlink"])
            /\ Counting(a)
  /\ SameFiles

DeleteChildStat(p) ==
  /\ At(p, "stat")
  /\ LET me == job[p] IN
     \E a \in Answers(stat(tree, me.child)) :
       /\ Step(p, IF a = "OK" /\ tree[me.child] = Dir
                  THEN [me EXCEPT !.queue = Append(@, me.child), !.pc = "child"]
                  ELSE Go(p, "unlink"))
       /\ Counting(a)
  /\ SameFiles

DeleteChildUnlink(p) ==
  /\ At(p, "unlink")
  /\ LET me == job[p] IN
     \E a \in Answers(unlink(tree, me.child)) :
       /\ tree' = IF a = "OK" THEN Removed(tree, me.child) ELSE tree
       /\ Step(p, IF a = "OK" THEN Go(p, "child")
                  ELSE [me EXCEPT !.pc = "child", !.ret = Updated(@, ErrnoToCode(a)),
                                  !.files = @ + 1])
       /\ Counting(a)
  /\ UNCHANGED <<data, writes, registry>>

(* mutant: what cannot be removed is not counted *)
DeleteDirsUncounted(p) ==
  /\ At(p, "rmdir")
  /\ LET me == job[p]
         rest == [me EXCEPT !.list = Front(@)] IN
     \E a \in Answers(rmdir(tree, Last(me.list))) :
       /\ tree' = IF a = "OK" THEN Removed(tree, Last(me.list)) ELSE tree
       /\ Step(p, IF rest.list = <<>> THEN Completed(rest, OK) ELSE rest)
       /\ Counting(a)
  /\ UNCHANGED <<data, writes, registry>>

(* ret is put together, and not returned.                                  *)
DeleteDirs(p) ==
  /\ At(p, "rmdir")
  /\ LET me == job[p]
         popped == [me EXCEPT !.list = Front(@)] IN
     \E a \in Answers(rmdir(tree, Last(me.list))) :
       LET rest == IF a = "OK" THEN popped
                   ELSE [popped EXCEPT !.ret = Updated(@, ErrnoToCode(a)), !.dirs = @ + 1] IN
       /\ tree' = IF a = "OK" THEN Removed(tree, Last(me.list)) ELSE tree
       /\ Step(p, IF rest.list = <<>> THEN Completed(rest, OK) ELSE rest)
       /\ Counting(a)
  /\ UNCHANGED <<data, writes, registry>>

-----------------------------------------------------------------------------
(* ReadFileToString: the size, then a descriptor, then pread until the     *)
(* size is reached.                                                        *)

ReadSize(p) ==
  /\ At(p, "size")
  /\ LET me == job[p]
         f == tree[me.path] IN
     \E a \in Answers(stat(tree, me.path)) :
       /\ Step(p, IF a # "OK" THEN Completed(me, ErrnoToCode(a))
                  ELSE IF f = Dir THEN [me EXCEPT !.pc = "open", !.size = 1]
                  ELSE [me EXCEPT !.pc = "open", !.size = Len(data[f]),
                                  !.file = f, !.seen = writes[f]])
       /\ Counting(a)
  /\ SameFiles

ReadOpen(p) ==
  /\ At(p, "open")
  /\ LET me == job[p]
         f == tree[me.path] IN
     \E a \in Answers(openToRead(tree, me.path)) :
       /\ LET opened == [me EXCEPT !.file = f, !.seen = IF f = me.file THEN @ ELSE -1] IN
          Step(p, IF a # "OK" THEN Completed(me, ErrnoToCode(a))
                  ELSE IF me.size = 0 THEN Completed(opened, OK)
                  ELSE [opened EXCEPT !.pc = "pread"])
       /\ Counting(a)
  /\ SameFiles

(* mutant: the offset stays where it is *)
PreadSame(content, offset, n) == SubSeq(content, 1, n)

Pread(content, offset, n) == SubSeq(content, offset + 1, offset + n)

(* What is read so far goes into *data, which is cleared after an error; a *)
(* directory cannot be read.                                               *)
ReadPread(p) ==
  /\ At(p, "pread")
  /\ LET me == job[p]
         content == IF me.file = Dir THEN <<>> ELSE data[me.file]
         there == Len(content) - Len(me.got)
         wanted == me.size - Len(me.got) IN
     \E a \in Answers(IF me.file = Dir THEN "EISDIR" ELSE "OK"), n \in 0..wanted :
       /\ a # "OK" => n = 0
       /\ a = "OK" => IF there <= 0 THEN n = 0 ELSE n \in 1..there
       /\ LET read == [me EXCEPT !.got = @ \o Pread(content, Len(@), n)] IN
          Step(p, IF a # "OK" THEN Completed([me EXCEPT !.got = <<>>], ErrnoToCode(a))
                  ELSE IF n = 0 THEN Completed([me EXCEPT !.got = <<>>], "OUT_OF_RANGE")
                  ELSE IF n = wanted THEN Completed(read, OK) ELSE read)
       /\ Counting(a)
  /\ SameFiles

-----------------------------------------------------------------------------
(* WriteStringToFile: fopen, fwrite into a buffer that may be written      *)
(* early, fclose.                                                          *)

BytesOf(p, first, last) == [i \in 1..(last - first + 1) |-> <<p, first + i - 1>>]

(* A write past the end leaves a hole of zeros.                            *)
Written(content, offset, bytes) ==
  LET end == offset + Len(bytes) IN
  [i \in 1..(IF end > Len(content) THEN end ELSE Len(content)) |->
     IF i \in (offset + 1)..end THEN bytes[i - offset]
     ELSE IF i <= Len(content) THEN content[i] ELSE <<"hole", 0>>]

Unused == {f \in Files : (\A q \in Paths : tree[q] # f) /\ (\A q \in Procs : job[q].file # f)}

WriteOpen(p) ==
  /\ At(p, "create")
  /\ LET me == job[p] IN
     \E a \in Answers(openToWrite(tree, me.path)),
        f \in IF tree[me.path] \in Files THEN {tree[me.path]} ELSE Unused :
       /\ IF a = "OK"
          THEN /\ tree' = Made(tree, me.path, f)
               /\ data' = [data EXCEPT ![f] = <<>>]
               /\ writes' = [writes EXCEPT ![f] = @ + 1]
               /\ Step(p, [me EXCEPT !.pc = "append", !.file = f])
          ELSE Step(p, Completed(me, ErrnoToCode(a))) /\ UNCHANGED <<tree, data, writes>>
       /\ Counting(a)
  /\ UNCHANGED registry

(* The write of what is left in the buffer, if anything is.                *)
Flushed(f, p, from, to) ==
  IF from = to THEN UNCHANGED <<data, writes>>
  ELSE /\ data' = [data EXCEPT ![f] = Written(@, from, BytesOf(p, from + 1, to))]
       /\ writes' = [writes EXCEPT ![f] = @ + 1]

(* pending counts the bytes that are in the file.                          *)
WriteAppend(p) ==
  /\ At(p, "append")
  /\ LET me == job[p] IN
     \E a \in Answers("OK"), n \in 0..me.bytes :
       /\ Flushed(me.file, p, 0, n)
       /\ Step(p, [me EXCEPT !.pc = "close", !.pending = n, !.status = ErrnoToCode(a)])
       /\ Counting(a)
  /\ UNCHANGED <<tree, registry>>

(* Close, or after a failed Append the destructor, which closes too and    *)
(* ignores errors.                                                         *)
WriteClose(p) ==
  /\ At(p, "close")
  /\ LET me == job[p] IN
     \E a \in Answers("OK"), n \in me.pending..me.bytes :
       /\ a = "OK" /\ IsOk(me.status) => n = me.bytes
       /\ Flushed(me.file, p, me.pending, n)
       /\ Step(p, Completed(me, Updated(me.status, ErrnoToCode(a))))
       /\ Counting(a)
  /\ UNCHANGED <<tree, registry>>

-----------------------------------------------------------------------------
EnvStep(p) ==
  \/ Lookup(p) \/ CallOnce(p)
  \/ CreateProbe(p) \/ CreateNext(p)
  \/ DeleteProbe(p) \/ DeleteScan(p) \/ DeleteChild(p) \/ DeleteChildStat(p)
  \/ DeleteChildUnlink(p) \/ DeleteDirs(p)
  \/ ReadSize(p) \/ ReadOpen(p) \/ ReadPread(p)
  \/ WriteOpen(p) \/ WriteAppend(p) \/ WriteClose(p)

EnvNext ==
  \/ \E p \in Procs : EnvStep(p)
  \/ \E s \in Schemes : Register(s, "other")

EnvSpec == EnvInit /\ [][EnvNext]_envVars

-----------------------------------------------------------------------------
Finishes(p, op) == job[p].op = op /\ ~At(p, "done") /\ job'[p].pc = "done"
Alone(p) == \A q \in Procs \ {p} : job[q].op = "none"
AllDo(op, path) == \A p \in Procs : job[p].op \in {op, "none"} /\ (job[p].op = op => job[p].path = path)

(* When DeleteRecursively counts nothing that it left, nothing is left,    *)
(* whatever others did meanwhile; and alone it does remove a directory.    *)
DeletionTold(p) ==
  Finishes(p, "DeleteRecursively") =>
    /\ IsOk(job'[p].status) /\ job'[p].files = 0 /\ job'[p].dirs = 0 =>
         \A q \in Below(job[p].path) : Absent(tree', q)
    /\ Alone(p) /\ faults' = 0 /\ tree[job[p].path] = Dir =>
         job'[p].files = 0 /\ job'[p].dirs = 0

NoFileOn(t, path) == \A q \in Paths : IsPrefix(q, path) => t[q] \notin Files

(* RecursivelyCreateDir tells the truth; and of several that make the same *)
(* directory one succeeds, though each may find the other's at any moment, *)
(* unless a file is in the way.                                            *)
CreationTold(p) ==
  Finishes(p, "RecursivelyCreateDir") =>
    /\ IsOk(job'[p].status) => ~Absent(tree', job[p].path)
    /\ AllDo("RecursivelyCreateDir", job[p].path) /\ faults' = 0
         /\ NoFileOn(tree', job[p].path)
         /\ (\A q \in Procs : job'[q].pc = "done") => ~Absent(tree', job[p].path)

(* The operations on whole trees do what they tell: DeletionTold and       *)
(* CreationTold (env.cc, RecursivelyCreateDir and DeleteRecursively).      *)
TreesAreAsTold == [][\A p \in Procs : DeletionTold(p) /\ CreationTold(p)]_envVars

(* What ReadFileToString returns has the size the file had; if nobody      *)
(* wrote the file meanwhile it is the file, in order and without gaps. A   *)
(* WriteStringToFile that has the file for itself leaves just its bytes.   *)
ContentIsWhole ==
  [][\A p \in Procs :
       /\ Finishes(p, "ReadFileToString") /\ IsOk(job'[p].status) =>
            LET done == job'[p] IN
            /\ Len(done.got) = done.size
            /\ done.file \in Files /\ done.seen = writes[done.file] => done.got = data[done.file]
       /\ Finishes(p, "WriteStringToFile") /\ IsOk(job'[p].status) =>
            LET f == job[p].file IN
            (\E q \in Procs \ {p} : job[q].op = "WriteStringToFile")
              \/ data'[f] = BytesOf(p, 1, job[p].bytes)]_envVars
=============================================================================
