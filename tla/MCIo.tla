-------------------------------- MODULE MCIo --------------------------------
(* The input and the output streams and Env for TLC. They do not interact: *)
(* a behaviour is one of either.                                           *)
EXTENDS InputStreams, OutputStreams, Env

VARIABLE part  \* "in", "out" or "env"

(* Every kind of stream first, last and in the middle, blocks that divide  *)
(* the content and blocks that do not, faults and a pipe.                  *)
MCSetups ==
  {<<Array(3, 2)>>,
   <<Array(2, 0), Copying("descriptor", 3, 2, FALSE), Array(1, 1)>>,
   <<Copying("istream", 3, 2, FALSE), Array(2, 2)>>,
   <<Copying("pipe", 4, 3, TRUE), Array(2, 2)>>,
   <<FileStream(3, 2), Array(2, 2)>>,
   <<Copying("descriptor", 3, 2, TRUE), Copying("pipe", 2, 2, FALSE)>>}

MCSinks ==
  {ArrayOut(5, 2), ArrayOut(4, 0),
   StringOut(0, 0, FALSE), StringOut(2, 1, FALSE), StringOut(1, 0, TRUE),
   CopyingOut(2, FALSE), CopyingOut(3, TRUE), CopyingOut(1, TRUE)}

MCPaths == {<<>>, <<"d">>, <<"d", "e">>, <<"d", "f">>, <<"d", "e", "g">>, <<"h">>}

TreeOf(dirs, f1, f2) ==
  [p \in MCPaths |-> CASE p \in dirs -> Dir [] p = f1 -> "f1" [] p = f2 -> "f2" [] OTHER -> None]

(* A lone file; a directory with a file and a directory with a file        *)
MCTrees == {TreeOf({<<>>}, <<"h">>, <<"none">>),
            TreeOf({<<>>, <<"d">>, <<"d", "e">>}, <<"d", "f">>, <<"d", "e", "g">>)}

DoDelete == Job("DeleteRecursively", <<"d">>, <<>>, 0)
DoCreate == Job("RecursivelyCreateDir", <<"d", "e", "g">>, <<>>, 0)
DoRead == Job("ReadFileToString", <<"d", "f">>, <<>>, 0)
DoWrite(n) == Job("WriteStringToFile", <<"d", "f">>, <<>>, n)
DoOnce(op, path, to) == Job(op, path, to, 0)

Compound == {DoDelete, DoCreate, DoRead, DoWrite(1), DoWrite(3)}
Single ==
  {DoOnce("CreateDir", <<"d", "e">>, <<>>), DoOnce("DeleteDir", <<"d", "e">>, <<>>),
   DoOnce("DeleteFile", <<"d", "f">>, <<>>), DoOnce("RenameFile", <<"h">>, <<"d", "f">>),
   DoOnce("RenameFile", <<"d", "f">>, <<"h">>),
   [DoOnce("RenameFile", <<"d", "f">>, <<"h">>) EXCEPT !.toScheme = "other"]}

(* Every operation of several calls against each other, against each of    *)
(* the single calls, and alone                                             *)
MCPlans == {<<j, k>> : j \in Compound, k \in Compound \cup Single \cup {NoJob}}
           \cup {<<NoJob, NoJob>>}

-----------------------------------------------------------------------------
vars == <<inVars, outVars, envVars, part>>

Init ==
  /\ InInit /\ OutInit /\ EnvInit
  /\ part \in {"in", "out", "env"}
  /\ part # "in" => leaf = <<Array(3, 2)>>
  /\ part # "out" => sink = CopyingOut(2, FALSE)
  /\ part # "env" => job = <<NoJob, NoJob>> /\ tree = TreeOf({<<>>}, <<"h">>, <<"none">>)

Next ==
  \/ part = "in" /\ InNext /\ UNCHANGED <<outVars, envVars, part>>
  \/ part = "out" /\ OutNext /\ UNCHANGED <<inVars, envVars, part>>
  \/ part = "env" /\ EnvNext /\ UNCHANGED <<inVars, outVars, part>>

Spec == Init /\ [][Next]_vars
=============================================================================
