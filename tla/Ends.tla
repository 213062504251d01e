--------------------------------- MODULE Ends ---------------------------------
(***************************************************************************)
(* What must come to an end under fairness: the requests of the task       *)
(* manager, the answers of the CGI processes, and the reading of a form.   *)
(* A behaviour is one of one part, as in MCParts; its fairness is that of  *)
(* its part, and the others stay as one of their initial states has them.  *)
(***************************************************************************)
EXTENDS TaskManager

CONSTANTS
    Processes, CgiTogether, CgiOutput, CgiBody,     \* CgiProcess: its Requests, Together, Output and BodyParts
    Server, PartSize, InSize, PipeSize, ReadSize,
    MaxBuffers, MaxBytes                            \* PostData

VARIABLES
    part,   \* the part that this behaviour is of
    cgi, child, stdin, stdout, serverEnds, childEnds, manager,
    form, body, fields, cleared

cgiVars == <<cgi, child, stdin, stdout, serverEnds, childEnds, manager>>
formVars == <<form, body, fields, cleared>>
endsVars == <<part, vars, cgiVars, formVars>>

\* A process is not the server's; what is written and read is something.
ASSUME EndsAssumption ==
    /\ Server \notin Processes /\ CgiTogether \subseteq SUBSET Processes
    /\ \A r \in Processes : CgiOutput[r] \in Seq(STRING) /\ CgiBody[r] \in Nat
    /\ PartSize \in Nat \ {0} /\ ReadSize \in Nat \ {0} /\ InSize \in Nat /\ PipeSize \in Nat

Cgi == INSTANCE CgiProcess
    WITH Requests <- Processes, Together <- CgiTogether, Output <- CgiOutput, BodyParts <- CgiBody
Form == INSTANCE PostData

Parts == {"tasks", "cgi", "form"}
InTasks == part = "tasks" /\ UNCHANGED <<part, cgiVars, formVars>>
InCgi == part = "cgi" /\ UNCHANGED <<part, vars, formVars>>
InForm == part = "form" /\ UNCHANGED <<part, vars, cgiVars>>

EndsInit ==
    /\ part \in Parts
    /\ Init /\ Cgi!Init /\ Form!Init
    /\ part # "cgi" => {r \in Processes : Cgi!At(r, "new")} = CHOOSE present \in CgiTogether : TRUE

EndsNext ==
    \/ InTasks /\ Next
    \/ InCgi /\ Cgi!Over
    \/ \E r \in Processes :
          \/ InCgi /\ Cgi!Pipes(r)
          \/ InCgi /\ Cgi!Fork(r)
          \/ InCgi /\ Cgi!Parent(r)
          \/ InCgi /\ Cgi!Data(r)
          \/ InCgi /\ Cgi!Write(r)
          \/ InCgi /\ Cgi!End(r)
          \/ InCgi /\ Cgi!Idle(r)
          \/ InCgi /\ Cgi!Read(r)
          \/ InCgi /\ Cgi!Poll(r)
          \/ InCgi /\ Cgi!Destroy(r)
          \/ InCgi /\ Cgi!WaitOwn(r)
          \/ InCgi /\ Cgi!WaitAny(r)
          \/ InCgi /\ Cgi!ChildReads(r)
          \/ InCgi /\ Cgi!ChildWrites(r)
          \/ InCgi /\ Cgi!ChildExits(r)
          \/ InCgi /\ Cgi!ChildIsKilled(r)
    \/ InForm /\ Form!Prepare
    \/ InForm /\ Form!Loop
    \/ InForm /\ Form!NextBuffer
    \/ InForm /\ Form!Clear
    \/ InForm /\ Form!Over
    \/ InForm /\ \E data \in Form!Data : Form!Received(data)

EndsSpec == EndsInit /\ [][EndsNext]_endsVars

\* The fairness of the parts: Fairness of TaskManager; the workers, the destructors
\* and the children of CgiProcess; prepare of PostData.
EndsFairness ==
    /\ WF_endsVars(InTasks /\ TaskManagerStep) /\ WF_endsVars(InTasks /\ MainStep)
    /\ WF_endsVars(InTasks /\ failed = "no" /\ (ListenLoop \/ ListenCheck \/ HandleNewSession))
    /\ WF_endsVars(InTasks /\ failed = "no" /\ Accept /\ listener'.last = NoOne)
    /\ \A w \in Workers : WF_endsVars(InTasks /\ WorkerStep(w))
    /\ \A r \in Processes :
          /\ WF_endsVars(InCgi /\ Cgi!Worker(r))
          /\ WF_endsVars(InCgi /\ Cgi!Destructor(r))
          /\ WF_endsVars(InCgi /\ Cgi!Child(r))
    /\ WF_endsVars(InForm /\ Form!Reading)

FairEndsSpec == EndsSpec /\ EndsFairness

-----------------------------------------------------------------------------
(* The properties of the parts, each put together of the named parts that   *)
(* its module states and explains; that of TaskManager is TasksEnd.         *)

\* The answer is the body of what the child wrote, to its end.
CgiAnswerIsWhole == Cgi!CgiAnswerIsWhole

\* Nobody who works for a request waits for its child for ever.
CgiEnds == Cgi!CgiEnds

\* A form is read to its end, and as it is.
FormIsSeen == Form!FormIsSeen
===============================================================================
