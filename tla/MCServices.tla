------------------------------ MODULE MCServices ------------------------------
(***************************************************************************)
(* Small instances for TLC of the modules above and beside the channel:     *)
(* the transport, a session, files, git, code and the decoder.  They share *)
(* no state, each taking the channel or the gateway as anything it may be. *)
(* A behaviour here is therefore of one of them, chosen at the start, with *)
(* the others at rest: what is checked of each is what a run of its own    *)
(* would, and the states add up instead of multiplying.                    *)
(***************************************************************************)
EXTENDS HttpTransport, SandboxSession, FileTransfer, GitCommands, CodeRun,
        Utf8Stream

\* One each of the requests and of the calls in git, to say what is beside the
\* other: of two requests, both are creates or one is a POST; of two calls in
\* git, one is a commit, or looks on while the other authenticates.  (Without
\* sound credentials there is no environment for the runner to pass.)
CONSTANTS create, onlooker

VARIABLE service
servicesVars == <<service, vars, sessionVars, fileVars, gitVars, codeVars,
                  utf8Vars>>

Services == {"http", "session", "files", "git", "code", "utf8"}

\* The states that those at rest stay in, and the pairs of the others.
HttpRests  == kind = [q \in Requests |-> "post"]
FilesRest  == /\ file = Data(Before, 0) /\ modern
              /\ task = [t \in Transfers |-> "read"]
GitRests   == /\ head = Other /\ remoteUrl = OtherUrl /\ passesEnv
              /\ gitOp = [c \in Callers |-> "look"]
CodeRests  == inContext = [r \in Runs |-> NoContext]

SmallHttp ==
    IF kind[create] = "keyed" THEN \A q \in Requests : kind[q] = "keyed"
    ELSE kind[create] = "post"
SmallGit ==
    IF \A c \in Callers : credentials[c] = "none"
    THEN gitOp[onlooker] = "commit" /\ passesEnv
    ELSE /\ gitOp[onlooker] = "look" /\ head = Other
         /\ passesEnv \/ \E c \in Callers : credentials[c] = "sound"

ServicesInit ==
    /\ service \in Services
    /\ Init /\ (IF service = "http" THEN SmallHttp ELSE HttpRests)
    /\ SessionInit
    /\ FileInit /\ (service = "files" \/ FilesRest)
    /\ GitInit /\ (IF service = "git" THEN SmallGit ELSE GitRests)
    /\ CodeInit /\ (service = "code" \/ CodeRests)
    /\ Utf8Init

ServicesNext ==
    /\ UNCHANGED service
    /\ \/ /\ service = "http" /\ Next
          /\ UNCHANGED <<sessionVars, fileVars, gitVars, codeVars, utf8Vars>>
       \/ /\ service = "session" /\ SessionNext
          /\ UNCHANGED <<vars, fileVars, gitVars, codeVars, utf8Vars>>
       \/ /\ service = "files" /\ FileNext
          /\ UNCHANGED <<vars, sessionVars, gitVars, codeVars, utf8Vars>>
       \/ /\ service = "git" /\ GitNext
          /\ UNCHANGED <<vars, sessionVars, fileVars, codeVars, utf8Vars>>
       \/ /\ service = "code" /\ CodeNext
          /\ UNCHANGED <<vars, sessionVars, fileVars, gitVars, utf8Vars>>
       \/ /\ service = "utf8" /\ Utf8Next
          /\ UNCHANGED <<vars, sessionVars, fileVars, gitVars, codeVars>>

\* Each service under the fairness its module states: those at rest have no
\* step for it to ask for.
ServicesSpec ==
    /\ ServicesInit /\ [][ServicesNext]_servicesVars
    /\ Fairness /\ SessionFairness /\ FileFairness /\ CodeFairness

\* Types: one invariant for the modules that only run here.
AllTypes ==
    /\ SessionTypeOK /\ FileTypeOK /\ GitTypeOK /\ CodeTypeOK /\ Utf8TypeOK

=============================================================================
