------------------------------ MODULE GitCommands ------------------------------
(***************************************************************************)
(* The git namespace (git.rs): operations made of one or two git commands,  *)
(* each a run of its own in the guest.  What lies between the two commands *)
(* of an operation is anybody's: HEAD moves, the remote is given another   *)
(* URL.                                                                    *)
(*                                                                         *)
(* A runner that fails (the connection is gone, the time is up) has        *)
(* perhaps run the command, and perhaps still runs it.  Git and the        *)
(* servers it talks to are external: git asks the helpers it is told of    *)
(* for the password of whichever server wants one, the one a redirect      *)
(* leads to among them, and tells every helper of a password that worked.  *)
(***************************************************************************)
EXTENDS Integers

CONSTANTS
    Callers,       \* the calls of Git's operations
    Origins,       \* the http(s) origins: scheme, host and port
    OtherUrl,      \* a remote that is none of them: ssh, scp-style, a path
    Other          \* the author of commits that are nobody's here

Unborn     == "unborn"           \* a repository without a commit
Unbound    == "unbound"
Anywhere   == "anywhere"
GuestStore == "guest store"      \* a helper configured on the guest
Nothing    == "nothing"

ASSUME GitAssumption ==
    /\ OtherUrl \notin Origins /\ Other \notin Callers
    /\ Origins \cap {Unbound, Anywhere, GuestStore} = {}

VARIABLES
    head,          \* whose commit HEAD is at, or Unborn
    remoteUrl,     \* the URL of the remote that pushes and pulls name
    passesEnv,     \* whether the runner can pass an environment
    gitOp,         \* what each call is, and
    credentials,   \*   the username and password it is given
    gitAt,         \* where it is
    exit, out,     \* the exit code and the output of its last command
    bound,         \* the origin its credential helper is for, or Unbound
    moved,         \* history: commits in whose middle others moved HEAD
    had,           \* history: URLs a call with credentials is for
    saw            \* history: who was given the password of which call

gitVars == <<head, remoteUrl, passesEnv, gitOp, credentials, gitAt, exit, out,
             bound, moved, had, saw>>

Urls       == Origins \cup {OtherUrl}
Commits    == Callers \cup {Other}

\* push stands for pull, and look for status, branches and log.
GitOps  == {"commit", "push", "clone", "add", "checkout", "look"}
\* An empty username or password is given, and is none.
Credentials == {"none", "empty", "sound", "line break"}
Between == {"first", "firstRan", "second", "secondRan"}

GitInit ==
    /\ head \in {Unborn, Other} /\ remoteUrl \in Urls /\ passesEnv \in BOOLEAN
    /\ gitOp \in [Callers -> GitOps]
    /\ credentials \in [Callers -> Credentials]
    /\ \A c \in Callers :
          gitOp[c] \notin {"push", "clone"} => credentials[c] = "none"
    /\ gitAt = [c \in Callers |-> "idle"]
    /\ exit = [c \in Callers |-> 0] /\ out = [c \in Callers |-> Nothing]
    /\ bound = [c \in Callers |-> Unbound]
    /\ moved = {} /\ had = [c \in Callers |-> {}] /\ saw = {}

Goes(c, s) == gitAt' = [gitAt EXCEPT ![c] = s]

-----------------------------------------------------------------------------
(***************************************************************************)
(* git_auth, and what git does with it.                                    *)
(***************************************************************************)

\* The origin the helper is bound to: none applies to what is not http(s).
GitAuth(c, u) ==
    IF credentials[c] \in {"none", "empty"} \/ u \notin Origins
    THEN Unbound ELSE u

\* The -c options: no helper of the guest's, and ours for one origin.  Seeded
\* faults: ours answers whoever asks; the guest's is left in place.
ForAnyone(c)     == [clears |-> TRUE, origin |-> Anywhere]
BesideGuests(c)  == [clears |-> FALSE, origin |-> bound[c]]
HelperOptions(c) == [clears |-> TRUE, origin |-> bound[c]]

\* Whom git gives the password to, while a command that has one runs (external).
Tells(c, who) ==
    \/ who \in Origins /\ HelperOptions(c).origin \in {who, Anywhere}
    \/ who = GuestStore /\ ~HelperOptions(c).clears

Authenticates(c) ==
    /\ bound[c] # Unbound
    /\ \E who \in Origins \cup {GuestStore} :
          Tells(c, who) /\ saw' = saw \cup {<<c, who>>}
    /\ UNCHANGED <<head, remoteUrl, passesEnv, gitOp, credentials, gitAt, exit,
                   out, bound, moved, had>>

-----------------------------------------------------------------------------
(***************************************************************************)
(* The guest's repository, between the commands.                           *)
(***************************************************************************)

\* c moves HEAD to the commit h, in the middle of what the others do.
Moves(c, h) ==
    /\ head' = h
    /\ moved' = moved \cup {d \in Callers \ {c} :
                             gitOp[d] = "commit" /\ gitAt[d] \in Between}

\* Others move it too, and so do commands whose caller has given up.
OthersMoveHead ==
    /\ \E h \in Commits \ {head} : Moves(Other, h)
    /\ UNCHANGED <<remoteUrl, passesEnv, gitOp, credentials, gitAt, exit, out,
                   bound, had, saw>>

OthersSetUrl ==
    /\ remoteUrl' \in Urls \ {remoteUrl}
    /\ had' = [c \in Callers |->
                 IF gitOp[c] = "push" /\ had[c] # {} /\ gitAt[c] \in Between
                 THEN had[c] \cup {remoteUrl'} ELSE had[c]]
    /\ UNCHANGED <<head, passesEnv, gitOp, credentials, gitAt, exit, out, bound,
                   moved, saw>>

-----------------------------------------------------------------------------
(***************************************************************************)
(* The calls.                                                              *)
(***************************************************************************)

\* must_git_env for the command that does the work.  The default run_git_env
\* refuses an environment it cannot pass.
Launch(c, b) ==
    IF b # Unbound /\ ~passesEnv
    THEN Goes(c, "failed") /\ UNCHANGED bound
    ELSE Goes(c, "second") /\ bound' = [bound EXCEPT ![c] = b]

\* Operations of two commands: git commit and rev-parse, get-url and push.
TwoCommands(c) ==
    \/ gitOp[c] = "commit"
    \/ gitOp[c] = "push" /\ credentials[c] # "none"

BeginGit(c) ==
    /\ gitAt[c] = "idle"
    /\ \E u \in Urls :
       /\ gitOp[c] # "clone" => u = remoteUrl
       /\ had' = [had EXCEPT ![c] = IF credentials[c] = "none" THEN {} ELSE {u}]
       /\ IF TwoCommands(c) THEN Goes(c, "first") /\ UNCHANGED bound
          ELSE IF credentials[c] = "line break"
          THEN Goes(c, "failed") /\ UNCHANGED bound
          ELSE Launch(c, GitAuth(c, u))
    /\ UNCHANGED <<head, remoteUrl, passesEnv, gitOp, credentials, exit, out,
                   moved, saw>>

\* A remote, branch or ref that git would read as an option is refused, and an
\* empty list of paths is added, before any command.
NoCommand(c) ==
    /\ gitAt[c] = "idle"
    /\ \/ gitOp[c] \in {"push", "checkout"} /\ Goes(c, "failed")
       \/ gitOp[c] = "add" /\ Goes(c, "done")
    /\ UNCHANGED <<head, remoteUrl, passesEnv, gitOp, credentials, exit, out,
                   bound, moved, had, saw>>

\* The command exits: with 0 it has done its work and says what it found.
Exits(c, code, text) ==
    /\ exit' = [exit EXCEPT ![c] = code]
    /\ out' = [out EXCEPT ![c] = text]

FirstRuns(c) ==
    /\ gitAt[c] = "first" /\ Goes(c, "firstRan")
    /\ \/ Exits(c, 1, Nothing) /\ UNCHANGED <<head, moved>>
       \/ gitOp[c] = "commit" /\ Exits(c, 0, Nothing) /\ Moves(c, c)
       \/ /\ gitOp[c] = "push" /\ Exits(c, 0, remoteUrl)
          /\ UNCHANGED <<head, moved>>
    /\ UNCHANGED <<remoteUrl, passesEnv, gitOp, credentials, bound, had, saw>>

\* Seeded fault: must_git returns the output whatever the exit code was.
AnyExit(c) == TRUE
MustGit(c) == exit[c] = 0

\* Between them: a commit asks for HEAD, a push binds its helper to the URL.
Second(c) ==
    /\ gitAt[c] = "firstRan"
    /\ IF ~MustGit(c) \/ credentials[c] = "line break"
       THEN Goes(c, "failed") /\ UNCHANGED bound
       ELSE Launch(c, GitAuth(c, out[c]))
    /\ UNCHANGED <<head, remoteUrl, passesEnv, gitOp, credentials, exit, out,
                   moved, had, saw>>

SecondRuns(c) ==
    /\ gitAt[c] = "second" /\ Goes(c, "secondRan")
    /\ \/ Exits(c, 1, Nothing) /\ UNCHANGED <<head, moved>>
       \/ /\ gitOp[c] = "commit" /\ head # Unborn
          /\ Exits(c, 0, head) /\ UNCHANGED <<head, moved>>
       \/ /\ gitOp[c] # "commit" /\ Exits(c, 0, Nothing)
          /\ UNCHANGED <<head, moved>>
       \/ /\ gitOp[c] \in {"push", "checkout"} /\ Exits(c, 0, Nothing)
          /\ \E h \in Commits \ {head} : Moves(c, h)
    /\ UNCHANGED <<remoteUrl, passesEnv, gitOp, credentials, bound, had, saw>>

ReturnsGit(c) ==
    /\ gitAt[c] = "secondRan"
    /\ Goes(c, IF MustGit(c) THEN "done" ELSE "failed")
    /\ UNCHANGED <<head, remoteUrl, passesEnv, gitOp, credentials, exit, out,
                   bound, moved, had, saw>>

\* The runner fails, or the future is dropped.
RunnerFails(c) ==
    /\ gitAt[c] \in Between /\ Goes(c, "failed")
    /\ UNCHANGED <<head, remoteUrl, passesEnv, gitOp, credentials, exit, out,
                   bound, moved, had, saw>>

GitStep(c) ==
    \/ BeginGit(c) \/ NoCommand(c) \/ FirstRuns(c) \/ Second(c)
    \/ SecondRuns(c) \/ ReturnsGit(c) \/ RunnerFails(c) \/ Authenticates(c)

GitNext == OthersMoveHead \/ OthersSetUrl \/ \E c \in Callers : GitStep(c)

GitSpec == GitInit /\ [][GitNext]_gitVars

-----------------------------------------------------------------------------
(***************************************************************************)
(* Properties.                                                             *)
(***************************************************************************)

\* Types.
GitTypeOK ==
    /\ head \in Commits \cup {Unborn} /\ remoteUrl \in Urls
    /\ passesEnv \in BOOLEAN /\ gitOp \in [Callers -> GitOps]
    /\ credentials \in [Callers -> Credentials]
    /\ gitAt \in [Callers -> {"idle", "done", "failed"} \cup Between]
    /\ exit \in [Callers -> {0, 1}]
    /\ out \in [Callers -> Commits \cup Urls \cup {Nothing}]
    /\ bound \in [Callers -> Origins \cup {Unbound}]
    /\ moved \subseteq Callers /\ had \in [Callers -> SUBSET Urls]
    /\ saw \subseteq Callers \X (Origins \cup {GuestStore})

\* Git::commit, "returns the new commit hash": the hash it returns is of the
\* commit it made, provided HEAD has not been moved by anyone else meanwhile.
CommitIsOwn ==
    \A c \in Callers \ moved :
       gitOp[c] = "commit" /\ gitAt[c] = "done" => out[c] = c

\* "The helper is bound to the remote's origin, so git never offers the password
\* to another host": the password of an operation goes only to an origin its
\* remote had while it ran, or the one it clones from, and to no helper on the
\* guest that could keep it.
CredentialsStayHome == \A c \in Callers : \A who \in Origins \cup {GuestStore} :
    <<c, who>> \in saw => who \in had[c]

=============================================================================
