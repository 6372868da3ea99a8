------------------------------ MODULE GitHooks ------------------------------
(***************************************************************************)
(* packages/tooling/git-hooks: `install` drops two hooks into a repository *)
(* and `run` is what git calls through them in the course of a commit.     *)
(* pre-commit is format, re-stage, lint, typecheck, audit; commit-msg      *)
(* checks the subject.                                                     *)
(*                                                                         *)
(* A file has a content in HEAD, in the index and in the working tree.     *)
(* The steps are child processes that read and write the working tree,     *)
(* while whoever commits may go on editing and staging.                    *)
(*                                                                         *)
(* External: `biome format --write` rewrites files in place, and some of   *)
(* them when it fails; `git update-index --again` stages the working tree  *)
(* of every index entry that differs from HEAD, or fails and stages none;  *)
(* biome and tsc fail on a file that is not sound.                         *)
(***************************************************************************)
EXTENDS Naturals

CONSTANTS
  File,      \* the tracked files
  Absent,    \* no such file, in one of the three places
  MaxEdits   \* bound of the edits

ASSUME EditsAssumption == MaxEdits \in Nat

Content == [edit : 0 .. MaxEdits, formatted : BOOLEAN, sound : BOOLEAN]

ASSUME AbsentAssumption == Absent \notin Content

VARIABLES
  hooks,      \* the hooks in place under .husky/
  head, index, work,   \* file -> its content there, or Absent
  step,       \* where the commit is
  edits,      \* number of the last edit
  staged,     \* history: the index when the commit began
  worked,     \* history: the working tree when the commit began
  touched     \* history: the files edited or staged while the hooks ran

hookVars == <<hooks, head, index, work, step, edits, staged, worked, touched>>

Clean == [edit |-> 0, formatted |-> TRUE, sound |-> TRUE]

Nothing == [f \in File |-> Absent]

HookInit ==
  /\ hooks = {} /\ step = "rest" /\ edits = 0 /\ touched = {}
  /\ head = [f \in File |-> Clean] /\ index = head /\ work = head
  /\ staged = Nothing /\ worked = Nothing

-----------------------------------------------------------------------------
HOOKS == {"pre-commit", "commit-msg"}

\* install(): skipped in CI and outside a repository, failed when husky is not
\* found or fails, or when a copy fails; the hooks are copied in this order.
Install ==
  /\ step = "rest"
  /\ hooks' \in {hooks, hooks \cup {"pre-commit"}, HOOKS}
  /\ UNCHANGED <<head, index, work, step, edits, staged, worked, touched>>

\* Someone edits a file, or deletes it.
Edit(f) ==
  /\ edits < MaxEdits /\ edits' = edits + 1
  /\ \E c \in Content \cup {Absent} :
       /\ c # Absent => c.edit = edits'
       /\ work' = [work EXCEPT ![f] = c]
  /\ touched' = IF step = "rest" THEN {} ELSE touched \cup {f}
  /\ UNCHANGED <<hooks, head, index, step, staged, worked>>

\* git add
Stage(f) ==
  /\ index[f] # work[f]
  /\ index' = [index EXCEPT ![f] = work[f]]
  /\ touched' = IF step = "rest" THEN {} ELSE touched \cup {f}
  /\ UNCHANGED <<hooks, head, work, step, edits, staged, worked>>

\* git commit: git runs the hooks that are in place.
CommitBegins ==
  /\ step = "rest" /\ index # head
  /\ step' = IF "pre-commit" \in hooks THEN "format" ELSE "message"
  /\ staged' = index /\ worked' = work
  /\ UNCHANGED <<hooks, head, index, work, edits, touched>>

\* git is done, with or without a commit.
Ends == step' = "rest" /\ staged' = Nothing /\ worked' = Nothing /\ touched' = {}

Format(c) == IF c = Absent THEN Absent ELSE [c EXCEPT !.formatted = TRUE]

\* The format step passes: every file is formatted.
Formats ==
  /\ step = "format"
  /\ work' = [f \in File |-> Format(work[f])]
  /\ step' = "restage"
  /\ UNCHANGED <<hooks, head, index, edits, staged, worked, touched>>

\* It fails on some file, others may be formatted by then.
FormatFails ==
  /\ step = "format"
  /\ \E S \in SUBSET File : work' = [f \in File |-> IF f \in S THEN Format(work[f]) ELSE work[f]]
  /\ Ends
  /\ UNCHANGED <<hooks, head, index, edits>>

\* Fault: every tracked file is staged.
RestagedAll == {f \in File : index[f] # Absent}

\* git update-index --again: the entries that differ from HEAD.
Restaged == {f \in File : index[f] # Absent /\ index[f] # head[f]}

Restages ==
  /\ step = "restage"
  /\ \A f \in Restaged : work[f] # Absent
  /\ index' = [f \in File |-> IF f \in Restaged THEN work[f] ELSE index[f]]
  /\ step' = "lint"
  /\ UNCHANGED <<hooks, head, work, edits, staged, worked, touched>>

\* It fails, as it does when a staged file is gone from the working tree.
RestageFails ==
  /\ step = "restage"
  /\ Ends
  /\ UNCHANGED <<hooks, head, index, work, edits>>

\* What biome check and tsc look at.
Passes(s) ==
  \A f \in File : work[f] # Absent => work[f].sound /\ (s = "lint" => work[f].formatted)

After(s) == CASE s = "lint" -> "typecheck" [] s = "typecheck" -> "audit" [] s = "audit" -> "message"

\* A step of runPreCommit passes; the audit looks at the registry alone.
StepPasses(s) ==
  /\ step = s
  /\ s \in {"lint", "typecheck"} => Passes(s)
  /\ step' = After(s)
  /\ UNCHANGED <<hooks, head, index, work, edits, staged, worked, touched>>

\* Fault: a step that fails is reported and the next one runs.
FailedGoesOn(s) == step' = After(s) /\ UNCHANGED <<staged, worked, touched>>

\* The first non-zero status is returned and git gives up.
Failed(s) == Ends

\* A step fails, or could not be started.
StepFails(s) ==
  /\ step = s
  /\ Failed(s)
  /\ UNCHANGED <<hooks, head, index, work, edits>>

\* What commit-msg tells apart: no path, no readable file, no subject, one that
\* git generated, a conventional one, one of work in progress, any other.
Message == {"noPath", "unreadable", "empty", "generated", "conventional", "wip", "other"}

runCommitMsg(m) ==
  CASE m = "noPath" -> 2 [] m \in {"generated", "conventional"} -> 0 [] OTHER -> 1

\* The message passes and git makes the commit.
Commits(m) ==
  /\ step = "message" /\ m # "empty"
  /\ "commit-msg" \in hooks => runCommitMsg(m) = 0
  /\ head' = index
  /\ Ends
  /\ UNCHANGED <<hooks, index, work, edits>>

MessageFails(m) ==
  /\ step = "message"
  /\ m = "empty" \/ ("commit-msg" \in hooks /\ runCommitMsg(m) # 0)
  /\ Ends
  /\ UNCHANGED <<hooks, head, index, work, edits>>

HookNext ==
  \/ Install \/ CommitBegins \/ Formats \/ FormatFails \/ Restages \/ RestageFails
  \/ \E f \in File : Edit(f) \/ Stage(f)
  \/ \E s \in {"lint", "typecheck", "audit"} : StepPasses(s) \/ StepFails(s)
  \/ \E m \in Message : Commits(m) \/ MessageFails(m)

HookSpec == HookInit /\ [][HookNext]_hookVars

-----------------------------------------------------------------------------
\* "The commit sees the fixed content rather than the pre-format version": what
\* a commit changes passed every step as it is committed, except files that
\* were edited or staged while the hook ran, whatever else was.
CommitIsChecked ==
  [][head' # head /\ "pre-commit" \in hooks =>
       \A f \in File \ touched :
         head'[f] \notin {head[f], Absent} => head'[f].formatted /\ head'[f].sound
    ]_hookVars

\* The hook commits what was staged, formatted, and nothing of a file that was
\* not: of a file that was staged in part, all of the working tree.
CommitsStaged ==
  [][head' # head /\ "pre-commit" \in hooks =>
       \A f \in File \ touched :
         head'[f] = IF staged[f] \in {head[f], Absent} THEN staged[f] ELSE Format(worked[f])
    ]_hookVars
-----------------------------------------------------------------------------
Tree == [File -> Content \cup {Absent}]

HookTypeOK ==
  /\ hooks \in SUBSET HOOKS /\ touched \in SUBSET File /\ edits \in 0 .. MaxEdits
  /\ head \in Tree /\ index \in Tree /\ work \in Tree /\ staged \in Tree /\ worked \in Tree
  /\ step \in {"rest", "format", "restage", "lint", "typecheck", "audit", "message"}

\* What the pre-commit hook commits of a file nobody touches meanwhile.
ToCommit(f) == IF staged[f] \in {head[f], Absent} THEN staged[f] ELSE Format(worked[f])

\* How far the pre-commit hook is with a file nobody touches meanwhile: as the
\* commit found it, formatted, staged again, checked.
HookOf(f) ==
  /\ step \in {"format", "restage"} => index[f] = staged[f]
  /\ step = "format" => work[f] = worked[f]
  /\ step \notin {"rest", "format"} => work[f] = Format(worked[f])
  /\ step \in {"lint", "typecheck", "audit", "message"} => index[f] = ToCommit(f)
  /\ step \in {"typecheck", "audit", "message"} /\ work[f] # Absent =>
       work[f].formatted /\ work[f].sound

\* The hook that is in place runs to its end before the message is checked.
HookInv ==
  /\ HookTypeOK
  /\ step = "rest" => touched = {}
  /\ step \notin {"rest", "message"} => "pre-commit" \in hooks
  /\ "pre-commit" \in hooks => \A f \in File \ touched : HookOf(f)
=============================================================================
