---------------------------- MODULE SelfIteration -----------------------------
(* The self_iteration_engine of each agent: an administrator's command runs it *)
(* on the thread of that agent's session, from the samples of recent           *)
(* conversations over the verdict and the plan of an external program to the   *)
(* edits of the workspace and a commit.  Agents have the same workspace and    *)
(* repository unless configured otherwise, and nothing is locked over a run.   *)
(* The rows and what the program says are any: both are in other hands.        *)
EXTENDS Naturals, Sequences, SequencesExt

CONSTANTS Engine,
          Convo,        \* conversations with rows in the database
          File,         \* paths a plan may name
          Editable,     \* is_editable_file(): those in the whitelist
          MaxRow,       \* bound: rows read (the code asks for 30)
          MinSamples,   \* k_min_samples
          MaxEdit,      \* bound: edits of a plan
          MaxRun,       \* bound: runs of all engines
          MaxFault      \* bound: writes that fail

ASSUME IterationAssumption ==
    /\ Editable \subseteq File
    /\ {MaxRow, MinSamples, MaxEdit, MaxRun, MaxFault} \subseteq Nat

\* A row of a user, of a user and without text, or of the assistant.
Row == [convo : Convo, role : {"user", "silent", "assistant"}]

\* The texts of a file: what was there, and the k-th text of a run.
Base == <<0, 0>>
Text == {Base} \cup ((1 .. MaxRun) \X (1 .. MaxEdit))

\* What an edit looks for or puts besides: nothing, and the marker for the end.
Nothing == <<0, 1>>
End == <<0, 2>>
Edit == [file : File, old : Text \cup {Nothing, End}, new : Text \cup {Nothing}]

VARIABLES
    pc,         \* "idle", "collect", "evaluate", "plan", "apply", "open",
                \* "write", "add", "config", "commit", "hash"
    run,        \* the number of the run an engine is in, or was last in
    dry,        \* it is a dry run
    read,       \* the rows it has read, oldest first
    plan,       \* edits still to be applied
    content,    \* what it is about to write
    count,      \* edits applied
    ws,         \* the files of the workspace
    index,      \* the files as they were last added
    head,       \* the files as they were last committed
    mine,       \* history: texts the run has put into each file and left there
    alone,      \* history: files nobody else has touched since the run began
    runs, faults

engineVars == <<pc, run, dry, read, plan, content, count>>
files == <<ws, index, head>>
histories == <<mine, alone>>
iterationVars == <<engineVars, files, histories, runs, faults>>

Untouched == [f \in File |-> <<Base>>]
NoTexts == [f \in File |-> {}]

IterationInit ==
    /\ pc = [e \in Engine |-> "idle"]
    /\ run = [e \in Engine |-> 0]
    /\ dry = [e \in Engine |-> FALSE]
    /\ read = [e \in Engine |-> <<>>]
    /\ plan = [e \in Engine |-> <<>>]
    /\ content = [e \in Engine |-> <<>>]
    /\ count = [e \in Engine |-> 0]
    /\ ws = Untouched
    /\ index = Untouched
    /\ head = Untouched
    /\ mine = [e \in Engine |-> NoTexts]
    /\ alone = [e \in Engine |-> {}]
    /\ runs = 0
    /\ faults = 0

At(e, l) == pc[e] = l
Goto(e, l) == pc' = [pc EXCEPT ![e] = l]
-------------------------------------------------------------------------------
(* Collecting: query_recent_messages() and pair_exchanges().                   *)

\* Mutant of Answers: the conversation is not looked at.
AnswersAny(s, i, j) == i # 0 /\ s[j].role = "assistant"

\* Row j is taken for the answer to row i, the question in the one pending slot.
Answers(s, i, j) ==
    i # 0 /\ s[j].role = "assistant" /\ s[i].convo = s[j].convo

\* What a row does to the pending slot and the samples so far.
Take(s, j, acc) ==
    IF s[j].role = "user" THEN [acc EXCEPT !.pending = j]
    ELSE IF s[j].role = "silent" THEN [acc EXCEPT !.pending = 0]
    ELSE IF Answers(s, acc.pending, j)
         THEN [pending |-> 0, pairs |-> Append(acc.pairs, <<acc.pending, j>>)]
    ELSE acc

\* One pass over the rows, of all conversations as they come.
Pass(s) ==
    LET upTo[j \in 0 .. Len(s)] ==
          IF j = 0 THEN [pending |-> 0, pairs |-> <<>>] ELSE Take(s, j, upTo[j - 1])
    IN  upTo

Samples(s) == Pass(s)[Len(s)].pairs

\* The command: run() or dry_run().
Start(e) ==
    /\ At(e, "idle")
    /\ runs < MaxRun
    /\ runs' = runs + 1
    /\ run' = [run EXCEPT ![e] = runs']
    /\ \E d \in BOOLEAN : dry' = [dry EXCEPT ![e] = d]
    /\ mine' = [mine EXCEPT ![e] = NoTexts]
    /\ alone' = [alone EXCEPT ![e] = File]
    /\ Goto(e, "collect")
    /\ UNCHANGED <<read, plan, content, count, files, faults>>

Collect(e) ==
    /\ At(e, "collect")
    /\ \E s \in SeqOf(Row, MaxRow) :
          IF Len(Samples(s)) < MinSamples
          THEN Goto(e, "idle") /\ UNCHANGED read
          ELSE Goto(e, "evaluate") /\ read' = [read EXCEPT ![e] = s]
    /\ UNCHANGED <<run, dry, plan, content, count, files, histories,
                   runs, faults>>
-------------------------------------------------------------------------------
(* The verdict and the plan of `claude -p`.                                    *)

\* Four scores and a concern; without an answer, or without an answer that can be
\* read, all scores are zero.
Verdict == {"good", "poor", "unsafe", "none"}

ShouldImprove(v) == v # "good"

\* An answer of an unexpected shape throws, which ends the run.
Evaluate(e) ==
    /\ At(e, "evaluate")
    /\ \/ Goto(e, "idle")
       \/ \E v \in Verdict :
             Goto(e, IF ShouldImprove(v) /\ ~ dry[e] THEN "plan" ELSE "idle")
    /\ read' = [read EXCEPT ![e] = <<>>]
    /\ dry' = [dry EXCEPT ![e] = FALSE]
    /\ UNCHANGED <<run, plan, content, count, files, histories,
                   runs, faults>>

Whitelisted(d) == d.file \in Editable

\* The edits of an answer that are allowed, as the parser gathers them.
Allowed(p) ==
    LET upTo[k \in 0 .. Len(p)] ==
          IF k = 0 THEN <<>>
          ELSE IF Whitelisted(p[k]) THEN Append(upTo[k - 1], p[k])
          ELSE upTo[k - 1]
    IN  upTo[Len(p)]

\* The edits a program may propose; the k-th puts the k-th text of the run, or none.
Proposals(e) ==
    {p \in SeqOf(Edit, MaxEdit) :
        \A k \in DOMAIN p : p[k].new \in {<<run[e], k>>, Nothing}}

\* No plan, none that can be read, or one with nothing allowed in it ends the run.
Plan(e) ==
    /\ At(e, "plan")
    /\ \E p \in Proposals(e) : plan' = [plan EXCEPT ![e] = Allowed(p)]
    /\ Goto(e, IF plan'[e] = <<>> THEN "idle" ELSE "apply")
    /\ UNCHANGED <<run, dry, read, content, count, files, histories, runs, faults>>
-------------------------------------------------------------------------------
(* apply_improvements().                                                       *)

Current(e) == Head(plan[e])

\* An edit without a new text deletes.
Put(d) == IF d.new = Nothing THEN <<>> ELSE <<d.new>>

\* Where a text is found first.
Place(c, t) == CHOOSE i \in DOMAIN c : c[i] = t /\ \A j \in 1 .. i - 1 : c[j] # t

\* Mutant of Edited: what stood before the place of the edit is lost.
EditedFrom(c, d) ==
    IF d.old = End THEN Put(d)
    ELSE IF d.old = Nothing THEN Put(d) \o c
    ELSE Put(d) \o SubSeq(c, Place(c, d.old) + 1, Len(c))

\* Nothing is found at the beginning of every file.
Edited(c, d) ==
    IF d.old = End THEN c \o Put(d)
    ELSE IF d.old = Nothing THEN Put(d) \o c
    ELSE LET i == Place(c, d.old)
         IN  SubSeq(c, 1, i - 1) \o Put(d) \o SubSeq(c, i + 1, Len(c))

Applicable(c, d) == d.old \in {End, Nothing} \cup Range(c)

Drop(e) == plan' = [plan EXCEPT ![e] = Tail(@)]

\* The text to be replaced is not in the file.
Skip(e) ==
    /\ At(e, "apply")
    /\ plan[e] # <<>>
    /\ ~ Applicable(ws[Current(e).file], Current(e))
    /\ Drop(e)
    /\ UNCHANGED <<pc, run, dry, read, content, count, files, histories,
                   runs, faults>>

\* The file as it is now is read into memory and changed there.
ReadFile(e) ==
    /\ At(e, "apply")
    /\ plan[e] # <<>>
    /\ LET d == Current(e) IN
          /\ Applicable(ws[d.file], d)
          /\ content' = [content EXCEPT ![e] = Edited(ws[d.file], d)]
    /\ Goto(e, "open")
    /\ UNCHANGED <<run, dry, read, plan, count, files, histories, runs, faults>>

\* It cannot be read, which is taken for an empty file.
ReadFails(e) ==
    /\ At(e, "apply")
    /\ plan[e] # <<>>
    /\ Applicable(<<>>, Current(e))
    /\ faults < MaxFault
    /\ faults' = faults + 1
    /\ content' = [content EXCEPT ![e] = Edited(<<>>, Current(e))]
    /\ alone' = [alone EXCEPT ![e] = @ \ {Current(e).file}]
    /\ Goto(e, "open")
    /\ UNCHANGED <<run, dry, read, plan, count, files, mine, runs>>

\* For everybody else's run the file is no longer as they left it.
Touched(E, f) == [o \in Engine |-> IF o \in E THEN alone[o] \ {f} ELSE alone[o]]

\* The ofstream: opening it empties the file.
OpenFile(e) ==
    /\ At(e, "open")
    /\ LET f == Current(e).file IN
          /\ ws' = [ws EXCEPT ![f] = <<>>]
          /\ alone' = Touched(Engine \ {e}, f)
    /\ Goto(e, "write")
    /\ UNCHANGED <<run, dry, read, plan, content, count, index, head, mine,
                   runs, faults>>

\* What is written from the beginning of a file that may have grown meanwhile.
Over(c, d) == c \o SubSeq(d, Len(c) + 1, Len(d))

Written(e) ==
    /\ Drop(e)
    /\ content' = [content EXCEPT ![e] = <<>>]
    /\ Goto(e, "apply")

\* Mutant of Failed: the edit is tried again, although it may have been counted.
FailedAgain(e) ==
    /\ UNCHANGED plan
    /\ content' = [content EXCEPT ![e] = <<>>]
    /\ Goto(e, "apply")

\* A failure is not told from a success: the next edit follows.
Failed(e) == Written(e)

WriteFile(e) ==
    /\ At(e, "write")
    /\ LET d == Current(e) IN
          /\ ws' = [ws EXCEPT ![d.file] = Over(content[e], @)]
          /\ mine' = [mine EXCEPT ![e][d.file] = (@ \ {d.old}) \cup Range(Put(d))]
          /\ alone' = Touched(Engine \ {e}, d.file)
    /\ count' = [count EXCEPT ![e] = @ + 1]
    /\ Written(e)
    /\ UNCHANGED <<run, dry, read, index, head, runs, faults>>

\* The file cannot be opened, or the disk is full: what is in the stream's buffer
\* is written, and fails, only after the stream has been asked whether it is good.
WriteFails(e) ==
    /\ pc[e] \in {"open", "write"}
    /\ faults < MaxFault
    /\ faults' = faults + 1
    /\ \/ UNCHANGED count
       \/ At(e, "write") /\ count' = [count EXCEPT ![e] = @ + 1]
    /\ alone' = IF At(e, "write") THEN Touched(Engine, Current(e).file) ELSE alone
    /\ Failed(e)
    /\ UNCHANGED <<run, dry, read, files, mine, runs>>

\* A plan without a summary is not committed.
Applied(e) ==
    /\ At(e, "apply")
    /\ plan[e] = <<>>
    /\ \/ Goto(e, "idle")
       \/ count[e] > 0 /\ Goto(e, "add")
    /\ count' = [count EXCEPT ![e] = 0]
    /\ UNCHANGED <<run, dry, read, plan, content, files, histories, runs, faults>>
-------------------------------------------------------------------------------
(* commit_changes(): add the workspace, add the configuration, commit, and the *)
(* hash of what is then at the head.  Nothing is done about a command that     *)
(* fails.                                                                      *)

GitAdd(e) ==
    /\ At(e, "add")
    /\ index' = ws
    /\ Goto(e, "config")
    /\ UNCHANGED <<run, dry, read, plan, content, count, ws, head, histories,
                   runs, faults>>

\* bot_config.json, which is in no workspace: whether it works or fails, it
\* changes none of the files looked at here.
GitAddConfig(e) ==
    /\ At(e, "config")
    /\ Goto(e, "commit")
    /\ UNCHANGED <<run, dry, read, plan, content, count, files, histories, runs,
                   faults>>

GitCommit(e) ==
    /\ At(e, "commit")
    /\ head' = index
    /\ Goto(e, "hash")
    /\ UNCHANGED <<run, dry, read, plan, content, count, ws, index, histories,
                   runs, faults>>

GitHash(e) ==
    /\ At(e, "hash")
    /\ Goto(e, "idle")
    /\ mine' = [mine EXCEPT ![e] = NoTexts]
    /\ alone' = [alone EXCEPT ![e] = {}]
    /\ UNCHANGED <<run, dry, read, plan, content, count, files, runs, faults>>

\* The repository is locked, git is not there, or it takes too long.
GitFails(e) ==
    /\ pc[e] \in {"add", "commit"}
    /\ Goto(e, IF At(e, "add") THEN "config" ELSE "hash")
    /\ alone' = [alone EXCEPT ![e] = {}]
    /\ UNCHANGED <<run, dry, read, plan, content, count, files, mine, runs,
                   faults>>
-------------------------------------------------------------------------------
Step(e) ==
    \/ Collect(e) \/ Evaluate(e) \/ Plan(e)
    \/ Skip(e) \/ ReadFile(e) \/ ReadFails(e) \/ OpenFile(e) \/ WriteFile(e)
    \/ WriteFails(e) \/ Applied(e)
    \/ GitAdd(e) \/ GitAddConfig(e) \/ GitCommit(e) \/ GitFails(e) \/ GitHash(e)

IterationNext == \E e \in Engine : Start(e) \/ Step(e)

IterationSpec == IterationInit /\ [][IterationNext]_iterationVars
-------------------------------------------------------------------------------
\* Types, no edit of a plan counted twice, and a file being written only for an edit
\* (self_iteration.h:57-75, 140-160; self_iteration.cpp:525-561).
IterationTypeOK ==
    /\ pc \in [Engine -> {"idle", "collect", "evaluate", "plan", "apply", "open",
                          "write", "add", "config", "commit", "hash"}]
    /\ run \in [Engine -> 0 .. MaxRun]
    /\ dry \in [Engine -> BOOLEAN]
    /\ read \in [Engine -> Seq(Row)]
    /\ plan \in [Engine -> Seq(Edit)]
    /\ content \in [Engine -> Seq(Text)]
    /\ count \in [Engine -> 0 .. MaxEdit]
    /\ {ws, index, head} \subseteq [File -> Seq(Text)]
    /\ mine \in [Engine -> [File -> SUBSET Text]]
    /\ alone \in [Engine -> SUBSET File]
    /\ runs \in 0 .. MaxRun
    /\ faults \in 0 .. MaxFault
    /\ \A e \in Engine : pc[e] \in {"open", "write"} => plan[e] # <<>>

\* A sample is a question and the row of the same conversation that follows it
\* immediately there, however the rows of other conversations fall between, and
\* wherever the limit cuts (self_iteration.cpp:138-140).
SamplesAreExchanges ==
    \A e \in Engine : At(e, "evaluate") =>
        LET s == read[e]
            Between(i, j) == {k \in i + 1 .. j - 1 : s[k].convo = s[i].convo}
        IN  \A p \in Range(Samples(s)) :
               /\ s[p[1]].role = "user" /\ s[p[2]].role = "assistant"
               /\ s[p[1]].convo = s[p[2]].convo
               /\ p[1] < p[2] /\ Between(p[1], p[2]) = {}

\* Files outside the whitelist stay as they were.
Confined == \A f \in File \ Editable : ws[f] = <<Base>>

\* What a run has put into a file is there until it replaces it itself.
Kept ==
    \A e \in Engine : \A f \in alone[e] :
        \/ pc[e] = "idle" \/ (At(e, "write") /\ Current(e).file = f)
        \/ mine[e][f] \subseteq Range(ws[f])

\* What it reports as its commit contains it.
Carried ==
    \A e \in Engine : At(e, "hash") =>
        \A f \in alone[e] : mine[e][f] \subseteq Range(head[f])

\* Edits are confined to the whitelist, and none of a run is lost on the way to
\* its commit, by its own later edits or by the commands of a run next to it, in
\* files no other engine has written and no write has failed in
\* (self_iteration.cpp:32-40, 515-600).
EditsKept == Confined /\ Kept /\ Carried
===============================================================================
