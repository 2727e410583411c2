------------------------------- MODULE Backfill -------------------------------
(***************************************************************************)
(* The script that gives older contents their chains of ancestors.         *)
(*                                                                         *)
(* It reads all questions and answers of Mongo into memory, walks from     *)
(* each question along the old links to parents, which nothing keeps from  *)
(* being broken or from going in circles, and writes the chains batch by   *)
(* batch; then it does the same for answers, from the chains of their      *)
(* questions.  It may die in between, and is run again.                    *)
(***************************************************************************)
EXTENDS Naturals, Sequences, FiniteSets

CONSTANTS
    OldQuestions, OldAnswers,
    Missing,            \* an id that nothing has
    NoLink,
    MaxDepth            \* the script's bound on the length of a chain

OldContents == OldQuestions \union OldAnswers

ASSUME BackfillAssumption ==
    /\ OldQuestions \intersect OldAnswers = {} /\ {Missing, NoLink} \intersect OldContents = {}
    /\ Missing # NoLink
    /\ MaxDepth \in Nat \ {0}

VARIABLES
    link,       \* the old link: parentContentId of a question, the question of an answer
    chain,      \* what is stored: ancestors, from the parent up, at depths 0, 1, ...
    head,       \* head[q]: the stored parent of question q
    stage,      \* of the script
    cached,     \* the chains of questions that it read for the answers
    todo,       \* contents still to write
    runs        \* how often it was started, up to twice

backfillVars == <<link, chain, head, stage, cached, todo, runs>>

LinkEnds == OldContents \union {Missing, NoLink}
Links == [q \in OldContents |->
             IF q \in OldQuestions THEN LinkEnds
                                   ELSE OldQuestions \union {Missing}]

\* Old contents have no chain; the chain of a question without a parent is empty too.
BackfillInit ==
    /\ link \in {l \in [OldContents -> LinkEnds] :
                    \A c \in OldContents : l[c] \in Links[c]}
    /\ chain = [c \in OldContents |-> <<>>]
    /\ head = [q \in OldQuestions |-> NoLink]
    /\ stage = "idle" /\ cached = chain /\ todo = {} /\ runs = 0

-----------------------------------------------------------------------------
\* Mutant: only the content that is asked for is remembered as visited.
MutantForgetsVisited(c, visited) == {}
Visit(c, visited) == visited \union {c}

\* The question of an answer is not looked up; the parent of a question is.
NextParent(c) ==
    IF c \in OldAnswers \/ (c \in OldQuestions /\ link[c] \in OldContents) THEN link[c]
    ELSE NoLink

\* computeAncestors, as a function of the content to add, what was visited, and the depth.
Rungs == [content : LinkEnds, visited : SUBSET LinkEnds, depth : 0..MaxDepth]

Climb[at \in Rungs] ==
    LET c == at.content
    IN IF c = NoLink \/ at.depth >= MaxDepth \/ c \in at.visited THEN <<>>
       ELSE <<c>> \o Climb[[content |-> NextParent(c), visited |-> Visit(c, at.visited),
                            depth |-> at.depth + 1]]

ComputeAncestors(q) == Climb[[content |-> link[q], visited |-> {q}, depth |-> 0]]

StartBackfill ==
    /\ stage = "idle" /\ runs < 2
    /\ stage' = "questions" /\ runs' = runs + 1
    /\ todo' = {q \in OldQuestions : link[q] # NoLink \/ chain[q] = <<>>}
    /\ UNCHANGED <<link, chain, head, cached>>

WriteQuestion(q) ==
    LET ancestors == ComputeAncestors(q)
    IN /\ stage = "questions" /\ q \in todo
       /\ todo' = todo \ {q}
       /\ chain' = [chain EXCEPT ![q] = ancestors]
       /\ head' = [head EXCEPT ![q] = IF ancestors = <<>> THEN @ ELSE ancestors[1]]
       /\ UNCHANGED <<link, stage, cached, runs>>

ReadAgain ==
    /\ stage = "questions" /\ todo = {}
    /\ stage' = "answers" /\ todo' = OldAnswers /\ cached' = chain
    /\ UNCHANGED <<link, chain, head, runs>>

\* The chain of an answer begins with the answer, and leaves out its question when that
\* has a chain.
AnswerChain(a) ==
    <<a>> \o (IF link[a] \notin OldQuestions THEN <<>>
              ELSE IF cached[link[a]] # <<>> THEN cached[link[a]] ELSE <<link[a]>>)

WriteAnswer(a) ==
    /\ stage = "answers" /\ a \in todo
    /\ todo' = todo \ {a}
    /\ chain' = [chain EXCEPT ![a] = AnswerChain(a)]
    /\ UNCHANGED <<link, head, stage, cached, runs>>

EndBackfill ==
    /\ stage = "answers" /\ todo = {}
    /\ stage' = "done"
    /\ UNCHANGED <<link, chain, head, cached, todo, runs>>

\* A query fails: what was written stays.  Or it is simply run once more.
RunAgain ==
    /\ stage # "idle" /\ runs < 2
    /\ stage' = "idle" /\ todo' = {}
    /\ UNCHANGED <<link, chain, head, cached, runs>>

BackfillNext ==
    \/ StartBackfill \/ ReadAgain \/ EndBackfill \/ RunAgain
    \/ \E q \in OldQuestions : WriteQuestion(q)
    \/ \E a \in OldAnswers : WriteAnswer(a)

BackfillSpec == BackfillInit /\ [][BackfillNext]_backfillVars

-----------------------------------------------------------------------------
Chains == UNION {[1..n -> OldContents \union {Missing}] : n \in 0..MaxDepth + 1}

BackfillTypeOK ==
    /\ link \in [OldContents -> LinkEnds] /\ \A c \in OldContents : link[c] \in Links[c]
    /\ {chain, cached} \subseteq [OldContents -> Chains]
    /\ head \in [OldQuestions -> LinkEnds]
    /\ stage \in {"idle", "questions", "answers", "done"}
    /\ todo \subseteq OldContents
    /\ runs \in 0..2

\* s goes from the parent of q from parent to parent, and nobody is on it twice.
IsPath(s, q) ==
    /\ s # <<>> => s[1] = link[q]
    /\ \A k \in 1..Len(s) - 1 : s[k] \in OldContents /\ s[k + 1] = link[s[k]]
    /\ \A k, l \in 1..Len(s) : s[k] = s[l] => k = l
    /\ \A k \in 1..Len(s) : s[k] # q

\* It cannot go on: there is no parent, it is unknown or on the path, or that is too long.
IsWhole(s, q) ==
    LET last == IF s = <<>> THEN q ELSE s[Len(s)]
    IN \/ last = Missing \/ link[last] \in {NoLink, q} \union {s[k] : k \in 1..Len(s)}
       \/ link[last] = Missing /\ last \in OldQuestions \ {q}
       \/ Len(s) = MaxDepth

\* Once the script is done every question has its whole chain and its head agrees, although
\* links may be broken or go in circles and an earlier run may have ended half way.  The
\* chain of an answer holds the chain of its question.
BackfillBuildsChains ==
    stage = "done" =>
        /\ \A q \in OldQuestions :
              /\ IsPath(chain[q], q) /\ IsWhole(chain[q], q)
              /\ chain[q] # <<>> => head[q] = chain[q][1]
        /\ \A a \in OldAnswers : link[a] \in OldQuestions =>
              \A k \in 1..Len(chain[link[a]]) : chain[a][k + 1] = chain[link[a]][k]
=============================================================================
