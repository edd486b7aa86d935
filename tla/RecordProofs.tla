---------------------------- MODULE RecordProofs ----------------------------
(***************************************************************************)
(* Theorems about the three records the process keeps on disk besides the  *)
(* task itself: the children of a finished research, the preferences of a  *)
(* shopper, and the files of a task.  They share no state; a theorem is    *)
(* about the specification it names.                                       *)
(***************************************************************************)
EXTENDS ResearchLineage, PreferenceStore, TaskFiles, FiniteSetTheorems, TLAPS

-----------------------------------------------------------------------------
(* ResearchLineage: a key has one child, in parts *)

\* A child has been started for key k, whether or not it is still there.
StartedFor(c, k) == childKey[c] = k \/ deleted[c] = k

\* Children are deleted once and never started again.
LivesOnce == \A c \in Children : childKey[c] = "none" \/ deleted[c] = "none"

\* As long as the parent exists its lock has one file, and one worker at a time is between
\* its lock and its answer.
OneCommand ==
    ~parentGone =>
        /\ \A w \in LineageWorkers : ~command[w].oldFile
        /\ \A v, w \in LineageWorkers : HoldsCommandLock(v) /\ HoldsCommandLock(w) => v = w

\* Whoever is about to start a child has seen that there is none.
StartsOnlyIfNone ==
    ~parentGone =>
        \A w \in LineageWorkers : command[w].pc = "start" =>
            /\ command[w].key \in CommandKeys
            /\ \A c \in Children : childKey[c] # command[w].key

AtMostOneChild ==
    ~parentGone =>
        \A c, d \in Children : childKey[c] = childKey[d] /\ childKey[c] # "none" => c = d

\* What is or will be answered to a key was started for it.
AnswersStarted ==
    /\ \A k \in CommandKeys : \A c \in answers[k] : StartedFor(c, k)
    /\ \A w \in LineageWorkers : command[w].pc = "answer" =>
            command[w].child \in Children /\ StartedFor(command[w].child, command[w].key)
    /\ \A w \in LineageWorkers : command[w].pc # "idle" => command[w].key \in CommandKeys

LineageInv ==
    /\ LineageTypeOK /\ LivesOnce /\ OneCommand /\ StartsOnlyIfNone /\ AtMostOneChild
    /\ AnswersStarted

-----------------------------------------------------------------------------
(* What a step of one worker does to the table of commands *)

Commands == [pc : {"idle", "lock", "scan", "start", "answer"}, key : CommandKeys \cup {"none"},
             child : Children \cup {"none"}, oldFile : BOOLEAN]

LEMMA IdleIsACommand == NoCommand \in Commands /\ NoCommand.pc = "idle" /\ ~NoCommand.oldFile
BY DEF NoCommand, Commands

\* Replacing the command of w by a command r leaves the others alone.
LEMMA CommandSet ==
    ASSUME command \in [LineageWorkers -> Commands], NEW w \in LineageWorkers,
           NEW r \in Commands, command' = [command EXCEPT ![w] = r]
    PROVE  /\ command' \in [LineageWorkers -> Commands] /\ command'[w] = r
           /\ \A v \in LineageWorkers \ {w} : command'[v] = command[v]
OBVIOUS

\* So does moving it on.
LEMMA CommandMoved ==
    ASSUME command \in [LineageWorkers -> Commands], NEW w \in LineageWorkers,
           NEW pc \in {"idle", "lock", "scan", "start", "answer"}, CommandGoes(w, pc)
    PROVE  /\ command' \in [LineageWorkers -> Commands]
           /\ command'[w].pc = pc /\ command'[w].key = command[w].key
           /\ command'[w].child = command[w].child
           /\ command'[w].oldFile = command[w].oldFile
           /\ \A v \in LineageWorkers \ {w} : command'[v] = command[v]
BY DEF CommandGoes, Commands

\* The commands of a typed state.
LEMMA TypedCommands == LineageTypeOK => command \in [LineageWorkers -> Commands]
BY DEF LineageTypeOK, Commands

-----------------------------------------------------------------------------
(* Each step keeps the invariant *)

LEMMA OpenKeeps ==
    ASSUME LineageInv, NEW w \in LineageWorkers, NEW k \in CommandKeys, Open(w, k)
    PROVE  LineageInv'
<1>1. /\ LineageTypeOK /\ LivesOnce /\ OneCommand /\ StartsOnlyIfNone
      /\ AtMostOneChild /\ AnswersStarted
    BY DEF LineageInv
<1>2. command \in [LineageWorkers -> Commands]
    BY <1>1, TypedCommands
<1>3. /\ command'[w].pc = "lock" /\ command'[w].key = k /\ ~command'[w].oldFile
      /\ command' \in [LineageWorkers -> Commands]
      /\ \A v \in LineageWorkers \ {w} : command'[v] = command[v]
    <2> DEFINE r == [pc |-> "lock", key |-> k, child |-> "none", oldFile |-> FALSE]
    <2>1. r \in Commands
        BY DEF Commands
    <2> QED  BY <1>2, <2>1, CommandSet DEF Open
<1>4. UNCHANGED <<childKey, deleted, parentGone, known, stale, answers, lineageCrashes>>
    BY DEF Open
<1>5. LineageTypeOK'
    BY <1>1, <1>3, <1>4 DEF LineageTypeOK, Commands
<1>6. LivesOnce'
    BY <1>1, <1>3, <1>4 DEF LivesOnce
<1>7. OneCommand'
    BY <1>1, <1>3, <1>4 DEF OneCommand, HoldsCommandLock
<1>8. StartsOnlyIfNone'
    BY <1>1, <1>3, <1>4 DEF StartsOnlyIfNone, LineageTypeOK
<1>9. AtMostOneChild'
    BY <1>1, <1>3, <1>4 DEF AtMostOneChild
<1>10. AnswersStarted'
    BY <1>1, <1>3, <1>4 DEF AnswersStarted, StartedFor, LineageTypeOK
<1> QED  BY <1>5, <1>6, <1>7, <1>8, <1>9, <1>10 DEF LineageInv

LEMMA TakeLockKeeps ==
    ASSUME LineageInv, NEW w \in LineageWorkers, TakeLock(w)
    PROVE  LineageInv'
<1>1. /\ LineageTypeOK /\ LivesOnce /\ OneCommand /\ StartsOnlyIfNone
      /\ AtMostOneChild /\ AnswersStarted
    BY DEF LineageInv
<1>2. command \in [LineageWorkers -> Commands]
    BY <1>1, TypedCommands
<1>3. /\ command[w].pc = "lock"
      /\ command'[w].pc = "scan" /\ command'[w].key = command[w].key
      /\ command'[w].oldFile = command[w].oldFile
      /\ command' \in [LineageWorkers -> Commands]
      /\ \A v \in LineageWorkers \ {w} : command'[v] = command[v]
    BY <1>2, CommandMoved DEF TakeLock
<1>4. UNCHANGED <<childKey, deleted, parentGone, known, stale, answers, lineageCrashes>>
    BY DEF TakeLock
<1>5. LineageTypeOK'
    BY <1>1, <1>3, <1>4 DEF LineageTypeOK, Commands
<1>6. LivesOnce'
    BY <1>1, <1>3, <1>4 DEF LivesOnce
<1>7. OneCommand'
    <2>1. ASSUME ~parentGone, NEW v \in LineageWorkers \ {w}
          PROVE  ~HoldsCommandLock(v)
        BY <1>1, <2>1 DEF TakeLock, CommandLockFree, OneCommand, LineageTypeOK
    <2> QED  BY <1>1, <1>3, <1>4, <2>1 DEF OneCommand, HoldsCommandLock
<1>8. StartsOnlyIfNone'
    BY <1>1, <1>3, <1>4 DEF StartsOnlyIfNone, LineageTypeOK
<1>9. AtMostOneChild'
    BY <1>1, <1>3, <1>4 DEF AtMostOneChild
<1>10. AnswersStarted'
    BY <1>1, <1>3, <1>4 DEF AnswersStarted, StartedFor, LineageTypeOK
<1> QED  BY <1>5, <1>6, <1>7, <1>8, <1>9, <1>10 DEF LineageInv

\* An answer names a child that was started for the key.
LEMMA AnswersKeeps ==
    ASSUME LineageInv, NEW w \in LineageWorkers, NEW c \in Children,
           command[w].key \in CommandKeys, StartedFor(c, command[w].key), Answers(w, c),
           UNCHANGED <<childKey, deleted, parentGone, known, stale, lineageCrashes>>
    PROVE  LineageInv'
<1>1. /\ LineageTypeOK /\ LivesOnce /\ OneCommand /\ StartsOnlyIfNone
      /\ AtMostOneChild /\ AnswersStarted
    BY DEF LineageInv
<1>2. command \in [LineageWorkers -> Commands]
    BY <1>1, TypedCommands
<1>3. /\ command'[w] = NoCommand /\ command' \in [LineageWorkers -> Commands]
      /\ \A v \in LineageWorkers \ {w} : command'[v] = command[v]
    BY <1>2, IdleIsACommand, CommandSet DEF Answers
<1>4. /\ answers' \in [CommandKeys -> SUBSET Children]
      /\ \A k \in CommandKeys : \A d \in answers'[k] : StartedFor(d, k)
    BY <1>1 DEF Answers, AnswersStarted, LineageTypeOK
<1>5. LineageTypeOK'
    BY <1>1, <1>3, <1>4 DEF LineageTypeOK, Commands
<1>6. LivesOnce' /\ AtMostOneChild'
    BY <1>1 DEF LivesOnce, AtMostOneChild
<1>7. OneCommand'
    BY <1>1, <1>3, IdleIsACommand DEF OneCommand, HoldsCommandLock
<1>8. StartsOnlyIfNone'
    BY <1>1, <1>3, IdleIsACommand DEF StartsOnlyIfNone
<1>9. AnswersStarted'
    BY <1>1, <1>3, <1>4, IdleIsACommand DEF AnswersStarted, StartedFor
<1> QED  BY <1>5, <1>6, <1>7, <1>8, <1>9 DEF LineageInv

LEMMA ScanKeeps ==
    ASSUME LineageInv, NEW w \in LineageWorkers, Scan(w)
    PROVE  LineageInv'
<1>1. /\ LineageTypeOK /\ LivesOnce /\ OneCommand /\ StartsOnlyIfNone
      /\ AtMostOneChild /\ AnswersStarted
    BY DEF LineageInv
<1>2. command \in [LineageWorkers -> Commands]
    BY <1>1, TypedCommands
<1>3. /\ command[w].pc = "scan" /\ command[w].key \in CommandKeys
      /\ UNCHANGED <<childKey, deleted, parentGone, known, stale, lineageCrashes>>
    BY <1>1 DEF Scan, AnswersStarted
<1>4. ASSUME NEW c \in Existing(w, command[w].key), Answers(w, c)
      PROVE  LineageInv'
    <2>1. c \in Children /\ StartedFor(c, command[w].key)
        BY <1>1, <1>4 DEF Existing, History, StartedFor, LineageTypeOK
    <2> QED  BY <1>3, <1>4, <2>1, AnswersKeeps
<1>5. CASE Existing(w, command[w].key) = {} /\ CommandGoes(w, "start") /\ UNCHANGED answers
    <2>1. /\ command'[w].pc = "start" /\ command'[w].key = command[w].key
          /\ command'[w].oldFile = command[w].oldFile
          /\ command' \in [LineageWorkers -> Commands]
          /\ \A v \in LineageWorkers \ {w} : command'[v] = command[v]
        BY <1>2, <1>5, CommandMoved
    <2>2. \A c \in Children : childKey[c] # command[w].key
        BY <1>3, <1>5, LineageConstantsOK DEF Existing, History
    <2>3. LineageTypeOK'
        BY <1>1, <1>3, <1>5, <2>1 DEF LineageTypeOK, Commands
    <2>4. LivesOnce' /\ AtMostOneChild'
        BY <1>1, <1>3 DEF LivesOnce, AtMostOneChild
    <2>5. OneCommand'
        BY <1>1, <1>3, <2>1 DEF OneCommand, HoldsCommandLock
    <2>6. StartsOnlyIfNone'
        BY <1>1, <1>3, <2>1, <2>2 DEF StartsOnlyIfNone
    <2>7. AnswersStarted'
        BY <1>1, <1>3, <1>5, <2>1 DEF AnswersStarted, StartedFor
    <2> QED  BY <2>3, <2>4, <2>5, <2>6, <2>7 DEF LineageInv
<1> QED  BY <1>4, <1>5 DEF Scan

LEMMA StartChildKeeps ==
    ASSUME LineageInv, NEW w \in LineageWorkers, StartChild(w)
    PROVE  LineageInv'
<1>1. /\ LineageTypeOK /\ LivesOnce /\ OneCommand /\ StartsOnlyIfNone
      /\ AtMostOneChild /\ AnswersStarted
    BY DEF LineageInv
<1>2. command \in [LineageWorkers -> Commands]
    BY <1>1, TypedCommands
<1>3. /\ command[w].pc = "start" /\ command[w].key \in CommandKeys
      /\ UNCHANGED <<deleted, parentGone, stale, answers, lineageCrashes>>
    BY <1>1 DEF StartChild, AnswersStarted
<1>4. ASSUME NEW c \in Unused,
             childKey' = [childKey EXCEPT ![c] = command[w].key],
             known' = [known EXCEPT ![w] = @ \cup {c}],
             command' = [command EXCEPT ![w].pc = "answer", ![w].child = c]
      PROVE  LineageInv'
    <2>1. c \in Children /\ childKey[c] = "none" /\ deleted[c] = "none"
        BY <1>4 DEF Unused
    <2>2. /\ command'[w].pc = "answer" /\ command'[w].key = command[w].key
          /\ command'[w].child = c /\ command'[w].oldFile = command[w].oldFile
          /\ command' \in [LineageWorkers -> Commands]
          /\ \A v \in LineageWorkers \ {w} : command'[v] = command[v]
        BY <1>2, <1>4, <2>1 DEF Commands
    <2>3. /\ childKey'[c] = command[w].key
          /\ \A d \in Children \ {c} : childKey'[d] = childKey[d]
        BY <1>1, <1>4, <2>1 DEF LineageTypeOK
    <2>4. LineageTypeOK'
        BY <1>1, <1>3, <1>4, <2>1, <2>2 DEF LineageTypeOK, Commands
    <2>5. LivesOnce'
        BY <1>1, <1>3, <2>1, <2>3 DEF LivesOnce
    <2>6. OneCommand'
        BY <1>1, <1>3, <2>2 DEF OneCommand, HoldsCommandLock
    <2>7. StartsOnlyIfNone'
        BY <1>1, <1>3, <2>2 DEF StartsOnlyIfNone, OneCommand, HoldsCommandLock
    <2>8. AtMostOneChild'
        BY <1>1, <1>3, <2>3 DEF AtMostOneChild, StartsOnlyIfNone
    <2>9. AnswersStarted'
        <3>1. \A d \in Children, k \in CommandKeys : StartedFor(d, k) => StartedFor(d, k)'
            BY <1>3, <2>1, <2>3, LineageConstantsOK DEF StartedFor
        <3>2. StartedFor(c, command[w].key)'
            BY <1>3, <2>2, <2>3 DEF StartedFor
        <3>3. \A k \in CommandKeys : answers[k] \subseteq Children
            BY <1>1 DEF LineageTypeOK
        <3>4. \A k \in CommandKeys : \A d \in answers'[k] : StartedFor(d, k)'
            BY <1>1, <1>3, <3>1, <3>3 DEF AnswersStarted
        <3>5. \A v \in LineageWorkers : command'[v].pc = "answer" =>
                  command'[v].child \in Children
                  /\ (childKey'[command'[v].child] = command'[v].key
                      \/ deleted'[command'[v].child] = command'[v].key)
            BY <1>1, <1>3, <2>1, <2>2, <2>3, LineageConstantsOK DEF AnswersStarted, StartedFor
        <3>6. \A v \in LineageWorkers : command'[v].pc # "idle" => command'[v].key \in CommandKeys
            BY <1>1, <1>3, <2>2 DEF AnswersStarted
        <3> QED  BY <3>4, <3>5, <3>6 DEF AnswersStarted, StartedFor
    <2> QED  BY <2>4, <2>5, <2>6, <2>7, <2>8, <2>9 DEF LineageInv
<1>5. CASE command' = [command EXCEPT ![w] = NoCommand] /\ UNCHANGED <<childKey, known>>
    <2>1. /\ command'[w] = NoCommand /\ command' \in [LineageWorkers -> Commands]
          /\ \A v \in LineageWorkers \ {w} : command'[v] = command[v]
        BY <1>2, <1>5, IdleIsACommand, CommandSet
    <2>2. LineageTypeOK'
        BY <1>1, <1>3, <1>5, <2>1 DEF LineageTypeOK, Commands
    <2>3. LivesOnce' /\ AtMostOneChild'
        BY <1>1, <1>3, <1>5 DEF LivesOnce, AtMostOneChild
    <2>4. OneCommand'
        BY <1>1, <1>3, <2>1, IdleIsACommand DEF OneCommand, HoldsCommandLock
    <2>5. StartsOnlyIfNone'
        BY <1>1, <1>3, <1>5, <2>1, IdleIsACommand DEF StartsOnlyIfNone
    <2>6. AnswersStarted'
        BY <1>1, <1>3, <1>5, <2>1, IdleIsACommand DEF AnswersStarted, StartedFor
    <2> QED  BY <2>2, <2>3, <2>4, <2>5, <2>6 DEF LineageInv
<1> QED  BY <1>4, <1>5 DEF StartChild

LEMMA AnswerCommandKeeps ==
    ASSUME LineageInv, NEW w \in LineageWorkers, AnswerCommand(w)
    PROVE  LineageInv'
<1>1. /\ command[w].key \in CommandKeys /\ command[w].child \in Children
      /\ StartedFor(command[w].child, command[w].key)
    BY DEF LineageInv, AnswersStarted, AnswerCommand
<1> QED  BY <1>1, AnswersKeeps DEF AnswerCommand

\* A deleted child still counts as started for its key.
LEMMA DeleteChildKeeps ==
    ASSUME LineageInv, NEW w \in LineageWorkers, NEW c \in Children, DeleteChild(w, c)
    PROVE  LineageInv'
<1>1. /\ LineageTypeOK /\ LivesOnce /\ OneCommand /\ StartsOnlyIfNone
      /\ AtMostOneChild /\ AnswersStarted
    BY DEF LineageInv
<1>2. UNCHANGED <<parentGone, stale, command, answers, lineageCrashes>>
    BY DEF DeleteChild
<1>3. /\ childKey'[c] = "none" /\ deleted'[c] = childKey[c]
      /\ childKey[c] # "none" /\ deleted[c] = "none"
      /\ \A d \in Children \ {c} : childKey'[d] = childKey[d] /\ deleted'[d] = deleted[d]
    BY <1>1 DEF DeleteChild, LineageTypeOK, LivesOnce
<1>4. \A d \in Children, k \in CommandKeys : StartedFor(d, k) => StartedFor(d, k)'
    BY <1>3, LineageConstantsOK DEF StartedFor
<1>5. LineageTypeOK'
    BY <1>1, <1>2 DEF DeleteChild, LineageTypeOK
<1>6. LivesOnce' /\ AtMostOneChild'
    BY <1>1, <1>2, <1>3 DEF LivesOnce, AtMostOneChild
<1>7. OneCommand'
    BY <1>1, <1>2 DEF OneCommand, HoldsCommandLock
<1>8. StartsOnlyIfNone'
    BY <1>1, <1>2, <1>3, LineageConstantsOK DEF StartsOnlyIfNone
<1>9. AnswersStarted'
    <2>1. \A k \in CommandKeys : answers[k] \subseteq Children
        BY <1>1 DEF LineageTypeOK
    <2>2. \A k \in CommandKeys : \A d \in answers'[k] : StartedFor(d, k)'
        BY <1>1, <1>2, <1>4, <2>1 DEF AnswersStarted
    <2>3. \A v \in LineageWorkers : command'[v].pc = "answer" =>
              command'[v].child \in Children
              /\ (childKey'[command'[v].child] = command'[v].key
                  \/ deleted'[command'[v].child] = command'[v].key)
        BY <1>1, <1>2, <1>3, LineageConstantsOK DEF AnswersStarted, StartedFor
    <2> QED  BY <1>1, <1>2, <2>2, <2>3 DEF AnswersStarted, StartedFor
<1> QED  BY <1>5, <1>6, <1>7, <1>8, <1>9 DEF LineageInv

\* With the parent the promise ends; what was answered stays started.
LEMMA DeleteParentKeeps ==
    ASSUME LineageInv, NEW w \in LineageWorkers, DeleteParent(w)
    PROVE  LineageInv'
<1>1. LineageTypeOK /\ LivesOnce /\ AnswersStarted
    BY DEF LineageInv
<1>2. command \in [LineageWorkers -> Commands]
    BY <1>1, TypedCommands
<1>3. /\ parentGone' = TRUE /\ UNCHANGED <<childKey, deleted, known, answers, lineageCrashes>>
      /\ stale' = [stale EXCEPT ![w] = FALSE]
    BY DEF DeleteParent
<1>4. /\ command' \in [LineageWorkers -> Commands]
      /\ \A v \in LineageWorkers : /\ command'[v].pc = command[v].pc
                                   /\ command'[v].key = command[v].key
                                   /\ command'[v].child = command[v].child
    BY <1>2 DEF DeleteParent, Commands
<1>5. LineageTypeOK'
    BY <1>1, <1>3, <1>4 DEF LineageTypeOK, Commands
<1>6. LivesOnce' /\ OneCommand' /\ StartsOnlyIfNone' /\ AtMostOneChild'
    BY <1>1, <1>3 DEF LivesOnce, OneCommand, StartsOnlyIfNone, AtMostOneChild
<1>7. AnswersStarted'
    BY <1>1, <1>3, <1>4 DEF AnswersStarted, StartedFor
<1> QED  BY <1>5, <1>6, <1>7 DEF LineageInv

LEMMA PruneKeeps ==
    ASSUME LineageInv, NEW w \in LineageWorkers, Prune(w)
    PROVE  LineageInv'
<1>1. /\ LineageTypeOK /\ LivesOnce /\ OneCommand /\ StartsOnlyIfNone
      /\ AtMostOneChild /\ AnswersStarted
    BY DEF LineageInv
<1>2. UNCHANGED <<childKey, deleted, parentGone, command, answers, lineageCrashes>>
    BY DEF Prune
<1>3. known' \in [LineageWorkers -> SUBSET Children] /\ stale' \in [LineageWorkers -> BOOLEAN]
    <2>1. PICK kept \in SUBSET known[w], still \in {FALSE, stale[w]} :
              /\ known' = [known EXCEPT ![w] = kept]
              /\ stale' = [stale EXCEPT ![w] = still]
        BY DEF Prune
    <2>2. known[w] \subseteq Children /\ stale[w] \in BOOLEAN
        BY <1>1 DEF LineageTypeOK
    <2>3. kept \in SUBSET Children
        BY <2>2
    <2>4. still \in BOOLEAN
        BY <2>2
    <2>5. known' \in [LineageWorkers -> SUBSET Children]
        BY <1>1, <2>1, <2>3 DEF LineageTypeOK
    <2>6. stale' \in [LineageWorkers -> BOOLEAN]
        BY <1>1, <2>1, <2>4 DEF LineageTypeOK
    <2> QED  BY <2>5, <2>6
<1> QED
    BY <1>1, <1>2, <1>3
        DEF LineageInv, LineageTypeOK, LivesOnce, OneCommand, StartsOnlyIfNone, AtMostOneChild,
            AnswersStarted, StartedFor, HoldsCommandLock

LEMMA LineageCrashKeeps ==
    ASSUME LineageInv, NEW w \in LineageWorkers, LineageCrash(w)
    PROVE  LineageInv'
<1>1. /\ LineageTypeOK /\ LivesOnce /\ OneCommand /\ StartsOnlyIfNone
      /\ AtMostOneChild /\ AnswersStarted
    BY DEF LineageInv
<1>2. command \in [LineageWorkers -> Commands]
    BY <1>1, TypedCommands
<1>3. /\ command'[w] = NoCommand /\ command' \in [LineageWorkers -> Commands]
      /\ \A v \in LineageWorkers \ {w} : command'[v] = command[v]
    BY <1>2, IdleIsACommand, CommandSet DEF LineageCrash
<1>4. UNCHANGED <<childKey, deleted, parentGone, answers>>
    BY DEF LineageCrash
<1>5. known' \in [LineageWorkers -> SUBSET Children] /\ stale' \in [LineageWorkers -> BOOLEAN]
    BY <1>1 DEF LineageCrash, LineageTypeOK
<1>6. LineageTypeOK'
    BY <1>1, <1>3, <1>4, <1>5, IdleIsACommand DEF LineageTypeOK, Commands
<1>7. LivesOnce'
    BY <1>1, <1>3, <1>4, <1>5, IdleIsACommand DEF LivesOnce
<1>8. OneCommand'
    BY <1>1, <1>3, <1>4, <1>5, IdleIsACommand DEF OneCommand, HoldsCommandLock
<1>9. StartsOnlyIfNone'
    BY <1>1, <1>3, <1>4, <1>5, IdleIsACommand DEF StartsOnlyIfNone, LineageTypeOK
<1>10. AtMostOneChild'
    BY <1>1, <1>3, <1>4, <1>5, IdleIsACommand DEF AtMostOneChild
<1>11. AnswersStarted'
    <2>1. \A c, k : StartedFor(c, k)' <=> StartedFor(c, k)
        BY <1>4 DEF StartedFor
    <2>2. \A v \in LineageWorkers : command'[v].pc # "idle" => command'[v] = command[v]
        BY <1>3, IdleIsACommand
    <2> QED  BY <1>1, <1>4, <2>1, <2>2 DEF AnswersStarted
<1> QED  BY <1>6, <1>7, <1>8, <1>9, <1>10, <1>11 DEF LineageInv

-----------------------------------------------------------------------------
\* The parts are kept together: that a key has one child rests on the scan under the lock, and
\* the lock on its having one file.
THEOREM LineageInvariant == LineageSpec => []LineageInv
<1>1. LineageInit => LineageInv
    <2> SUFFICES ASSUME LineageInit PROVE LineageInv
        OBVIOUS
    <2>1. \A w \in LineageWorkers : command[w] = NoCommand
        BY DEF LineageInit
    <2>2. LineageTypeOK
        BY IdleIsACommand DEF LineageInit, LineageTypeOK, Commands
    <2> QED
        BY <2>1, <2>2, IdleIsACommand
            DEF LineageInit, LineageInv, LivesOnce, OneCommand, StartsOnlyIfNone, AtMostOneChild,
                AnswersStarted, HoldsCommandLock
<1>2. LineageInv /\ LineageNext => LineageInv'
    BY OpenKeeps, TakeLockKeeps, ScanKeeps, StartChildKeeps, AnswerCommandKeeps,
       DeleteChildKeeps, DeleteParentKeeps, PruneKeeps, LineageCrashKeeps DEF LineageNext
<1>3. LineageInv /\ UNCHANGED lineageVars => LineageInv'
    BY DEF lineageVars, LineageInv, LineageTypeOK, LivesOnce, OneCommand, StartsOnlyIfNone,
           AtMostOneChild, AnswersStarted, StartedFor, HoldsCommandLock
<1> QED  BY <1>1, <1>2, <1>3, PTL DEF LineageSpec

\* The variables of ResearchLineage keep their types.
THEOREM LineageTyped == LineageSpec => []LineageTypeOK
<1>1. LineageInv => LineageTypeOK
    BY DEF LineageInv
<1> QED  BY <1>1, LineageInvariant, PTL

\* However the retries of a command spread over the workers and whatever crashes before the
\* answer, a key has one child on disk while the parent exists, and its answers name the same
\* child unless the one named first was deleted.
THEOREM KeysHaveOneChild == LineageSpec => []OneChildPerKey
<1>1. ASSUME LineageInv, ~parentGone, NEW k \in CommandKeys
      PROVE  /\ Cardinality({c \in Children : childKey[c] = k}) <= 1
             /\ \A c, d \in answers[k] : c = d \/ deleted[c] # "none" \/ deleted[d] # "none"
    <2>1. \A c, d \in Children : childKey[c] = k /\ childKey[d] = k => c = d
        BY <1>1, LineageConstantsOK DEF LineageInv, AtMostOneChild
    <2>2. Cardinality({c \in Children : childKey[c] = k}) <= 1
        <3>1. CASE {c \in Children : childKey[c] = k} = {}
            BY <3>1, FS_EmptySet
        <3>2. CASE {c \in Children : childKey[c] = k} # {}
            <4>1. PICK c \in Children : childKey[c] = k
                BY <3>2
            <4>2. {d \in Children : childKey[d] = k} = {c}
                BY <2>1, <4>1
            <4>3. Cardinality({c}) = 1
                BY FS_Singleton
            <4> QED  BY <4>2, <4>3
        <3> QED  BY <3>1, <3>2
    <2>3. ASSUME NEW c \in answers[k], NEW d \in answers[k]
          PROVE  c = d \/ deleted[c] # "none" \/ deleted[d] # "none"
        <3>1. c \in Children /\ d \in Children /\ StartedFor(c, k) /\ StartedFor(d, k)
            BY <1>1, <2>3 DEF LineageInv, LineageTypeOK, AnswersStarted
        <3> QED  BY <2>1, <3>1, LineageConstantsOK DEF StartedFor
    <2> QED  BY <2>2, <2>3
<1>2. LineageInv => OneChildPerKey
    BY <1>1 DEF OneChildPerKey
<1> QED  BY <1>2, LineageInvariant, PTL

-----------------------------------------------------------------------------
(* PreferenceStore: a durable record is what the commands made of it, in parts *)

\* The shape of a client; what it may read is left open, so that nothing has to be known of
\* what the commands compute.
IsRequest(r) == r = [pc |-> r.pc, list |-> r.list, read |-> r.read, changed |-> r.changed]
Shaped ==
    /\ client = [p \in Clients |-> client[p]] /\ \A p \in Clients : IsRequest(client[p])
    /\ \A p \in Clients : client[p].changed \in BOOLEAN
    /\ disclosed \in BOOLEAN /\ raced \in BOOLEAN

\* A record that was read and not written since is still what the commands made of it.
ReadsCurrent ==
    ~disclosed /\ ~raced =>
        \A p \in Clients : client[p].pc = "put" /\ ~client[p].changed => client[p].read = expected

StoreInv == Shaped /\ DurableUnlessRaced /\ ReadsCurrent

-----------------------------------------------------------------------------
LEMMA NoRequestShaped ==
    IsRequest(NoRequest) /\ NoRequest.pc = "idle" /\ NoRequest.changed = FALSE
BY DEF IsRequest, NoRequest

\* One client goes on, the others stay.
LEMMA ClientSet ==
    ASSUME Shaped, NEW p \in Clients, NEW r, IsRequest(r), r.changed \in BOOLEAN,
           client' = [client EXCEPT ![p] = r]
    PROVE  /\ client' = [q \in Clients |-> client'[q]]
           /\ \A q \in Clients : IsRequest(client'[q]) /\ client'[q].changed \in BOOLEAN
           /\ client'[p] = r /\ \A q \in Clients \ {p} : client'[q] = client[q]
BY DEF Shaped

\* A write outdates every record that was read before it.
LEMMA Outdates ==
    ASSUME Shaped, NEW keep \in SUBSET Clients,
           client' = [q \in Clients |-> IF q \in keep THEN NoRequest
                        ELSE [client[q] EXCEPT !.changed = client[q].pc = "put"]]
    PROVE  /\ client' = [q \in Clients |-> client'[q]]
           /\ \A q \in Clients : IsRequest(client'[q]) /\ client'[q].changed \in BOOLEAN
           /\ \A q \in Clients : client'[q].pc = "put" => client'[q].changed
<1>1. ASSUME NEW q \in Clients
      PROVE  /\ IsRequest(client'[q]) /\ client'[q].changed \in BOOLEAN
             /\ client'[q].pc = "put" => client'[q].changed
    <2>1. CASE q \in keep
        BY <2>1, NoRequestShaped
    <2>2. CASE q \notin keep
        <3> DEFINE late == client[q].pc = "put"
        <3>1. client'[q] = [client[q] EXCEPT !.changed = late]
            BY <2>2
        <3>2. client[q] = [pc |-> client[q].pc, list |-> client[q].list,
                           read |-> client[q].read, changed |-> client[q].changed]
            BY DEF Shaped, IsRequest
        <3>3. late \in BOOLEAN
            OBVIOUS
        <3>4. client'[q] = [pc |-> client[q].pc, list |-> client[q].list,
                            read |-> client[q].read, changed |-> late]
            BY <3>1, <3>2
        <3>5. client'[q].pc = client[q].pc /\ client'[q].changed = late
            BY <3>4
        <3>6. IsRequest(client'[q])
            BY <3>4 DEF IsRequest
        <3> QED  BY <3>3, <3>5, <3>6
    <2> QED  BY <2>1, <2>2
<1> QED  BY <1>1

-----------------------------------------------------------------------------
(* Each step keeps the invariant *)

\* What a request that has not read yet looks like.
LEMMA ReadyToGet ==
    ASSUME NEW list
    PROVE  [NoRequest EXCEPT !.pc = "get", !.list = list]
           = [pc |-> "get", list |-> list, read |-> {}, changed |-> FALSE]
<1>1. PICK none, r : /\ none = [pc |-> "idle", list |-> <<>>, read |-> {}, changed |-> FALSE]
                     /\ r = [none EXCEPT !.pc = "get", !.list = list]
    OBVIOUS
<1>2. r = [pc |-> "get", list |-> list, read |-> {}, changed |-> FALSE]
    BY <1>1
<1> QED  BY <1>1, <1>2 DEF NoRequest

LEMMA BeginKeeps ==
    ASSUME StoreInv, NEW p \in Clients, BeginCommands(p)
    PROVE  StoreInv'
<1>1. Shaped /\ DurableUnlessRaced /\ ReadsCurrent
    BY DEF StoreInv
<1>2. PICK list \in CommandLists :
          client' = [client EXCEPT ![p] = [NoRequest EXCEPT !.pc = "get", !.list = list]]
    BY DEF BeginCommands
<1> DEFINE r == [NoRequest EXCEPT !.pc = "get", !.list = list]
<1>3. IsRequest(r) /\ r.pc = "get" /\ r.changed = FALSE
    <2>1. r = [pc |-> "get", list |-> list, read |-> {}, changed |-> FALSE]
        BY ReadyToGet
    <2> QED  BY <2>1 DEF IsRequest
<1>4. /\ client' = [q \in Clients |-> client'[q]]
      /\ \A q \in Clients : IsRequest(client'[q]) /\ client'[q].changed \in BOOLEAN
      /\ client'[p] = r /\ \A q \in Clients \ {p} : client'[q] = client[q]
    BY <1>1, <1>2, <1>3, ClientSet
<1>5. UNCHANGED <<production, primary, fallback, disclosed, expected, raced>>
    BY DEF BeginCommands
<1> HIDE DEF r
<1> QED  BY <1>1, <1>3, <1>4, <1>5 DEF StoreInv, Shaped, DurableUnlessRaced, ReadsCurrent

LEMMA FetchSet ==
    ASSUME Shaped, NEW p \in Clients, NEW record, Fetched(p, record)
    PROVE  /\ client' = [q \in Clients |-> client'[q]]
           /\ \A q \in Clients : IsRequest(client'[q]) /\ client'[q].changed \in BOOLEAN
           /\ client'[p].read = record
           /\ \A q \in Clients \ {p} : client'[q] = client[q]
<1> DEFINE r == [pc |-> "put", list |-> client[p].list, read |-> record, changed |-> FALSE]
<1>1. client[p] = [pc |-> client[p].pc, list |-> client[p].list,
                   read |-> client[p].read, changed |-> client[p].changed]
    BY DEF Shaped, IsRequest
<1>2. client' = [client EXCEPT ![p] = [client[p] EXCEPT !.pc = "put", !.read = record,
                                                        !.changed = FALSE]]
    BY DEF Fetched, Shaped
<1>3. PICK next : next = [client[p] EXCEPT !.pc = "put", !.read = record, !.changed = FALSE]
    OBVIOUS
<1>4. next = r
    BY <1>1, <1>3
<1>5. client' = [client EXCEPT ![p] = r]
    BY <1>2, <1>3, <1>4
<1>6. IsRequest(r) /\ r.read = record /\ r.changed = FALSE
    BY DEF IsRequest
<1> HIDE DEF r
<1> QED  BY <1>5, <1>6, ClientSet

LEMMA GetKeeps ==
    ASSUME StoreInv, NEW p \in Clients, Get(p)
    PROVE  StoreInv'
<1>1. Shaped /\ DurableUnlessRaced /\ ReadsCurrent
    BY DEF StoreInv
<1>2. UNCHANGED <<production, primary, fallback, expected, raced>>
    BY DEF Get
<1>3. CASE Fetched(p, primary) /\ UNCHANGED disclosed
    BY <1>1, <1>2, <1>3, FetchSet DEF StoreInv, Shaped, DurableUnlessRaced, ReadsCurrent
<1>4. CASE FallsBack /\ Fetched(p, fallback)
    BY <1>1, <1>2, <1>4, FetchSet
        DEF FallsBack, StoreInv, Shaped, DurableUnlessRaced, ReadsCurrent
<1>5. CASE Raises /\ Ends(p)
    <2>1. /\ client' = [q \in Clients |-> client'[q]]
          /\ \A q \in Clients : IsRequest(client'[q]) /\ client'[q].changed \in BOOLEAN
          /\ client'[p] = NoRequest /\ \A q \in Clients \ {p} : client'[q] = client[q]
        BY <1>1, <1>5, NoRequestShaped, ClientSet DEF Ends
    <2> QED
        BY <1>1, <1>2, <1>5, <2>1, NoRequestShaped
            DEF Raises, StoreInv, Shaped, DurableUnlessRaced, ReadsCurrent
<1> QED  BY <1>3, <1>4, <1>5 DEF Get

\* What a write leaves behind, where it took effect in the primary store or is disclosed.
LEMMA WriteKeeps ==
    ASSUME StoreInv, NEW p \in Clients, client[p].pc = "put", Written(p),
           disclosed' \in {disclosed, TRUE},
           disclosed' \/ primary' = Updates(client[p].read, client[p].list)
    PROVE  StoreInv'
<1>1. Shaped /\ DurableUnlessRaced /\ ReadsCurrent
    BY DEF StoreInv
<1>2. /\ client' = [q \in Clients |-> client'[q]]
      /\ \A q \in Clients : IsRequest(client'[q]) /\ client'[q].changed \in BOOLEAN
      /\ \A q \in Clients : client'[q].pc = "put" => client'[q].changed
    <2>1. client' = [q \in Clients |-> IF q \in {p} THEN NoRequest
                        ELSE [client[q] EXCEPT !.changed = client[q].pc = "put"]]
        BY DEF Written, Outdated
    <2> QED  BY <1>1, <2>1, Outdates
<1>3. Shaped' /\ ReadsCurrent'
    BY <1>1, <1>2 DEF Written, Shaped, ReadsCurrent
<1>4. ASSUME ~disclosed', ~raced'
      PROVE  primary' = expected'
    <2>1. ~disclosed /\ ~raced /\ ~client[p].changed
        BY <1>1, <1>4 DEF Written, Shaped
    <2>2. client[p].read = expected
        BY <1>1, <2>1 DEF ReadsCurrent
    <2> QED  BY <1>4, <2>2 DEF Written
<1> QED  BY <1>3, <1>4 DEF StoreInv, DurableUnlessRaced

LEMMA PutKeeps ==
    ASSUME StoreInv, NEW p \in Clients, Put(p)
    PROVE  StoreInv'
<1>1. Shaped /\ DurableUnlessRaced /\ ReadsCurrent /\ client[p].pc = "put"
    BY DEF StoreInv, Put
<1> DEFINE record == Updates(client[p].read, client[p].list)
<1>2. CASE primary' = record /\ Written(p) /\ UNCHANGED <<fallback, disclosed>>
    BY <1>1, <1>2, WriteKeeps
<1>3. CASE FallsBack /\ Written(p)
    BY <1>1, <1>3, WriteKeeps DEF FallsBack
<1>4. CASE Raises /\ Ends(p) /\ UNCHANGED <<primary, fallback, expected, raced>>
    <2>1. /\ client' = [q \in Clients |-> client'[q]]
          /\ \A q \in Clients : IsRequest(client'[q]) /\ client'[q].changed \in BOOLEAN
          /\ client'[p] = NoRequest /\ \A q \in Clients \ {p} : client'[q] = client[q]
        BY <1>1, <1>4, NoRequestShaped, ClientSet DEF Ends
    <2> QED
        BY <1>1, <1>4, <2>1, NoRequestShaped
            DEF Raises, StoreInv, Shaped, DurableUnlessRaced, ReadsCurrent
<1>5. CASE Raises /\ primary' = record /\ Written(p) /\ UNCHANGED fallback
    BY <1>1, <1>5, WriteKeeps DEF Raises
<1> QED  BY <1>2, <1>3, <1>4, <1>5 DEF Put

\* A deletion and an expiry leave an empty record and outdate what was read.
LEMMA EmptyingKeeps ==
    ASSUME StoreInv, DeleteRecord \/ Expire
    PROVE  StoreInv'
<1>1. Shaped /\ DurableUnlessRaced /\ ReadsCurrent
    BY DEF StoreInv
<1>2. /\ client' = [q \in Clients |-> client'[q]]
      /\ \A q \in Clients : IsRequest(client'[q]) /\ client'[q].changed \in BOOLEAN
      /\ \A q \in Clients : client'[q].pc = "put" => client'[q].changed
    <2> PICK keep \in SUBSET Clients : keep = {}
        OBVIOUS
    <2>1. client' = [q \in Clients |-> IF q \in keep THEN NoRequest
                        ELSE [client[q] EXCEPT !.changed = client[q].pc = "put"]]
        BY DEF DeleteRecord, Expire
    <2> QED  BY <1>1, <2>1, Outdates
<1>3. expected' = {} /\ raced' = raced /\ disclosed' \in BOOLEAN
    BY <1>1 DEF DeleteRecord, Expire, FallsBack, Raises, Shaped
<1>4. disclosed' \/ primary' = {}
    BY DEF DeleteRecord, Expire, FallsBack
<1>5. Shaped' /\ ReadsCurrent'
    BY <1>1, <1>2, <1>3 DEF Shaped, ReadsCurrent
<1> QED  BY <1>3, <1>4, <1>5 DEF StoreInv, DurableUnlessRaced

LEMMA RestartKeeps ==
    ASSUME StoreInv, PreferenceRestart
    PROVE  StoreInv'
BY NoRequestShaped DEF PreferenceRestart, StoreInv, Shaped, DurableUnlessRaced, ReadsCurrent

-----------------------------------------------------------------------------
\* The two parts support each other: a command writes what the record was made of, unless it
\* read it too early, and then the write counts as raced.
THEOREM StoreInvariant == PreferenceSpec => []StoreInv
<1>1. PreferenceInit => StoreInv
    BY NoRequestShaped DEF PreferenceInit, StoreInv, Shaped, DurableUnlessRaced, ReadsCurrent
<1>2. StoreInv /\ PreferenceNext => StoreInv'
    BY BeginKeeps, GetKeeps, PutKeeps, EmptyingKeeps, RestartKeeps DEF PreferenceNext
<1>3. StoreInv /\ UNCHANGED preferenceVars => StoreInv'
    BY DEF preferenceVars, StoreInv, Shaped, DurableUnlessRaced, ReadsCurrent, IsRequest
<1> QED  BY <1>1, <1>2, <1>3, PTL DEF PreferenceSpec

\* As long as the status says "durable", the durable record is what the answered commands make
\* of it, through fallbacks, errors after a write, expiry and restarts, unless a command wrote
\* back a record that had changed since it read it.
THEOREM DurableMeansDurable == PreferenceSpec => []DurableUnlessRaced
<1>1. StoreInv => DurableUnlessRaced
    BY DEF StoreInv
<1> QED  BY <1>1, StoreInvariant, PTL

\* A nonempty set of naturals has a least element.
LEMMA LeastNatural == ASSUME NEW T \in SUBSET Nat, T # {}
                      PROVE  \E n \in T : \A m \in T : n <= m
<1> DEFINE R == OpToRel(<, Nat)
<1>1. \A x, y \in Nat : x < y => <<x, y>> \in R
    BY DEF OpToRel
<1>2. IsWellFoundedOn(R, Nat)
    BY NatLessThanWellFounded
<1> HIDE DEF R
<1>3. PICK x \in T : \A y \in T : ~ (<<y, x>> \in R)
    BY <1>2, WFMin
<1>4. ASSUME NEW y \in T PROVE x <= y
    <2>1. x \in Nat /\ y \in Nat
        OBVIOUS
    <2>2. ~(y < x)
        BY <1>1, <1>3, <2>1, Zenon
    <2> QED  BY <2>1, <2>2
<1> QED  BY <1>3, <1>4

\* The values the last command on them among the first n remembers, or that were remembered
\* before and no command names.
LastWord(record, list, n) ==
    {v \in Values :
        \/ v \in record /\ \A k \in 1 .. n : list[k].value # v
        \/ \E k \in 1 .. n : /\ list[k].value = v /\ list[k].action = "remember"
                             /\ \A j \in k + 1 .. n : list[j].value # v}

\* One more command changes the value it names.
LEMMA LastWordStep ==
    ASSUME NEW record, NEW list \in Seq(MemoryCommands), NEW n \in 1 .. Len(list)
    PROVE  LastWord(record, list, n) = Update(LastWord(record, list, n - 1), list[n])
<1> DEFINE c == list[n]
           before == LastWord(record, list, n - 1)
           after == LastWord(record, list, n)
<1>1. Len(list) \in Nat /\ n \in Nat \ {0} /\ list[n] \in MemoryCommands
    OBVIOUS
<1>2. c.action \in {"remember", "forget"} /\ c.value \in Values
    BY <1>1 DEF MemoryCommands
<1>3. 1 .. n = 1 .. n - 1 \cup {n} /\ n \notin 1 .. n - 1
    BY <1>1
<1>4. ASSUME NEW v \in Values, v # c.value
      PROVE  v \in after <=> v \in before
    <2>1. (\A k \in 1 .. n : list[k].value # v) <=> (\A k \in 1 .. n - 1 : list[k].value # v)
        BY <1>3, <1>4
    <2>2. ASSUME NEW k \in 1 .. n - 1
          PROVE  (\A j \in k + 1 .. n : list[j].value # v)
                     <=> (\A j \in k + 1 .. n - 1 : list[j].value # v)
        <3>1. k + 1 .. n = k + 1 .. n - 1 \cup {n}
            BY <1>1
        <3> QED  BY <1>4, <3>1
    <2>3. list[n].value # v
        BY <1>4
    <2> QED  BY <1>3, <2>1, <2>2, <2>3 DEF LastWord
<1>5. c.value \in after <=> c.action = "remember"
    <2>1. \A k \in 1 .. n - 1 : n \in k + 1 .. n
        BY <1>1
    <2>2. n + 1 .. n = {}
        BY <1>1
    <2>3. n \in 1 .. n
        BY <1>1
    <2> QED  BY <1>2, <1>3, <2>1, <2>2, <2>3 DEF LastWord
<1>6. before \subseteq Values /\ after \subseteq Values
    BY DEF LastWord
<1> HIDE DEF before, after
<1>7. after = Update(before, c)
    BY <1>2, <1>4, <1>5, <1>6 DEF Update
<1> QED  BY <1>7 DEF before, after

\* The records on the way through the commands, as Updates chooses them.
Follows(record, list, f) ==
    f = [i \in 0 .. Len(list) |-> IF i = 0 THEN record ELSE Update(f[i - 1], list[i])]

\* What the commands make of a record: every value is as the last command on it wants it, and
\* the others stay (execute_memory_commands, _update_record).
THEOREM LastCommandWins ==
    ASSUME NEW record \in SUBSET Values, NEW list \in Seq(MemoryCommands)
    PROVE  Updates(record, list) = LastWord(record, list, Len(list))
<1> DEFINE n == Len(list)
           word(i) == LastWord(record, list, i)
           g == [i \in 0 .. n |-> word(i)]
           f == CHOOSE h : Follows(record, list, h)
<1>1. n \in Nat
    OBVIOUS
<1>2. word(0) = record
    BY DEF LastWord
<1>3. \A i \in 1 .. n : word(i) = Update(word(i - 1), list[i])
    BY LastWordStep
<1>4. Follows(record, list, g)
    <2> HIDE DEF word
    <2>1. ASSUME NEW i \in 0 .. n
          PROVE  g[i] = IF i = 0 THEN record ELSE Update(g[i - 1], list[i])
        <3>1. i # 0 => i \in 1 .. n /\ i - 1 \in 0 .. n
            BY <1>1
        <3> QED  BY <1>2, <1>3, <3>1
    <2> QED  BY <2>1 DEF Follows
<1>5. Follows(record, list, f)
    BY <1>4
<1>6. Updates(record, list) = f[n]
    BY DEF Updates, Follows
<1> HIDE DEF word, g, f
<1>7. ASSUME NEW i \in 0 .. n
      PROVE  f[i] = IF i = 0 THEN record ELSE Update(f[i - 1], list[i])
    BY <1>5 DEF Follows
<1>8. \A i \in 0 .. n : f[i] = word(i)
    <2> DEFINE Bad == {i \in 0 .. n : f[i] # word(i)}
    <2> SUFFICES ASSUME Bad # {} PROVE FALSE
        OBVIOUS
    <2>1. Bad \in SUBSET Nat
        BY <1>1
    <2>2. PICK i \in Bad : \A j \in Bad : i <= j
        <3> HIDE DEF Bad
        <3> QED  BY <2>1, LeastNatural
    <2>3. i \in 0 .. n /\ f[i] # word(i)
        OBVIOUS
    <2>4. i # 0
        BY <1>2, <1>7, <2>3
    <2>5. i - 1 \in 0 .. n /\ i \in 1 .. n /\ i - 1 \notin Bad
        BY <1>1, <2>2, <2>3, <2>4
    <2>6. f[i - 1] = word(i - 1)
        BY <2>5
    <2> QED  BY <1>3, <1>7, <2>3, <2>4, <2>5, <2>6
<1>9. n \in 0 .. n
    BY <1>1
<1> QED  BY <1>6, <1>8, <1>9 DEF word

\* The requests with what they may have read.
ClientRecords ==
    [pc : {"idle", "get", "put"}, list : CommandLists \cup {<<>>}, read : SUBSET Values,
     changed : BOOLEAN]

StoreTyped ==
    /\ production \in BOOLEAN /\ disclosed \in BOOLEAN /\ raced \in BOOLEAN
    /\ primary \in SUBSET Values /\ fallback \in SUBSET Values /\ expected \in SUBSET Values
    /\ client \in [Clients -> ClientRecords]

\* Commands keep records among the values.
LEMMA UpdatesTyped ==
    ASSUME NEW record \in SUBSET Values, NEW list \in CommandLists \cup {<<>>}
    PROVE  Updates(record, list) \in SUBSET Values
<1>1. list \in Seq(MemoryCommands)
    <2>1. CASE list \in CommandLists
        BY <2>1, PreferenceAssumption, Zenon
    <2>2. CASE list = <<>>
        BY <2>2
    <2> QED  BY <2>1, <2>2
<1> QED  BY <1>1, LastCommandWins DEF LastWord

\* The record a client reads, and every record of the store, is made of values: what the
\* commands compute is known for every list of commands.
THEOREM PreferenceTyped == PreferenceSpec => []PreferenceTypeOK
<1>0. NoRequest \in ClientRecords
    BY DEF NoRequest, ClientRecords
<1>1. PreferenceInit => StoreTyped
    BY <1>0 DEF PreferenceInit, StoreTyped
<1>2. StoreTyped /\ [PreferenceNext]_preferenceVars => StoreTyped'
    <2> SUFFICES ASSUME StoreTyped, [PreferenceNext]_preferenceVars PROVE StoreTyped'
        OBVIOUS
    <2>0. /\ production \in BOOLEAN /\ disclosed \in BOOLEAN /\ raced \in BOOLEAN
          /\ primary \in SUBSET Values /\ fallback \in SUBSET Values /\ expected \in SUBSET Values
          /\ client \in [Clients -> ClientRecords]
        BY DEF StoreTyped
    <2>1. ASSUME NEW p \in Clients, BeginCommands(p)
          PROVE  StoreTyped'
        <3>1. PICK list \in CommandLists :
                  client' = [client EXCEPT ![p] = [NoRequest EXCEPT !.pc = "get", !.list = list]]
            BY <2>1 DEF BeginCommands
        <3>2. [NoRequest EXCEPT !.pc = "get", !.list = list] \in ClientRecords
            BY <1>0 DEF ClientRecords
        <3>3. client' \in [Clients -> ClientRecords]
            BY <2>0, <3>1, <3>2
        <3> QED  BY <2>0, <2>1, <3>3 DEF BeginCommands, StoreTyped
    <2>2. ASSUME NEW p \in Clients, Get(p)
          PROVE  StoreTyped'
        <3>1. ASSUME NEW record \in SUBSET Values, Fetched(p, record)
              PROVE  client' \in [Clients -> ClientRecords]
            <4>1. [client[p] EXCEPT !.pc = "put", !.read = record, !.changed = FALSE]
                      \in ClientRecords
                BY <2>0 DEF ClientRecords
            <4> QED  BY <2>0, <3>1, <4>1 DEF Fetched
        <3>2. Ends(p) => client' \in [Clients -> ClientRecords]
            BY <1>0, <2>0 DEF Ends
        <3> QED  BY <2>0, <2>2, <3>1, <3>2 DEF Get, FallsBack, Raises, StoreTyped
    <2>3. ASSUME NEW p \in Clients, Put(p)
          PROVE  StoreTyped'
        <3> DEFINE record == Updates(client[p].read, client[p].list)
        <3>1. /\ client[p].read \in SUBSET Values /\ client[p].list \in CommandLists \cup {<<>>}
              /\ client[p].changed \in BOOLEAN
            BY <2>0 DEF ClientRecords
        <3>2. record \in SUBSET Values /\ Updates(expected, client[p].list) \in SUBSET Values
            BY <2>0, <3>1, UpdatesTyped
        <3> HIDE DEF record
        <3>3. Written(p) => /\ expected' \in SUBSET Values /\ raced' \in BOOLEAN
                            /\ client' \in [Clients -> ClientRecords]
            <4> SUFFICES ASSUME Written(p)
                         PROVE  /\ expected' \in SUBSET Values /\ raced' \in BOOLEAN
                                /\ client' \in [Clients -> ClientRecords]
                OBVIOUS
            <4>1. \A q \in Clients :
                      [client[q] EXCEPT !.changed = client[q].pc = "put"] \in ClientRecords
                <5> TAKE q \in Clients
                <5>1. client[q] \in ClientRecords /\ (client[q].pc = "put") \in BOOLEAN
                    BY <2>0
                <5> QED  BY <5>1 DEF ClientRecords
            <4>2. client' \in [Clients -> ClientRecords]
                BY <1>0, <4>1 DEF Written, Outdated
            <4> QED  BY <2>0, <3>1, <3>2, <4>2 DEF Written
        <3>4. Ends(p) => client' \in [Clients -> ClientRecords]
            BY <1>0, <2>0 DEF Ends
        <3> QED
            BY <2>0, <2>3, <3>2, <3>3, <3>4 DEF Put, FallsBack, Raises, StoreTyped, record
    <2>4. CASE DeleteRecord \/ Expire \/ PreferenceRestart
        <3>1. \A q \in Clients :
                  [client[q] EXCEPT !.changed = client[q].pc = "put"] \in ClientRecords
            <4> TAKE q \in Clients
            <4>1. client[q] \in ClientRecords /\ (client[q].pc = "put") \in BOOLEAN
                BY <2>0
            <4> QED  BY <4>1 DEF ClientRecords
        <3>2. client' \in [Clients -> ClientRecords]
            BY <1>0, <2>4, <3>1 DEF DeleteRecord, Expire, PreferenceRestart
        <3> QED
            BY <2>0, <2>4, <3>2
                DEF DeleteRecord, Expire, PreferenceRestart, FallsBack, Raises, StoreTyped
    <2>5. CASE UNCHANGED preferenceVars
        BY <2>5 DEF preferenceVars, StoreTyped
    <2> QED  BY <2>1, <2>2, <2>3, <2>4, <2>5 DEF PreferenceNext
<1>3. StoreTyped => PreferenceTypeOK
    BY DEF StoreTyped, PreferenceTypeOK, ClientRecords
<1> QED  BY <1>1, <1>2, <1>3, PTL DEF PreferenceSpec

-----------------------------------------------------------------------------
(* TaskFiles: the files agree with the snapshot, for every set of images and every number of
   runs. *)

\* There are three reports, so n = Cardinality(Reports) is the write that succeeded.
LEMMA ThreeReports == Cardinality(Reports) = 3
<1>1. Cardinality(1 .. 3) = IF 1 > 3 THEN 0 ELSE 3 - 1 + 1
    BY FS_Interval, 1 \in Int, 3 \in Int, Zenon
<1>2. (IF 1 > 3 THEN 0 ELSE 3 - 1 + 1) = 3
    OBVIOUS
<1> QED  BY <1>1, <1>2 DEF Reports

\* Writing reports keeps the shape of the folder: each report is as it was or of the run
\* written, and all are of the run when nothing failed.
LEMMA WrittenFacts ==
    ASSUME FilesTypeOK, NEW n \in 0 .. 3, NEW run \in 0 .. MaxRuns
    PROVE  /\ WrittenReports(n, run) \in [Reports -> 0 .. MaxRuns]
           /\ \A i \in Reports : WrittenReports(n, run)[i] \in {folder.reports[i], run}
           /\ n = 3 => \A i \in Reports : WrittenReports(n, run)[i] = run
<1>1. folder.reports \in [Reports -> 0 .. MaxRuns]
    BY DEF FilesTypeOK
<1> QED  BY <1>1 DEF WrittenReports, Reports

\* A rebuild replaces reports by the completed run's and nothing else.
LEMMA RebuildOnlyReports ==
    ASSUME FilesTypeOK, NEW n \in 0 .. Cardinality(Reports), Rebuilds(n)
    PROVE  /\ folder' \in [exists : BOOLEAN, images : SUBSET Images,
                           reports : [Reports -> 0 .. MaxRuns]]
           /\ folder'.images = folder.images
           /\ \A i \in Reports : folder'.reports[i] \in {folder.reports[i], stored.run}
<1>1. n \in 0 .. 3 /\ stored.run \in 0 .. MaxRuns
    BY ThreeReports DEF FilesTypeOK
<1>2. CASE folder' = folder
    BY <1>2 DEF FilesTypeOK
<1>3. CASE folder' = [folder EXCEPT !.reports = WrittenReports(n, stored.run)]
    BY <1>1, <1>3, WrittenFacts DEF FilesTypeOK
<1> QED  BY <1>2, <1>3 DEF Rebuilds

-----------------------------------------------------------------------------
\* The parts of the inductive invariant.
ReportsInv ==
    stored.status = "completed" /\ erased = "no" =>
        \A i \in Reports : folder.reports[i] \in {0, stored.run}

ImagesInv ==
    erased = "no" => stored.bound \subseteq folder.images /\ stored.listed \subseteq stored.bound

ErasedInv ==
    erased = "answered" => folder.images = {} /\ \A i \in Reports : folder.reports[i] = 0

\* A download under way is of the run that completed; its file is of that run or missing.
DownloadInv ==
    /\ reading.at = "sending" =>
        /\ reading.run = stored.run
        /\ erased = "no" => stored.status = "completed"
        /\ \A i \in Reports : folder.reports[i] \in {0, stored.run}
    /\ reading.content \in {0, reading.run}

\* What a rerun has not copied yet is still there, as long as nobody deletes the parent.
CopyInv ==
    copying.at \in {"copying", "running"} /\ erased = "no" =>
        /\ copying.wanted \subseteq folder.images
        /\ copying.images = copying.wanted \ copying.todo
        /\ copying.todo \subseteq copying.wanted
        /\ copying.at = "running" => copying.todo = {}

FilesInv ==
    FilesTypeOK /\ ReportsInv /\ ImagesInv /\ ErasedInv /\ DownloadInv /\ CopyInv

\* Nothing exists yet.
LEMMA FilesInitially == FilesInit => FilesInv
BY FilesConstantsOK DEF FilesInit, FilesInv, FilesTypeOK, ReportsInv, ImagesInv, ErasedInv,
    DownloadInv, CopyInv, NoReports, Reports

-----------------------------------------------------------------------------
(* One lemma for each part of FilesInv. *)

\* Every step keeps the types.
LEMMA TypeStep == FilesInv /\ FilesNext => FilesTypeOK'
<1> SUFFICES ASSUME FilesInv, FilesNext PROVE FilesTypeOK'
    OBVIOUS
<1> FilesTypeOK /\ MaxRuns \in Nat
    BY FilesConstantsOK DEF FilesInv
<1>1. ASSUME NEW image \in Images, Upload(image) PROVE FilesTypeOK'
    BY <1>1 DEF Upload, FilesTypeOK
<1>2. ASSUME NEW image \in Images, CopyImage(image) PROVE FilesTypeOK'
    <2>1. copying' \in [at : {"none", "copying", "running", "abandoned"}, todo : SUBSET Images,
                        wanted : SUBSET Images, images : SUBSET Images]
        <3>1. copying.todo \ {image} \in SUBSET Images
            BY DEF FilesTypeOK
        <3>2. copying.images \cup ({image} \cap folder.images) \in SUBSET Images
            BY DEF FilesTypeOK
        <3> QED  BY <1>2, <3>1, <3>2 DEF CopyImage, FilesTypeOK
    <2> QED  BY <1>2, <2>1 DEF CopyImage, FilesTypeOK
<1>3. ASSUME NEW images \in SUBSET Images, CreateWithImages(images) PROVE FilesTypeOK'
    <2>1. folder.images \cup images \in SUBSET Images
        BY DEF FilesTypeOK
    <2>2. folder' \in [exists : BOOLEAN, images : SUBSET Images,
                       reports : [Reports -> 0 .. MaxRuns]]
        BY <1>3, <2>1 DEF CreateWithImages, FilesTypeOK
    <2>3. stored' \in [status : {"none", "running", "completed", "closed"}, run : 0 .. MaxRuns,
                       bound : SUBSET Images, listed : SUBSET Images]
        BY <1>3 DEF CreateWithImages, FilesTypeOK
    <2> QED  BY <1>3, <2>2, <2>3 DEF CreateWithImages, FilesTypeOK
<1>4. ASSUME NEW images \in SUBSET Images, CreateFailsBinding(images) PROVE FilesTypeOK'
    <2>1. CASE UNCHANGED folder
        BY <1>4, <2>1 DEF CreateFailsBinding, FilesTypeOK
    <2>2. ASSUME NEW some \in SUBSET images,
                 folder' = [folder EXCEPT !.exists = TRUE, !.images = @ \cup some]
          PROVE  FilesTypeOK'
        <3>1. folder.images \cup some \in SUBSET Images
            BY DEF FilesTypeOK
        <3>2. UNCHANGED <<uploads, stored, erased, copying, reading>>
            BY <1>4 DEF CreateFailsBinding
        <3>3. folder' \in [exists : BOOLEAN, images : SUBSET Images,
                           reports : [Reports -> 0 .. MaxRuns]]
            BY <2>2, <3>1 DEF FilesTypeOK
        <3> QED  BY <3>2, <3>3 DEF FilesTypeOK
    <2> QED  BY <1>4, <2>1, <2>2 DEF CreateFailsBinding
<1>5. ASSUME NEW i \in Reports, Download(i) PROVE FilesTypeOK'
    <2>1. Cardinality(Reports) \in 0 .. Cardinality(Reports) /\ Rebuilds(Cardinality(Reports))
        BY <1>5, ThreeReports DEF Download
    <2>2. folder' \in [exists : BOOLEAN, images : SUBSET Images,
                       reports : [Reports -> 0 .. MaxRuns]]
        BY <2>1, RebuildOnlyReports
    <2> QED  BY <1>5, <2>2 DEF Download, FilesTypeOK
<1>6. ASSUME NEW i \in Reports, LoseReport(i) PROVE FilesTypeOK'
    BY <1>6 DEF LoseReport, FilesTypeOK
<1>7. CASE SessionCreated
    BY <1>7 DEF SessionCreated, FilesTypeOK
<1>8. CASE RecordResult
    <2>1. folder' \in [exists : BOOLEAN, images : SUBSET Images,
                       reports : [Reports -> 0 .. MaxRuns]]
        <3>1. PICK n \in 0 .. Cardinality(Reports) :
                folder' = [folder EXCEPT !.exists = TRUE,
                                         !.reports = WrittenReports(n, stored.run)]
            BY <1>8 DEF RecordResult
        <3>2. WrittenReports(n, stored.run) \in [Reports -> 0 .. MaxRuns]
            BY ThreeReports, WrittenFacts DEF FilesTypeOK
        <3> QED  BY <3>1, <3>2 DEF FilesTypeOK
    <2>2. stored' \in {stored, [stored EXCEPT !.status = "completed"]}
        BY <1>8 DEF RecordResult
    <2> QED  BY <1>8, <2>1, <2>2 DEF RecordResult, FilesTypeOK
<1>9. CASE CloseRun
    BY <1>9 DEF CloseRun, FilesTypeOK
<1>10. CASE ListReports
    <2>1. folder' \in [exists : BOOLEAN, images : SUBSET Images,
                       reports : [Reports -> 0 .. MaxRuns]]
        BY <1>10, RebuildOnlyReports DEF ListReports
    <2> QED  BY <1>10, <2>1 DEF ListReports, FilesTypeOK
<1>11. CASE SendFile
    BY <1>11 DEF SendFile, FilesTypeOK
<1>12. CASE WriteTombstone
    BY <1>12 DEF WriteTombstone, FilesTypeOK
<1>13. CASE RemoveFolder
    <2>1. NoReports \in [Reports -> 0 .. MaxRuns]
        BY DEF NoReports
    <2>2. CASE folder' = [exists |-> FALSE, images |-> {}, reports |-> NoReports]
        <3>1. stored' \in {stored, [stored EXCEPT !.status = "none"]}
            BY <1>13 DEF RemoveFolder
        <3>2. erased' \in {erased, "answered"} /\ UNCHANGED <<uploads, copying, reading>>
            BY <1>13 DEF RemoveFolder
        <3> QED  BY <2>1, <2>2, <3>1, <3>2 DEF FilesTypeOK
    <2>3. ASSUME NEW kept \in SUBSET folder.images, NEW left \in SUBSET Reports,
                 folder' = [folder EXCEPT !.images = kept,
                              !.reports = [i \in Reports |-> IF i \in left THEN @[i] ELSE 0]],
                 UNCHANGED <<uploads, stored, erased, copying, reading>>
          PROVE  FilesTypeOK'
        <3>1. kept \in SUBSET Images
            BY DEF FilesTypeOK
        <3>2. [i \in Reports |-> IF i \in left THEN folder.reports[i] ELSE 0]
                \in [Reports -> 0 .. MaxRuns]
            BY DEF FilesTypeOK
        <3> QED  BY <2>3, <3>1, <3>2 DEF FilesTypeOK
    <2> QED  BY <1>13, <2>2, <2>3 DEF RemoveFolder
<1>14. CASE StartRerun
    BY <1>14 DEF StartRerun, FilesTypeOK
<1>15. CASE RerunFails
    BY <1>15 DEF RerunFails, FilesTypeOK
<1>16. CASE ChildStarts
    BY <1>16 DEF ChildStarts, FilesTypeOK
<1> QED
    BY <1>1, <1>2, <1>3, <1>4, <1>5, <1>6, <1>7, <1>8, <1>9, <1>10, <1>11, <1>12, <1>13, <1>14,
       <1>15, <1>16 DEF FilesNext
\* The reports of a completed task stay its own.
LEMMA ReportsStep == FilesInv /\ FilesNext => ReportsInv'
<1> SUFFICES ASSUME FilesInv, FilesNext PROVE ReportsInv'
    OBVIOUS
<1> USE DEF FilesInv, FilesTypeOK, ReportsInv
<1>1. ASSUME NEW image \in Images, Upload(image) PROVE ReportsInv'
    BY <1>1 DEF Upload
<1>2. ASSUME NEW image \in Images, CopyImage(image) PROVE ReportsInv'
    BY <1>2 DEF CopyImage
<1>3. ASSUME NEW images \in SUBSET Images, CreateWithImages(images) PROVE ReportsInv'
    BY <1>3 DEF CreateWithImages, Creatable
<1>4. ASSUME NEW images \in SUBSET Images, CreateFailsBinding(images) PROVE ReportsInv'
    BY <1>4 DEF CreateFailsBinding, Creatable
<1>5. ASSUME NEW i \in Reports, Download(i) PROVE ReportsInv'
    <2>1. Cardinality(Reports) \in 0 .. Cardinality(Reports) /\ Rebuilds(Cardinality(Reports))
        BY <1>5, ThreeReports DEF Download
    <2> QED  BY <1>5, <2>1, RebuildOnlyReports DEF Download, Rebuilds
<1>6. ASSUME NEW i \in Reports, LoseReport(i) PROVE ReportsInv'
    BY <1>6 DEF LoseReport
<1>7. CASE SessionCreated
    BY <1>7 DEF SessionCreated, Recording
<1>8. CASE RecordResult
    <2>1. PICK n \in 0 .. Cardinality(Reports) :
            /\ folder' = [folder EXCEPT !.exists = TRUE, !.reports = WrittenReports(n, stored.run)]
            /\ stored' \in {stored} \cup (IF n = Cardinality(Reports)
                                          THEN {[stored EXCEPT !.status = "completed"]} ELSE {})
        BY <1>8 DEF RecordResult
    <2>2. n \in 0 .. 3 /\ stored.run \in 0 .. MaxRuns /\ stored.status = "running"
        BY <1>8, ThreeReports DEF RecordResult, Recording
    <2>3. n = 3 => \A i \in Reports : WrittenReports(n, stored.run)[i] = stored.run
        BY <2>2, WrittenFacts
    <2>4. folder'.reports = WrittenReports(n, stored.run) /\ folder'.images = folder.images
        BY <2>1
    <2> QED  BY <1>8, <2>1, <2>2, <2>3, <2>4, ThreeReports DEF RecordResult, Recording
<1>9. CASE CloseRun
    BY <1>9 DEF CloseRun, Recording
<1>10. CASE ListReports
    <2>1. PICK n \in 0 .. Cardinality(Reports) : Rebuilds(n)
        BY <1>10 DEF ListReports
    <2> QED  BY <1>10, <2>1, RebuildOnlyReports DEF ListReports, Rebuilds
<1>11. CASE SendFile
    BY <1>11 DEF SendFile
<1>12. CASE WriteTombstone
    BY <1>12 DEF WriteTombstone
<1>13. CASE RemoveFolder
    BY <1>13 DEF RemoveFolder
<1>14. CASE StartRerun
    BY <1>14 DEF StartRerun
<1>15. CASE RerunFails
    BY <1>15 DEF RerunFails
<1>16. CASE ChildStarts
    BY <1>16 DEF ChildStarts
<1> QED
    BY <1>1, <1>2, <1>3, <1>4, <1>5, <1>6, <1>7, <1>8, <1>9, <1>10, <1>11, <1>12, <1>13, <1>14,
       <1>15, <1>16 DEF FilesNext

\* The images of a snapshot stay until a deletion removes them.
LEMMA ImagesStep == FilesInv /\ FilesNext => ImagesInv'
<1> SUFFICES ASSUME FilesInv, FilesNext PROVE ImagesInv'
    OBVIOUS
<1> USE DEF FilesInv, FilesTypeOK, ImagesInv
<1>1. ASSUME NEW image \in Images, Upload(image) PROVE ImagesInv'
    BY <1>1 DEF Upload
<1>2. ASSUME NEW image \in Images, CopyImage(image) PROVE ImagesInv'
    BY <1>2 DEF CopyImage
<1>3. ASSUME NEW images \in SUBSET Images, CreateWithImages(images) PROVE ImagesInv'
    BY <1>3 DEF CreateWithImages, Creatable
<1>4. ASSUME NEW images \in SUBSET Images, CreateFailsBinding(images) PROVE ImagesInv'
    <2>1. UNCHANGED <<uploads, stored, erased, copying, reading>> /\ erased = "no"
        BY <1>4 DEF CreateFailsBinding, Creatable
    <2>2. folder.images \subseteq folder'.images
        <3>1. CASE UNCHANGED folder
            BY <3>1
        <3>2. ASSUME NEW some \in SUBSET images,
                     folder' = [folder EXCEPT !.exists = TRUE, !.images = @ \cup some]
              PROVE  folder.images \subseteq folder'.images
            BY <3>2
        <3> QED  BY <1>4, <3>1, <3>2 DEF CreateFailsBinding
    <2> QED  BY <2>1, <2>2
<1>5. ASSUME NEW i \in Reports, Download(i) PROVE ImagesInv'
    <2>1. Cardinality(Reports) \in 0 .. Cardinality(Reports) /\ Rebuilds(Cardinality(Reports))
        BY <1>5, ThreeReports DEF Download
    <2> QED  BY <1>5, <2>1, RebuildOnlyReports DEF Download, Rebuilds
<1>6. ASSUME NEW i \in Reports, LoseReport(i) PROVE ImagesInv'
    BY <1>6 DEF LoseReport
<1>7. CASE SessionCreated
    BY <1>7 DEF SessionCreated, Recording
<1>8. CASE RecordResult
    <2>1. PICK n \in 0 .. Cardinality(Reports) :
            /\ folder' = [folder EXCEPT !.exists = TRUE, !.reports = WrittenReports(n, stored.run)]
            /\ stored' \in {stored} \cup (IF n = Cardinality(Reports)
                                          THEN {[stored EXCEPT !.status = "completed"]} ELSE {})
        BY <1>8 DEF RecordResult
    <2>2. n \in 0 .. 3 /\ stored.run \in 0 .. MaxRuns /\ stored.status = "running"
        BY <1>8, ThreeReports DEF RecordResult, Recording
    <2>3. n = 3 => \A i \in Reports : WrittenReports(n, stored.run)[i] = stored.run
        BY <2>2, WrittenFacts
    <2>4. folder'.reports = WrittenReports(n, stored.run) /\ folder'.images = folder.images
        BY <2>1
    <2> QED  BY <1>8, <2>1, <2>2, <2>3, <2>4, ThreeReports DEF RecordResult, Recording
<1>9. CASE CloseRun
    BY <1>9 DEF CloseRun, Recording
<1>10. CASE ListReports
    <2>1. PICK n \in 0 .. Cardinality(Reports) : Rebuilds(n)
        BY <1>10 DEF ListReports
    <2> QED  BY <1>10, <2>1, RebuildOnlyReports DEF ListReports, Rebuilds
<1>11. CASE SendFile
    BY <1>11 DEF SendFile
<1>12. CASE WriteTombstone
    BY <1>12 DEF WriteTombstone
<1>13. CASE RemoveFolder
    BY <1>13 DEF RemoveFolder
<1>14. CASE StartRerun
    BY <1>14 DEF StartRerun
<1>15. CASE RerunFails
    BY <1>15 DEF RerunFails
<1>16. CASE ChildStarts
    BY <1>16 DEF ChildStarts
<1> QED
    BY <1>1, <1>2, <1>3, <1>4, <1>5, <1>6, <1>7, <1>8, <1>9, <1>10, <1>11, <1>12, <1>13, <1>14,
       <1>15, <1>16 DEF FilesNext

\* Nothing is written after a deletion was answered.
LEMMA ErasedStep == FilesInv /\ FilesNext => ErasedInv'
<1> SUFFICES ASSUME FilesInv, FilesNext PROVE ErasedInv'
    OBVIOUS
<1> USE DEF FilesInv, FilesTypeOK, ErasedInv
<1>1. ASSUME NEW image \in Images, Upload(image) PROVE ErasedInv'
    BY <1>1 DEF Upload
<1>2. ASSUME NEW image \in Images, CopyImage(image) PROVE ErasedInv'
    BY <1>2 DEF CopyImage
<1>3. ASSUME NEW images \in SUBSET Images, CreateWithImages(images) PROVE ErasedInv'
    BY <1>3 DEF CreateWithImages, Creatable
<1>4. ASSUME NEW images \in SUBSET Images, CreateFailsBinding(images) PROVE ErasedInv'
    BY <1>4 DEF CreateFailsBinding, Creatable
<1>5. ASSUME NEW i \in Reports, Download(i) PROVE ErasedInv'
    <2>1. Cardinality(Reports) \in 0 .. Cardinality(Reports) /\ Rebuilds(Cardinality(Reports))
        BY <1>5, ThreeReports DEF Download
    <2> QED  BY <1>5, <2>1, RebuildOnlyReports DEF Download, Rebuilds
<1>6. ASSUME NEW i \in Reports, LoseReport(i) PROVE ErasedInv'
    BY <1>6 DEF LoseReport
<1>7. CASE SessionCreated
    BY <1>7 DEF SessionCreated, Recording
<1>8. CASE RecordResult
    <2>1. PICK n \in 0 .. Cardinality(Reports) :
            /\ folder' = [folder EXCEPT !.exists = TRUE, !.reports = WrittenReports(n, stored.run)]
            /\ stored' \in {stored} \cup (IF n = Cardinality(Reports)
                                          THEN {[stored EXCEPT !.status = "completed"]} ELSE {})
        BY <1>8 DEF RecordResult
    <2>2. n \in 0 .. 3 /\ stored.run \in 0 .. MaxRuns /\ stored.status = "running"
        BY <1>8, ThreeReports DEF RecordResult, Recording
    <2>3. n = 3 => \A i \in Reports : WrittenReports(n, stored.run)[i] = stored.run
        BY <2>2, WrittenFacts
    <2>4. folder'.reports = WrittenReports(n, stored.run) /\ folder'.images = folder.images
        BY <2>1
    <2> QED  BY <1>8, <2>1, <2>2, <2>3, <2>4, ThreeReports DEF RecordResult, Recording
<1>9. CASE CloseRun
    BY <1>9 DEF CloseRun, Recording
<1>10. CASE ListReports
    <2>1. PICK n \in 0 .. Cardinality(Reports) : Rebuilds(n)
        BY <1>10 DEF ListReports
    <2> QED  BY <1>10, <2>1, RebuildOnlyReports DEF ListReports, Rebuilds
<1>11. CASE SendFile
    BY <1>11 DEF SendFile
<1>12. CASE WriteTombstone
    BY <1>12 DEF WriteTombstone
<1>13. CASE RemoveFolder
    BY <1>13 DEF RemoveFolder, NoReports
<1>14. CASE StartRerun
    BY <1>14 DEF StartRerun
<1>15. CASE RerunFails
    BY <1>15 DEF RerunFails
<1>16. CASE ChildStarts
    BY <1>16 DEF ChildStarts
<1> QED
    BY <1>1, <1>2, <1>3, <1>4, <1>5, <1>6, <1>7, <1>8, <1>9, <1>10, <1>11, <1>12, <1>13, <1>14,
       <1>15, <1>16 DEF FilesNext

\* A download stays with the run it was offered for.
LEMMA DownloadStep == FilesInv /\ FilesNext => DownloadInv'
<1> SUFFICES ASSUME FilesInv, FilesNext PROVE DownloadInv'
    OBVIOUS
<1> USE DEF FilesInv, FilesTypeOK, DownloadInv, ReportsInv
<1>1. ASSUME NEW image \in Images, Upload(image) PROVE DownloadInv'
    BY <1>1 DEF Upload
<1>2. ASSUME NEW image \in Images, CopyImage(image) PROVE DownloadInv'
    BY <1>2 DEF CopyImage
<1>3. ASSUME NEW images \in SUBSET Images, CreateWithImages(images) PROVE DownloadInv'
    BY <1>3 DEF CreateWithImages, Creatable
<1>4. ASSUME NEW images \in SUBSET Images, CreateFailsBinding(images) PROVE DownloadInv'
    BY <1>4 DEF CreateFailsBinding, Creatable
<1>5. ASSUME NEW i \in Reports, Download(i) PROVE DownloadInv'
    <2>1. Cardinality(Reports) \in 0 .. Cardinality(Reports) /\ Rebuilds(Cardinality(Reports))
        BY <1>5, ThreeReports DEF Download
    <2> QED  BY <1>5, <2>1, RebuildOnlyReports DEF Download, Rebuilds
<1>6. ASSUME NEW i \in Reports, LoseReport(i) PROVE DownloadInv'
    BY <1>6 DEF LoseReport
<1>7. CASE SessionCreated
    BY <1>7 DEF SessionCreated, Recording
<1>8. CASE RecordResult
    <2>1. PICK n \in 0 .. Cardinality(Reports) :
            /\ folder' = [folder EXCEPT !.exists = TRUE, !.reports = WrittenReports(n, stored.run)]
            /\ stored' \in {stored} \cup (IF n = Cardinality(Reports)
                                          THEN {[stored EXCEPT !.status = "completed"]} ELSE {})
        BY <1>8 DEF RecordResult
    <2>2. n \in 0 .. 3 /\ stored.run \in 0 .. MaxRuns /\ stored.status = "running"
        BY <1>8, ThreeReports DEF RecordResult, Recording
    <2>3. n = 3 => \A i \in Reports : WrittenReports(n, stored.run)[i] = stored.run
        BY <2>2, WrittenFacts
    <2>4. folder'.reports = WrittenReports(n, stored.run) /\ folder'.images = folder.images
        BY <2>1
    <2> QED  BY <1>8, <2>1, <2>2, <2>3, <2>4, ThreeReports DEF RecordResult, Recording
<1>9. CASE CloseRun
    BY <1>9 DEF CloseRun, Recording
<1>10. CASE ListReports
    <2>1. PICK n \in 0 .. Cardinality(Reports) : Rebuilds(n)
        BY <1>10 DEF ListReports
    <2> QED  BY <1>10, <2>1, RebuildOnlyReports DEF ListReports, Rebuilds
<1>11. CASE SendFile
    BY <1>11 DEF SendFile
<1>12. CASE WriteTombstone
    BY <1>12 DEF WriteTombstone
<1>13. CASE RemoveFolder
    <2>1. UNCHANGED reading /\ stored'.run = stored.run /\ erased' # "no"
        BY <1>13 DEF RemoveFolder
    <2>2. \A i \in Reports : folder'.reports[i] \in {0, folder.reports[i]}
        <3>1. CASE folder' = [exists |-> FALSE, images |-> {}, reports |-> NoReports]
            BY <3>1 DEF NoReports
        <3>2. ASSUME NEW kept \in SUBSET folder.images, NEW left \in SUBSET Reports,
                     folder' = [folder EXCEPT !.images = kept,
                                  !.reports = [i \in Reports |-> IF i \in left THEN @[i] ELSE 0]]
              PROVE  \A i \in Reports : folder'.reports[i] \in {0, folder.reports[i]}
            BY <3>2
        <3> QED  BY <1>13, <3>1, <3>2 DEF RemoveFolder
    <2> QED  BY <2>1, <2>2
<1>14. CASE StartRerun
    BY <1>14 DEF StartRerun
<1>15. CASE RerunFails
    BY <1>15 DEF RerunFails
<1>16. CASE ChildStarts
    BY <1>16 DEF ChildStarts
<1> QED
    BY <1>1, <1>2, <1>3, <1>4, <1>5, <1>6, <1>7, <1>8, <1>9, <1>10, <1>11, <1>12, <1>13, <1>14,
       <1>15, <1>16 DEF FilesNext

\* A rerun finds every image its parent lists.
LEMMA CopyStep == FilesInv /\ FilesNext => CopyInv'
<1> SUFFICES ASSUME FilesInv, FilesNext PROVE CopyInv'
    OBVIOUS
<1> USE DEF FilesInv, FilesTypeOK, CopyInv, ImagesInv
<1>1. ASSUME NEW image \in Images, Upload(image) PROVE CopyInv'
    BY <1>1 DEF Upload
<1>2. ASSUME NEW image \in Images, CopyImage(image) PROVE CopyInv'
    BY <1>2 DEF CopyImage
<1>3. ASSUME NEW images \in SUBSET Images, CreateWithImages(images) PROVE CopyInv'
    BY <1>3 DEF CreateWithImages, Creatable
<1>4. ASSUME NEW images \in SUBSET Images, CreateFailsBinding(images) PROVE CopyInv'
    <2>1. UNCHANGED <<uploads, stored, erased, copying, reading>> /\ erased = "no"
        BY <1>4 DEF CreateFailsBinding, Creatable
    <2>2. folder.images \subseteq folder'.images
        <3>1. CASE UNCHANGED folder
            BY <3>1
        <3>2. ASSUME NEW some \in SUBSET images,
                     folder' = [folder EXCEPT !.exists = TRUE, !.images = @ \cup some]
              PROVE  folder.images \subseteq folder'.images
            BY <3>2
        <3> QED  BY <1>4, <3>1, <3>2 DEF CreateFailsBinding
    <2> QED  BY <2>1, <2>2
<1>5. ASSUME NEW i \in Reports, Download(i) PROVE CopyInv'
    <2>1. Cardinality(Reports) \in 0 .. Cardinality(Reports) /\ Rebuilds(Cardinality(Reports))
        BY <1>5, ThreeReports DEF Download
    <2> QED  BY <1>5, <2>1, RebuildOnlyReports DEF Download, Rebuilds
<1>6. ASSUME NEW i \in Reports, LoseReport(i) PROVE CopyInv'
    BY <1>6 DEF LoseReport
<1>7. CASE SessionCreated
    BY <1>7 DEF SessionCreated, Recording
<1>8. CASE RecordResult
    <2>1. PICK n \in 0 .. Cardinality(Reports) :
            /\ folder' = [folder EXCEPT !.exists = TRUE, !.reports = WrittenReports(n, stored.run)]
            /\ stored' \in {stored} \cup (IF n = Cardinality(Reports)
                                          THEN {[stored EXCEPT !.status = "completed"]} ELSE {})
        BY <1>8 DEF RecordResult
    <2>2. n \in 0 .. 3 /\ stored.run \in 0 .. MaxRuns /\ stored.status = "running"
        BY <1>8, ThreeReports DEF RecordResult, Recording
    <2>3. n = 3 => \A i \in Reports : WrittenReports(n, stored.run)[i] = stored.run
        BY <2>2, WrittenFacts
    <2>4. folder'.reports = WrittenReports(n, stored.run) /\ folder'.images = folder.images
        BY <2>1
    <2> QED  BY <1>8, <2>1, <2>2, <2>3, <2>4, ThreeReports DEF RecordResult, Recording
<1>9. CASE CloseRun
    BY <1>9 DEF CloseRun, Recording
<1>10. CASE ListReports
    <2>1. PICK n \in 0 .. Cardinality(Reports) : Rebuilds(n)
        BY <1>10 DEF ListReports
    <2> QED  BY <1>10, <2>1, RebuildOnlyReports DEF ListReports, Rebuilds
<1>11. CASE SendFile
    BY <1>11 DEF SendFile
<1>12. CASE WriteTombstone
    BY <1>12 DEF WriteTombstone
<1>13. CASE RemoveFolder
    BY <1>13 DEF RemoveFolder
<1>14. CASE StartRerun
    BY <1>14 DEF StartRerun
<1>15. CASE RerunFails
    BY <1>15 DEF RerunFails
<1>16. CASE ChildStarts
    BY <1>16 DEF ChildStarts
<1> QED
    BY <1>1, <1>2, <1>3, <1>4, <1>5, <1>6, <1>7, <1>8, <1>9, <1>10, <1>11, <1>12, <1>13, <1>14,
       <1>15, <1>16 DEF FilesNext

\* A step that leaves the files alone.
LEMMA FilesStutter == FilesInv /\ UNCHANGED filesVars => FilesInv'
BY DEF filesVars, FilesInv, FilesTypeOK, ReportsInv, ImagesInv, ErasedInv, DownloadInv, CopyInv

\* The inductive invariant says more than is promised.
LEMMA FilesInvImplies == FilesInv => FilesAgree
<1> SUFFICES ASSUME FilesInv PROVE FilesAgree
    OBVIOUS
<1>1. stored.status = "completed" /\ erased = "no" =>
          \A i \in Reports \ MissingReports : folder.reports[i] = stored.run
    BY DEF FilesInv, ReportsInv, MissingReports
<1>2. erased = "answered" => MissingReports = Reports
    BY DEF FilesInv, ErasedInv, MissingReports
<1>3. copying.at = "running" /\ erased = "no" => copying.images = copying.wanted
    BY DEF FilesInv, CopyInv
<1> QED  BY <1>1, <1>2, <1>3 DEF FilesInv, FilesAgree, DownloadInv, ImagesInv, ErasedInv

\* FilesInv is inductive.
THEOREM FilesInvariant == FilesSpec => []FilesInv
<1>1. FilesInv /\ [FilesNext]_filesVars => FilesInv'
    BY TypeStep, ReportsStep, ImagesStep, ErasedStep, DownloadStep, CopyStep, FilesStutter
        DEF FilesInv
<1> QED  BY <1>1, FilesInitially, PTL DEF FilesSpec

\* The variables of TaskFiles keep their types.
THEOREM FilesTyped == FilesSpec => []FilesTypeOK
<1>1. FilesInv => FilesTypeOK
    BY DEF FilesInv
<1> QED  BY <1>1, FilesInvariant, PTL

\* Whatever fails or disappears and however often a thread is used again, what is offered,
\* sent, listed, copied or left over belongs to the run the snapshot tells of.
THEOREM FilesAlwaysAgree == FilesSpec => []FilesAgree
<1> QED  BY FilesInvImplies, FilesInvariant, PTL
=============================================================================
