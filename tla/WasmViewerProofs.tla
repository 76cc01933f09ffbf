-------------------------- MODULE WasmViewerProofs --------------------------
(***************************************************************************)
(* The embedded viewer, for any set of files and any numbers of edits and  *)
(* dialect reads: one request for each promise, no row, edit or byte of    *)
(* one file taken for another's, and clean only when the host has it.      *)
(*                                                                         *)
(* Every part of the inductive invariant is about the two ends of the      *)
(* channel: what the worker has done already and the shell has not heard   *)
(* of is in `replies`, in the order in which the shell will hear of it.    *)
(***************************************************************************)
EXTENDS WasmViewer, FiniteSetTheorems, FunctionTheorems, SequenceTheorems, TLAPS

MessageTypes == {"open", "readRows", "mutate", "reset", "readCsvOptions", "save"}

EditSet == File \X (1 .. MaxEdits)

Content == [file : File \cup {NoFile}, edits : SUBSET EditSet]

Arg == File \cup Nat \cup EditSet

Request == [type : MessageTypes, arg : Arg]

Reply == [type : MessageTypes, ok : BOOLEAN, arg : Arg, file : File \cup {NoFile},
          edits : SUBSET EditSet]

Awaiting == {"preparing", "persisting", "stored", "refused"}

----------------------------------------------------------------------------
(* Types and messages.                                                     *)

Types ==
    /\ requests \in Seq(Request) /\ replies \in Seq(Reply)
    /\ view \in File \cup {NoFile} /\ activeName \in File \cup {NoFile}
    /\ page \in File \cup {NoFile} /\ savedName \in File \cup {NoFile}
    /\ edits \in SUBSET EditSet /\ saved \in SUBSET EditSet
    /\ viewOpen \in BOOLEAN /\ dirty \in BOOLEAN /\ loading \in BOOLEAN /\ unchanged \in BOOLEAN
    /\ reading \in BOOLEAN /\ initialized \in BOOLEAN /\ waits \in BOOLEAN
    /\ generation \in Nat /\ made \in 0 .. MaxEdits /\ reads \in 0 .. MaxReads
    /\ saving \in Awaiting \cup {"no", "settling"}
    /\ resetting \in {"no", "settling", "asked"}
    /\ savedBytes \in Content
    /\ queue \in [Opener -> Seq(File)] /\ running \in [Opener -> File \cup {NoFile}]
    /\ unsent \in SUBSET File /\ stored \in [File -> Content] /\ refused \in SUBSET File

\* A name is there once a view was loaded; a save has one from Prepare on.
Named ==
    /\ generation > 0 <=> activeName # NoFile
    /\ viewOpen \/ reading \/ saving # "no" => activeName # NoFile
    /\ savedName # NoFile <=> saving \in Awaiting

\* What an argument is, by the type of its message; opened means what was asked for.
Messages ==
    /\ \A i \in DOMAIN requests :
         /\ requests[i].type = "open" => requests[i].arg \in File
         /\ requests[i].type = "mutate" => requests[i].arg \in EditSet
         /\ requests[i].type \in {"readRows", "readCsvOptions"} => requests[i].arg \in 1 .. generation
    /\ \A i \in DOMAIN replies :
         /\ replies[i].type = "open" =>
              replies[i].arg \in File /\ (replies[i].ok => replies[i].file = replies[i].arg)
         /\ replies[i].type \in {"readRows", "readCsvOptions"} => replies[i].arg \in 1 .. generation
         /\ replies[i].type = "save" /\ replies[i].ok => replies[i].file # NoFile

InRequests(type) == \E i \in DOMAIN requests : requests[i].type = type

InReplies(type) == \E i \in DOMAIN replies : replies[i].type = type

UnderWay(type) == InRequests(type) \/ InReplies(type)

OneFor(type) ==
    /\ \A i, j \in DOMAIN requests : requests[i].type = type /\ requests[j].type = type => i = j
    /\ \A i, j \in DOMAIN replies : replies[i].type = type /\ replies[j].type = type => i = j
    /\ ~(InRequests(type) /\ InReplies(type))

\* One request for each promise that is waited for.
OneEach ==
    /\ OneFor("save") /\ OneFor("reset") /\ OneFor("readCsvOptions")
    /\ UnderWay("save") <=> saving = "preparing"
    /\ UnderWay("reset") <=> resetting = "asked"
    /\ UnderWay("readCsvOptions") <=> reading

----------------------------------------------------------------------------
(* Opens: every file is sent, queued, asked for and answered once.         *)

Queued(f) == \E o \in Opener : \E i \in DOMAIN queue[o] : queue[o][i] = f

Asks(i, f) == requests[i].type = "open" /\ requests[i].arg = f

Answers(i, f) == replies[i].type = "open" /\ replies[i].arg = f

Asked(f) == \E i \in DOMAIN requests : Asks(i, f)

Answered(f) == \E i \in DOMAIN replies : Answers(i, f)

Unopened(f) == f \in unsent \/ Queued(f) \/ Asked(f)

OneOpen(f) ==
    /\ \A i, j \in DOMAIN requests : Asks(i, f) /\ Asks(j, f) => i = j
    /\ \A i, j \in DOMAIN replies : Answers(i, f) /\ Answers(j, f) => i = j
    /\ ~(Asked(f) /\ Answered(f))

QueuedOnce ==
    \A o, p \in Opener : \A i \in DOMAIN queue[o], j \in DOMAIN queue[p] :
        queue[o][i] = queue[p][j] => o = p /\ i = j

OpenedOnce ==
    /\ \A f \in File :
         /\ OneOpen(f)
         /\ f \in unsent => ~Queued(f) /\ ~Asked(f) /\ ~Answered(f)
         /\ Queued(f) => ~Asked(f) /\ ~Answered(f)
    /\ QueuedOnce

\* Each opener that runs waits for one of the opens under way, and every one is waited for.
Openers ==
    /\ \A o \in Opener : running[o] # NoFile => Asked(running[o]) \/ Answered(running[o])
    /\ \A o, p \in Opener : running[o] = running[p] /\ running[o] # NoFile => o = p
    /\ \A f \in File : Asked(f) \/ Answered(f) => \E o \in Opener : running[o] = f
    /\ ~initialized => generation = 0 /\ ~viewOpen /\ \A o \in Opener : running[o] = NoFile

\* Until it is opened nobody has heard of a file.
Untouched ==
    \A f \in File : Unopened(f) =>
        /\ view # f /\ activeName # f /\ savedName # f /\ f \notin refused
        /\ stored[f] = [file |-> f, edits |-> {}]

----------------------------------------------------------------------------
(* Pages.                                                                  *)

OpenOk(i) == replies[i].type = "open" /\ replies[i].ok

\* The shell is behind the worker by the opens among the replies, and only by them.
ShownFile ==
    /\ generation > 0 /\ (\A i \in DOMAIN replies : ~OpenOk(i)) => view \in {activeName, NoFile}
    /\ \A i \in DOMAIN replies :
         OpenOk(i) /\ (\A j \in DOMAIN replies : j > i => ~OpenOk(j))
           => view \in {replies[i].file, NoFile}

Pages ==
    /\ page # NoFile => page = activeName
    /\ \A i \in DOMAIN replies :
         replies[i].type = "readRows" /\ replies[i].ok /\ replies[i].arg = generation
           => replies[i].file = activeName \/ \E j \in DOMAIN replies : j < i /\ OpenOk(j)

----------------------------------------------------------------------------
(* What is clean and what is stored.                                       *)

Mutation(m) == m.type \in MutationTypes

\* A view that was just opened has no edits but those whose answers follow.
OpenedClean ==
    \A i \in DOMAIN replies :
        OpenOk(i) /\ (\A j \in DOMAIN replies : j > i => ~Mutation(replies[j]))
          => edits = {} /\ saved = {}

\* The request of a save comes after the answers of all edits, and bytes under
\* another file's name have no edits.
SaveAsked ==
    \A i \in DOMAIN requests : requests[i].type = "save" =>
        /\ \A j \in DOMAIN requests : j < i => ~Mutation(requests[j])
        /\ \A j \in DOMAIN replies : ~Mutation(replies[j])
        /\ (\A j \in DOMAIN requests : j < i => requests[j].type # "open")
             => view \in {savedName, NoFile} \/ (edits = {} /\ saved = {})

SaveAnswered(i) == replies[i].type = "save" /\ replies[i].ok

\* The working file is what the host stores, has stored, or has refused.
SavedBytes ==
    /\ \A i \in DOMAIN replies :
         SaveAnswered(i) /\ view = savedName => replies[i].file = view /\ replies[i].edits = saved
    /\ saving = "persisting" /\ view = savedName => savedBytes = [file |-> view, edits |-> saved]
    /\ saving = "stored" => savedName \notin refused
    /\ view # NoFile /\ view \notin refused
         /\ ~(savedName = view /\ (saving = "persisting" \/ \E i \in DOMAIN replies : SaveAnswered(i)))
         => stored[view] = [file |-> view, edits |-> saved]

\* Answers that make the shell clean.
Clears(i) == replies[i].type \in {"open", "readCsvOptions", "reset"} /\ replies[i].ok

EditAnswered(i) == replies[i].type = "mutate" /\ replies[i].ok

\* What is not in the working file makes the shell dirty, now or with an answer that
\* nothing takes back.
UnsavedIsDirty ==
    \/ edits = saved
    \/ \E i \in DOMAIN replies :
         EditAnswered(i) /\ \A j \in DOMAIN replies : j > i => ~Clears(j)
    \/ (dirty \/ ~viewOpen) /\ \A i \in DOMAIN replies : ~Clears(i)

\* While the revision of a save is the last one, nothing but it is under way.
Revision ==
    saving \in Awaiting /\ unchanged =>
        /\ ~Pending
        /\ \A i \in DOMAIN requests : requests[i].type = "save" =>
             \A j \in DOMAIN requests : j > i => requests[j].type # "open"
        /\ ~InRequests("save") => ~InRequests("open")
        /\ (\E i \in DOMAIN replies : SaveAnswered(i)) => edits = saved
        /\ saving \in {"persisting", "stored"} => edits = saved
        /\ dirty => savedName = activeName
        /\ dirty => \A i \in DOMAIN replies : SaveAnswered(i) =>
             view = activeName \/ \E j \in DOMAIN replies : j < i /\ OpenOk(j)
        /\ dirty /\ saving \in {"persisting", "stored"} => view = activeName

----------------------------------------------------------------------------
(* A host that waits.                                                      *)

OfFile(es, f) == \A e \in es : e[1] = f

NoneUnderWay == \A f \in File : ~Asked(f) /\ ~Answered(f)

\* One open at a time, with no view before its end, and no edit is behind it.
Alone ==
    /\ queue["chained"] = <<>> /\ Len(queue["queued"]) <= 1
    /\ queue["queued"] # <<>> => /\ running = [o \in Opener |-> NoFile]
                                /\ ~viewOpen
    /\ \A o, p \in Opener : running[o] # NoFile /\ running[p] # NoFile => o = p
    /\ viewOpen => NoneUnderWay /\ view = activeName
    /\ \A i \in DOMAIN replies : OpenOk(i) => view = replies[i].file
    /\ saving \in {"settling", "preparing"} \/ reading => viewOpen
    /\ saving = "preparing" => savedName = activeName

\* Edits on their way are for the file that is open when they arrive.
OwnEdits ==
    /\ OfFile(edits, view) /\ OfFile(saved, view)
    /\ \A i \in DOMAIN requests : requests[i].type = "mutate" =>
         /\ requests[i].arg[1] = view
         /\ \A j \in DOMAIN requests : requests[j].type = "open" => i < j
    /\ \A i \in DOMAIN replies : SaveAnswered(i) =>
         replies[i].file = savedName /\ OfFile(replies[i].edits, savedName)
    /\ saving = "persisting" => savedBytes.file = savedName /\ OfFile(savedBytes.edits, savedName)
    /\ \A f \in File : stored[f].file = f /\ OfFile(stored[f].edits, f)

WaitingHost == waits => Alone /\ OwnEdits

----------------------------------------------------------------------------
Channel == Types /\ Named /\ Messages /\ OneEach

Opening == OpenedOnce /\ Openers /\ Untouched

IInv ==
    /\ Channel /\ Opening
    /\ ShownFile /\ Pages
    /\ OpenedClean /\ SaveAsked /\ SavedBytes /\ UnsavedIsDirty /\ Revision
    /\ WaitingHost

----------------------------------------------------------------------------
(* The two ends of the channel, element by element.                        *)

\* t is s without its first message.
Shifted(s, t) ==
    /\ 1 \in DOMAIN s /\ Head(s) = s[1]
    /\ \A i \in DOMAIN t : i \in Nat \ {0} /\ i + 1 \in DOMAIN s /\ t[i] = s[i + 1]
    /\ \A i \in DOMAIN s : i = 1 \/ (i \in Nat /\ i - 1 \in DOMAIN t /\ t[i - 1] = s[i])

\* t is s and one message more.
Extended(s, t, m) ==
    /\ Len(s) + 1 \in DOMAIN t /\ t[Len(s) + 1] = m /\ Len(s) \in Nat
    /\ \A i \in DOMAIN s : i \in 1 .. Len(s) /\ i \in DOMAIN t /\ t[i] = s[i]
    /\ \A i \in DOMAIN t : i = Len(s) + 1 \/ (i \in DOMAIN s /\ t[i] = s[i])

USE WasmViewerAssumption
USE DEF workerVars, shellVars, bridgeVars, hostVars, saveVars, openVars, Apart, Opener

\* The tail of a sequence: every element one place further to the front.
LEMMA TailShifts ==
    ASSUME NEW S, NEW s \in Seq(S), s # <<>>
    PROVE  Shifted(s, Tail(s)) /\ Tail(s) \in Seq(S)
  <1>1. /\ Tail(s) \in Seq(S) /\ Len(Tail(s)) = Len(s) - 1 /\ Head(s) = s[1] /\ Len(s) \in Nat
        /\ Len(s) > 0 /\ \A i \in 1 .. Len(Tail(s)) : Tail(s)[i] = s[i + 1]
    BY HeadTailProperties, EmptySeq, LenProperties
  <1>2. DOMAIN s = 1 .. Len(s) /\ DOMAIN Tail(s) = 1 .. (Len(s) - 1)
    BY <1>1, LenProperties
  <1> DEFINE t == Tail(s)
  <1> HIDE DEF t
  <1>3. \A i \in DOMAIN t : i \in Nat \ {0} /\ i + 1 \in DOMAIN s /\ t[i] = s[i + 1]
    BY <1>1, <1>2 DEF t
  <1>4. \A i \in DOMAIN s : i = 1 \/ (i \in Nat /\ i - 1 \in DOMAIN t /\ t[i - 1] = s[i])
    BY <1>1, <1>2 DEF t
  <1> QED
    BY <1>1, <1>2, <1>3, <1>4 DEF Shifted, t

\* A sequence with one more element at its end.
LEMMA AppendExtends ==
    ASSUME NEW S, NEW s \in Seq(S), NEW m \in S
    PROVE  Extended(s, Append(s, m), m) /\ Append(s, m) \in Seq(S)
  <1>1. /\ Append(s, m) \in Seq(S) /\ Len(Append(s, m)) = Len(s) + 1 /\ Len(s) \in Nat
        /\ \A i \in 1 .. Len(s) : Append(s, m)[i] = s[i]
        /\ Append(s, m)[Len(s) + 1] = m
    BY AppendProperties, LenProperties
  <1>2. DOMAIN s = 1 .. Len(s) /\ DOMAIN Append(s, m) = 1 .. (Len(s) + 1)
    BY <1>1, LenProperties
  <1> DEFINE t == Append(s, m)
  <1> HIDE DEF t
  <1>3. \A i \in DOMAIN t : i = Len(s) + 1 \/ (i \in DOMAIN s /\ t[i] = s[i])
    BY <1>1, <1>2 DEF t
  <1> QED
    BY <1>1, <1>2, <1>3 DEF Extended, t

\* A step posts a request, takes an answer, or handles a request.
Posted(type, arg) ==
    /\ Extended(requests, requests', [type |-> type, arg |-> arg]) /\ requests' \in Seq(Request)
    /\ UNCHANGED replies

Took(type) ==
    /\ Shifted(replies, replies') /\ replies' \in Seq(Reply) /\ replies[1].type = type
    /\ UNCHANGED requests

Handled(type, ok) ==
    /\ Shifted(requests, requests') /\ requests' \in Seq(Request) /\ requests[1].type = type
    /\ \E m \in Reply :
         /\ Extended(replies, replies', m)
         /\ m.type = type /\ m.ok = ok /\ m.arg = requests[1].arg
         /\ m.file = view' /\ m.edits = edits'
    /\ replies' \in Seq(Reply)

\* request of csv-worker-adapter.mjs puts one message behind the others.
LEMMA Posting ==
    ASSUME Types, NEW type \in MessageTypes, NEW arg \in Arg, Post(type, arg), UNCHANGED replies
    PROVE  Posted(type, arg)
  <1>1. [type |-> type, arg |-> arg] \in Request
    BY DEF Request
  <1>2. requests \in Seq(Request) /\ requests' = Append(requests, [type |-> type, arg |-> arg])
    BY DEF Types, Post
  <1> QED
    BY <1>1, <1>2, AppendExtends DEF Posted

\* The shell takes the oldest answer.
LEMMA Taking ==
    ASSUME Types, NEW type, NEW ok, Receive(type, ok), UNCHANGED requests
    PROVE  Took(type) /\ replies[1].ok = ok
  <1>1. replies \in Seq(Reply) /\ replies # <<>> /\ replies' = Tail(replies)
    BY DEF Types, Receive
  <1>2. Shifted(replies, replies') /\ replies' \in Seq(Reply)
    BY <1>1, TailShifts
  <1> QED
    BY <1>2 DEF Took, Shifted, Receive

\* csv-worker.js takes the oldest request and answers it with the view as it then is.
LEMMA Handling ==
    ASSUME Types, NEW type, NEW ok \in BOOLEAN, Handle(type), Answer(ok),
           view' \in File \cup {NoFile}, edits' \in SUBSET EditSet
    PROVE  Handled(type, ok)
  <1>1. requests \in Seq(Request) /\ requests # <<>> /\ requests' = Tail(requests)
    BY DEF Types, Handle
  <1>2. Shifted(requests, requests') /\ requests' \in Seq(Request)
    BY <1>1, TailShifts
  <1>3. requests[1] \in Request /\ requests[1].type = type
    BY <1>1, <1>2, ElementOfSeq, LenProperties DEF Shifted, Handle
  <1> DEFINE m == [type |-> type, ok |-> ok, arg |-> requests[1].arg, file |-> view',
                   edits |-> edits']
  <1>4. m \in Reply
    BY <1>3 DEF Request, Reply
  <1>5. replies \in Seq(Reply) /\ replies' = Append(replies, m)
    BY <1>2, <1>3 DEF Types, Answer, Shifted, Handle
  <1>6. /\ m.type = type /\ m.ok = ok /\ m.arg = requests[1].arg
        /\ m.file = view' /\ m.edits = edits'
    OBVIOUS
  <1> HIDE DEF m
  <1>7. Extended(replies, replies', m) /\ replies' \in Seq(Reply)
    BY <1>4, <1>5, AppendExtends
  <1> QED
    BY <1>2, <1>3, <1>4, <1>6, <1>7 DEF Handled

\* Every message of the two ends.
LEMMA Elements ==
    ASSUME Types
    PROVE  /\ \A i \in DOMAIN requests : requests[i] \in Request /\ i \in Nat \ {0}
           /\ \A i \in DOMAIN replies : replies[i] \in Reply /\ i \in Nat \ {0}
  <1>1. requests \in Seq(Request) /\ replies \in Seq(Reply)
    BY DEF Types
  <1> QED
    BY <1>1, ElementOfSeq, LenProperties

----------------------------------------------------------------------------
(* What a move of the channel does to each part.                           *)

\* One request of a type: a second is posted only when none is under way.
LEMMA OnePosted ==
    ASSUME NEW type, NEW t, NEW arg, OneFor(type), Posted(t, arg), t = type => ~UnderWay(type)
    PROVE  OneFor(type)' /\ (UnderWay(type)' <=> UnderWay(type) \/ t = type)
  BY DEF OneFor, UnderWay, InRequests, InReplies, Posted, Extended

\* One request of a type: its answer ends it.
LEMMA OneTook ==
    ASSUME NEW type, NEW t, OneFor(type), Took(t)
    PROVE  OneFor(type)' /\ (UnderWay(type)' <=> UnderWay(type) /\ t # type)
  BY DEF OneFor, UnderWay, InRequests, InReplies, Took, Shifted

\* One request of a type: the worker turns it into its answer.
LEMMA OneHandled ==
    ASSUME NEW type, NEW t, NEW ok, OneFor(type), Handled(t, ok)
    PROVE  OneFor(type)' /\ (UnderWay(type)' <=> UnderWay(type))
  <1>1. \A i \in DOMAIN requests' : i + 1 \in DOMAIN requests /\ requests'[i] = requests[i + 1]
                                   /\ i \in Nat \ {0}
    BY DEF Handled, Shifted
  <1>2. \A i \in DOMAIN requests :
         i = 1 \/ (i - 1 \in DOMAIN requests' /\ requests'[i - 1] = requests[i])
    BY DEF Handled, Shifted
  <1>3. 1 \in DOMAIN requests /\ requests[1].type = t
    BY DEF Handled, Shifted
  <1>4. PICK m : Extended(replies, replies', m) /\ m.type = t
    BY DEF Handled
  <1>5. InRequests(type)' <=> InRequests(type) /\ t # type
    <2>1. ASSUME InRequests(type)'
          PROVE  InRequests(type) /\ t # type
      <3>1. PICK i \in DOMAIN requests' : requests'[i].type = type
        BY <2>1 DEF InRequests
      <3>2. i + 1 # 1 /\ i + 1 \in DOMAIN requests /\ requests[i + 1].type = type
        BY <1>1, <3>1
      <3> QED
        BY <1>3, <3>2 DEF OneFor, InRequests
    <2>2. ASSUME InRequests(type), t # type
          PROVE  InRequests(type)'
      BY <1>2, <1>3, <2>2 DEF InRequests
    <2> QED
      BY <2>1, <2>2
  <1>6. InReplies(type)' <=> InReplies(type) \/ t = type
    BY <1>4 DEF InReplies, Extended
  <1>7. t = type => InRequests(type)
    BY <1>3 DEF InRequests
  <1>8. \A i, j \in DOMAIN requests' : requests'[i].type = type /\ requests'[j].type = type => i = j
    BY <1>1 DEF OneFor
  <1>9. \A i, j \in DOMAIN replies' : replies'[i].type = type /\ replies'[j].type = type => i = j
    BY <1>4, <1>7 DEF OneFor, InReplies, Extended
  <1> QED
    BY <1>5, <1>6, <1>7, <1>8, <1>9 DEF OneFor, UnderWay

\* An open is asked for when none of that file is under way.
LEMMA OpenPosted ==
    ASSUME NEW f, NEW t, NEW arg, OneOpen(f), Posted(t, arg),
           t = "open" /\ arg = f => ~Asked(f) /\ ~Answered(f)
    PROVE  /\ OneOpen(f)' /\ (Answered(f)' <=> Answered(f))
           /\ Asked(f)' <=> Asked(f) \/ (t = "open" /\ arg = f)
  BY DEF OneOpen, Asks, Answers, Asked, Answered, Posted, Extended

\* An open ends with its answer.
LEMMA OpenTook ==
    ASSUME NEW f, NEW t, OneOpen(f), Took(t)
    PROVE  /\ OneOpen(f)' /\ (Asked(f)' <=> Asked(f))
           /\ Answered(f)' <=> Answered(f) /\ ~(t = "open" /\ replies[1].arg = f)
  BY DEF OneOpen, Asks, Answers, Asked, Answered, Took, Shifted

\* The worker turns the request to open a file into its answer.
LEMMA OpenHandled ==
    ASSUME NEW f, NEW t, NEW ok, OneOpen(f), Handled(t, ok)
    PROVE  /\ OneOpen(f)'
           /\ Asked(f)' <=> Asked(f) /\ ~(t = "open" /\ requests[1].arg = f)
           /\ Answered(f)' <=> Answered(f) \/ (t = "open" /\ requests[1].arg = f)
  <1>1. \A i \in DOMAIN requests' : i + 1 \in DOMAIN requests /\ requests'[i] = requests[i + 1]
                                   /\ i \in Nat \ {0}
    BY DEF Handled, Shifted
  <1>2. \A i \in DOMAIN requests :
         i = 1 \/ (i - 1 \in DOMAIN requests' /\ requests'[i - 1] = requests[i])
    BY DEF Handled, Shifted
  <1>3. 1 \in DOMAIN requests /\ requests[1].type = t
    BY DEF Handled, Shifted
  <1>4. PICK m : Extended(replies, replies', m) /\ m.type = t /\ m.arg = requests[1].arg
    BY DEF Handled
  <1> DEFINE now == t = "open" /\ requests[1].arg = f
  <1>5. Asked(f)' <=> Asked(f) /\ ~now
    <2>1. ASSUME Asked(f)'
          PROVE  Asked(f) /\ ~now
      <3>1. PICK i \in DOMAIN requests' : Asks(i, f)'
        BY <2>1 DEF Asked
      <3>2. i + 1 # 1 /\ i + 1 \in DOMAIN requests /\ Asks(i + 1, f)
        BY <1>1, <3>1 DEF Asks
      <3> QED
        BY <1>3, <3>2 DEF OneOpen, Asked, Asks
    <2>2. ASSUME Asked(f), ~now
          PROVE  Asked(f)'
      BY <1>2, <1>3, <2>2 DEF Asked, Asks
    <2> QED
      BY <2>1, <2>2
  <1>6. Answered(f)' <=> Answered(f) \/ now
    BY <1>4 DEF Answered, Answers, Extended
  <1>7. now => Asked(f)
    BY <1>3 DEF Asked, Asks
  <1>8. \A i, j \in DOMAIN requests' : Asks(i, f)' /\ Asks(j, f)' => i = j
    BY <1>1 DEF OneOpen, Asks
  <1>9. \A i, j \in DOMAIN replies' : Answers(i, f)' /\ Answers(j, f)' => i = j
    BY <1>4, <1>7 DEF OneOpen, Answered, Answers, Extended
  <1> QED
    BY <1>5, <1>6, <1>7, <1>8, <1>9 DEF OneOpen

\* What arguments mean, when a request is posted.
LEMMA MessagesPosted ==
    ASSUME NEW type, NEW arg, Messages, Posted(type, arg), UNCHANGED generation,
           type = "open" => arg \in File, type = "mutate" => arg \in EditSet,
           type \in {"readRows", "readCsvOptions"} => arg \in 1 .. generation
    PROVE  Messages'
  BY DEF Messages, Posted, Extended

\* What arguments mean, when an answer is taken.
LEMMA MessagesTook ==
    ASSUME NEW type, Messages, Took(type), generation \in Nat,
           generation' \in {generation, generation + 1}
    PROVE  Messages'
  BY DEF Messages, Took, Shifted

\* What arguments mean, when a request is answered.
LEMMA MessagesHandled ==
    ASSUME NEW type, NEW ok, Messages, Handled(type, ok), UNCHANGED generation,
           type = "open" /\ ok => view' = requests[1].arg, type = "save" /\ ok => view' # NoFile
    PROVE  Messages'
  BY DEF Messages, Handled, Shifted, Extended

\* The file the worker shows, when an answer is taken: an opened one becomes the name.
LEMMA ShownTook ==
    ASSUME NEW type, ShownFile, Took(type), UNCHANGED view,
           generation' > 0 => generation > 0 \/ OpenOk(1),
           OpenOk(1) => activeName' = replies[1].file, ~OpenOk(1) => UNCHANGED activeName
    PROVE  ShownFile'
  <1>1. generation' > 0 /\ (\A i \in DOMAIN replies' : ~OpenOk(i)') => view \in {activeName', NoFile}
    <2>1. CASE OpenOk(1)
      BY <2>1 DEF ShownFile, OpenOk, Took, Shifted
    <2>2. CASE ~OpenOk(1)
      BY <2>2 DEF ShownFile, OpenOk, Took, Shifted
    <2> QED
      BY <2>1, <2>2
  <1>2. ASSUME NEW i \in DOMAIN replies', OpenOk(i)', \A j \in DOMAIN replies' : j > i => ~OpenOk(j)'
        PROVE  view \in {replies'[i].file, NoFile}
    <2>1. i + 1 \in DOMAIN replies /\ replies'[i] = replies[i + 1] /\ OpenOk(i + 1) /\ i \in Nat
      BY <1>2 DEF Took, Shifted, OpenOk
    <2>2. \A j \in DOMAIN replies : j > i + 1 => ~OpenOk(j)
      BY <1>2, <2>1 DEF Took, Shifted, OpenOk
    <2> QED
      BY <2>1, <2>2 DEF ShownFile
  <1> QED
    BY <1>1, <1>2 DEF ShownFile

\* The file the worker shows, when a request is answered.
LEMMA ShownHandled ==
    ASSUME NEW type, NEW ok, ShownFile, Handled(type, ok), UNCHANGED <<activeName, generation>>,
           IF type = "open" THEN ok \/ view' = NoFile ELSE UNCHANGED view
    PROVE  ShownFile'
  <1>1. PICK m : Extended(replies, replies', m) /\ m.type = type /\ m.ok = ok /\ m.file = view'
    BY DEF Handled
  <1>2. ASSUME generation > 0, \A i \in DOMAIN replies' : ~OpenOk(i)'
        PROVE  view' \in {activeName, NoFile}
    <2>1. (\A i \in DOMAIN replies : ~OpenOk(i)) /\ ~(type = "open" /\ ok)
      BY <1>1, <1>2 DEF OpenOk, Extended
    <2> QED
      BY <1>2, <2>1 DEF ShownFile
  <1>3. ASSUME NEW i \in DOMAIN replies', OpenOk(i)', \A j \in DOMAIN replies' : j > i => ~OpenOk(j)'
        PROVE  view' \in {replies'[i].file, NoFile}
    <2>1. CASE i \in DOMAIN replies /\ replies'[i] = replies[i]
      <3>1. OpenOk(i) /\ \A j \in DOMAIN replies : j > i => ~OpenOk(j)
        BY <1>1, <1>3, <2>1 DEF OpenOk, Extended
      <3>2. ~(type = "open" /\ ok)
        BY <1>1, <1>3, <2>1 DEF OpenOk, Extended
      <3> QED
        BY <2>1, <3>1, <3>2 DEF ShownFile
    <2>2. CASE i = Len(replies) + 1
      BY <1>1, <1>3, <2>2 DEF Extended
    <2> QED
      BY <1>1, <2>1, <2>2 DEF Extended
  <1> QED
    BY <1>2, <1>3 DEF ShownFile

\* The page on the screen: it is taken only of the generation that asked for it.
LEMMA PagesTook ==
    ASSUME NEW type, Pages, Messages, Took(type), generation \in Nat,
           \/ generation' = generation + 1 /\ page' = NoFile
           \/ /\ UNCHANGED <<generation, activeName>> /\ ~OpenOk(1)
              /\ page' # page => /\ type = "readRows" /\ replies[1].ok
                                 /\ replies[1].arg = generation /\ page' = replies[1].file
    PROVE  Pages'
  <1>1. page' # NoFile => page' = activeName'
    BY DEF Pages, Took, Shifted
  <1>2. ASSUME NEW i \in DOMAIN replies', replies'[i].type = "readRows", replies'[i].ok,
               replies'[i].arg = generation',
               ~\E j \in DOMAIN replies' : j < i /\ OpenOk(j)'
        PROVE  replies'[i].file = activeName'
    <2>1. i + 1 \in DOMAIN replies /\ replies'[i] = replies[i + 1] /\ i \in Nat
      BY <1>2 DEF Took, Shifted
    <2>2. replies[i + 1].arg \in 1 .. generation
      BY <1>2, <2>1 DEF Messages
    <2>3. UNCHANGED <<generation, activeName>> /\ ~OpenOk(1)
      BY <1>2, <2>1, <2>2
    <2>4. ~\E j \in DOMAIN replies : j < i + 1 /\ OpenOk(j)
      BY <1>2, <2>1, <2>3 DEF Took, Shifted, OpenOk
    <2> QED
      BY <1>2, <2>1, <2>3, <2>4 DEF Pages
  <1> QED
    BY <1>1, <1>2 DEF Pages

\* The page on the screen, when a request is answered.
LEMMA PagesHandled ==
    ASSUME NEW type, NEW ok, Pages, ShownFile, Messages, Handled(type, ok), generation \in Nat,
           UNCHANGED <<activeName, generation, page>>,
           type = "readRows" /\ ok => view # NoFile /\ UNCHANGED view
    PROVE  Pages'
  <1>1. PICK m : /\ Extended(replies, replies', m)
                 /\ m.type = type /\ m.ok = ok /\ m.arg = requests[1].arg /\ m.file = view'
    BY DEF Handled
  <1>2. type = "readRows" => requests[1].arg \in 1 .. generation
    BY DEF Handled, Shifted, Messages
  <1>3. ASSUME NEW i \in DOMAIN replies', replies'[i].type = "readRows", replies'[i].ok,
               replies'[i].arg = generation,
               ~\E j \in DOMAIN replies' : j < i /\ OpenOk(j)'
        PROVE  replies'[i].file = activeName
    <2>1. CASE i \in DOMAIN replies /\ replies'[i] = replies[i]
      BY <1>1, <1>3, <2>1 DEF Pages, OpenOk, Extended
    <2>2. CASE i = Len(replies) + 1
      <3>1. replies'[i] = m /\ type = "readRows" /\ ok /\ m.file = view /\ view # NoFile
        BY <1>1, <1>3, <2>2 DEF Extended
      <3>2. \A j \in DOMAIN replies : ~OpenOk(j)
        BY <1>1, <1>3, <2>2 DEF OpenOk, Extended
      <3> QED
        BY <1>2, <3>1, <3>2 DEF ShownFile
    <2> QED
      BY <1>1, <2>1, <2>2 DEF Extended
  <1> QED
    BY <1>3 DEF Pages

\* A file just opened has no edit, when an answer is taken.
LEMMA OpenedCleanTook ==
    ASSUME NEW type, OpenedClean, Took(type), UNCHANGED <<edits, saved>>
    PROVE  OpenedClean'
  <1>1. ASSUME NEW i \in DOMAIN replies', OpenOk(i)',
               \A j \in DOMAIN replies' : j > i => ~Mutation(replies'[j])
        PROVE  edits = {} /\ saved = {}
    <2>1. i + 1 \in DOMAIN replies /\ i \in Nat /\ OpenOk(i + 1)
      BY <1>1 DEF Took, Shifted, OpenOk
    <2>2. \A j \in DOMAIN replies : j > i + 1 => ~Mutation(replies[j])
      BY <1>1, <2>1 DEF Took, Shifted, Mutation
    <2> QED
      BY <2>1, <2>2 DEF OpenedClean
  <1> QED
    BY <1>1 DEF OpenedClean

\* A file just opened has no edit, when a request is answered.
LEMMA OpenedCleanHandled ==
    ASSUME NEW type, NEW ok, OpenedClean, Handled(type, ok),
           \/ edits' = {} /\ saved' = {}
           \/ type \in MutationTypes
           \/ type # "open" /\ edits' = edits /\ saved' \in {edits, saved}
    PROVE  OpenedClean'
  <1>1. PICK m : Extended(replies, replies', m) /\ m.type = type /\ m.ok = ok
    BY DEF Handled
  <1>2. ASSUME NEW i \in DOMAIN replies', OpenOk(i)',
               \A j \in DOMAIN replies' : j > i => ~Mutation(replies'[j])
        PROVE  edits' = {} /\ saved' = {}
    <2>1. CASE i \in DOMAIN replies /\ replies'[i] = replies[i]
      <3>1. OpenOk(i) /\ \A j \in DOMAIN replies : j > i => ~Mutation(replies[j])
        BY <1>1, <1>2, <2>1 DEF OpenOk, Extended
      <3>2. edits = {} /\ saved = {}
        BY <2>1, <3>1 DEF OpenedClean
      <3>3. type \notin MutationTypes
        BY <1>1, <1>2, <2>1 DEF Mutation, Extended
      <3> QED
        BY <3>2, <3>3
    <2>2. CASE i = Len(replies) + 1
      <3>1. type = "open"
        BY <1>1, <1>2, <2>2 DEF OpenOk, Extended
      <3> QED
        BY <3>1 DEF MutationTypes
    <2> QED
      BY <1>1, <2>1, <2>2 DEF Extended
  <1> QED
    BY <1>2 DEF OpenedClean

\* A save asked for is of the file in view, when something else is posted.
LEMMA SaveAskedPosted ==
    ASSUME NEW type, NEW arg, SaveAsked, Posted(type, arg), type # "save",
           UNCHANGED <<view, edits, saved, savedName>>
    PROVE  SaveAsked'
  BY DEF SaveAsked, Mutation, MutationTypes, Posted, Extended

\* A save asked for is of the file in view, when it is asked for.
LEMMA SaveAskedPrepared ==
    ASSUME NEW arg, OpenedClean, ShownFile, Posted("save", arg), ~Pending, ~UnderWay("save"),
           generation > 0, UNCHANGED <<view, edits, saved, activeName>>, savedName' = activeName
    PROVE  SaveAsked'
  BY DEF SaveAsked, OpenedClean, ShownFile, Pending, UnderWay, InRequests, InReplies, Mutation,
    MutationTypes, Posted, Extended

\* A save asked for is of the file in view, when an answer is taken.
LEMMA SaveAskedTook ==
    ASSUME NEW type, SaveAsked, Took(type), UNCHANGED <<view, edits, saved>>,
           savedName' = savedName \/ ~InRequests("save")
    PROVE  SaveAsked'
  BY DEF SaveAsked, InRequests, Mutation, MutationTypes, Took, Shifted

\* A save asked for is of the file in view, when a request is answered.
LEMMA SaveAskedHandled ==
    ASSUME NEW type, NEW ok, SaveAsked, Handled(type, ok), OneFor("save"), UNCHANGED savedName,
           \/ type \in MutationTypes \cup {"save"}
           \/ edits' = {} /\ saved' = {}
           \/ type # "open" /\ UNCHANGED <<view, edits, saved>>
    PROVE  SaveAsked'
  <1>1. PICK m : Extended(replies, replies', m) /\ m.type = type
    BY DEF Handled
  <1>2. ASSUME NEW i \in DOMAIN requests', requests'[i].type = "save"
        PROVE  /\ \A j \in DOMAIN requests' : j < i => ~Mutation(requests'[j])
               /\ \A j \in DOMAIN replies' : ~Mutation(replies'[j])
               /\ (\A j \in DOMAIN requests' : j < i => requests'[j].type # "open")
                    => view' \in {savedName, NoFile} \/ (edits' = {} /\ saved' = {})
    <2>1. /\ i + 1 \in DOMAIN requests /\ i \in Nat \ {0} /\ requests[i + 1].type = "save"
          /\ 1 \in DOMAIN requests /\ requests[1].type = type
      BY <1>2 DEF Handled, Shifted
    <2>2. /\ \A j \in DOMAIN requests : j < i + 1 => ~Mutation(requests[j])
          /\ \A j \in DOMAIN replies : ~Mutation(replies[j])
          /\ (\A j \in DOMAIN requests : j < i + 1 => requests[j].type # "open")
               => view \in {savedName, NoFile} \/ (edits = {} /\ saved = {})
      BY <2>1 DEF SaveAsked
    <2>3. ~Mutation(requests[1]) /\ 1 < i + 1
      BY <2>1, <2>2
    <2>4. type \notin MutationTypes /\ type # "save" /\ ~Mutation(m)
      BY <1>1, <2>1, <2>3 DEF OneFor, Mutation
    <2>5. \A j \in DOMAIN requests' : j < i => ~Mutation(requests'[j])
      BY <2>1, <2>2 DEF Handled, Shifted
    <2>6. \A j \in DOMAIN replies' : ~Mutation(replies'[j])
      BY <1>1, <2>2, <2>4 DEF Extended
    <2>7. ASSUME type # "open", \A j \in DOMAIN requests' : j < i => requests'[j].type # "open"
          PROVE  \A j \in DOMAIN requests : j < i + 1 => requests[j].type # "open"
      <3>1. ASSUME NEW j \in DOMAIN requests, j < i + 1, j # 1
            PROVE  requests[j].type # "open"
        BY <2>1, <2>7, <3>1 DEF Handled, Shifted
      <3> QED
        BY <2>1, <2>7, <3>1
    <2> QED
      BY <2>2, <2>4, <2>5, <2>6, <2>7
  <1> QED
    BY <1>2 DEF SaveAsked

\* Where the saved bytes are, when an answer is taken.
LEMMA SavedBytesTook ==
    ASSUME NEW type, SavedBytes, Took(type), type # "save",
           UNCHANGED <<view, saved, savedName, savedBytes, refused, stored>>,
           saving' = saving \/ {saving, saving'} \subseteq {"no", "settling"}
    PROVE  SavedBytes'
  <1>1. (\E i \in DOMAIN replies' : SaveAnswered(i)') <=> \E i \in DOMAIN replies : SaveAnswered(i)
    BY DEF SaveAnswered, Took, Shifted
  <1>2. \A i \in DOMAIN replies' :
          SaveAnswered(i)' /\ view = savedName
            => replies'[i].file = view /\ replies'[i].edits = saved
    BY DEF SavedBytes, SaveAnswered, Took, Shifted
  <1> HIDE DEF SaveAnswered
  <1> QED
    BY <1>1, <1>2 DEF SavedBytes

\* Where the saved bytes are, when another request is answered.
LEMMA SavedBytesHandled ==
    ASSUME NEW type, NEW ok, SavedBytes, Handled(type, ok), type # "save",
           UNCHANGED <<view, saved, savedName, saving, savedBytes, refused, stored>>
    PROVE  SavedBytes'
  <1>1. PICK m : Extended(replies, replies', m) /\ m.type = type
    BY DEF Handled
  <1>2. (\E i \in DOMAIN replies' : SaveAnswered(i)') <=> \E i \in DOMAIN replies : SaveAnswered(i)
    BY <1>1 DEF SaveAnswered, Extended
  <1>3. \A i \in DOMAIN replies' :
          SaveAnswered(i)' /\ view = savedName
            => replies'[i].file = view /\ replies'[i].edits = saved
    BY <1>1 DEF SavedBytes, SaveAnswered, Extended
  <1> QED
    BY <1>2, <1>3 DEF SavedBytes

\* A file that is opened was stored as it was found, and no save is about it.
LEMMA SavedBytesOpened ==
    ASSUME NEW ok, SavedBytes, Handled("open", ok), requests[1].arg \in File,
           view' \in {requests[1].arg, NoFile}, edits' = {}, saved' = {},
           UNCHANGED <<savedName, saving, savedBytes, refused, stored>>,
           Untouched, OneEach, Named
    PROVE  SavedBytes'
  <1> DEFINE f == requests[1].arg
  <1>1. PICK m : Extended(replies, replies', m) /\ m.type = "open"
    BY DEF Handled
  <1>2. Asked(f)
    BY DEF Handled, Shifted, Asked, Asks
  <1>3. savedName # f /\ f \notin refused /\ stored[f] = [file |-> f, edits |-> {}]
    BY <1>2 DEF Untouched, Unopened
  <1>4. saving \in {"preparing", "persisting", "stored"} => view' # savedName
    BY <1>3 DEF Named, Awaiting
  <1>5. \A i \in DOMAIN replies' : SaveAnswered(i)' => saving = "preparing"
    BY <1>1 DEF SaveAnswered, Extended, OneEach, UnderWay, InReplies
  <1> QED
    BY <1>3, <1>4, <1>5 DEF SavedBytes

\* Where the saved bytes are, when the worker serializes them.
LEMMA SavedBytesSaved ==
    ASSUME NEW ok, SavedBytes, Handled("save", ok), SaveAsked, OneEach,
           IF ok THEN view # NoFile /\ saved' = edits ELSE UNCHANGED saved,
           UNCHANGED <<view, edits, savedName, saving, savedBytes, refused, stored>>
    PROVE  SavedBytes'
  <1>1. PICK m : /\ Extended(replies, replies', m) /\ m.type = "save" /\ m.ok = ok
                 /\ m.file = view /\ m.edits = edits
    BY DEF Handled
  <1>2. 1 \in DOMAIN requests /\ requests[1].type = "save"
    BY DEF Handled, Shifted
  <1>3. saving = "preparing" /\ ~InReplies("save")
    BY <1>2 DEF OneEach, OneFor, UnderWay, InRequests
  <1>4. \A i \in DOMAIN replies' : replies'[i].type = "save" => replies'[i] = m
    BY <1>1, <1>3 DEF InReplies, Extended
  <1>5. (\E i \in DOMAIN replies' : SaveAnswered(i)') <=> ok
    BY <1>1, <1>4 DEF SaveAnswered, Extended
  <1>6. ~\E i \in DOMAIN replies : SaveAnswered(i)
    BY <1>3 DEF SaveAnswered, InReplies
  <1>7. \A i \in DOMAIN replies' :
          SaveAnswered(i)' => replies'[i].file = view /\ replies'[i].edits = saved'
    BY <1>1, <1>4 DEF SaveAnswered
  <1>8. view \in {savedName, NoFile} \/ (edits = {} /\ saved = {})
    <2>1. \A j \in DOMAIN requests : ~(j < 1)
      BY DEF Handled, Shifted
    <2> QED
      BY <1>2, <2>1 DEF SaveAsked
  <1>9. view # NoFile /\ view \notin refused /\ ~(savedName = view /\ ok)
          => stored[view] = [file |-> view, edits |-> saved']
    <2>1. CASE ok
      BY <1>3, <1>6, <1>8, <2>1 DEF SavedBytes
    <2>2. CASE ~ok
      BY <1>3, <1>6, <2>2 DEF SavedBytes
    <2> QED
      BY <2>1, <2>2
  <1> QED
    BY <1>3, <1>5, <1>7, <1>9 DEF SavedBytes

\* What is unsaved is dirty or about to be, when an answer is taken.
LEMMA UnsavedTook ==
    ASSUME NEW type, UnsavedIsDirty, Took(type), UNCHANGED <<edits, saved>>,
           ~Clears(1) => (dirty \/ ~viewOpen => dirty' \/ ~viewOpen'),
           EditAnswered(1) => dirty'
    PROVE  UnsavedIsDirty'
  <1>1. CASE edits = saved
    BY <1>1 DEF UnsavedIsDirty
  <1>2. ASSUME NEW i \in DOMAIN replies, EditAnswered(i),
               \A j \in DOMAIN replies : j > i => ~Clears(j)
        PROVE  UnsavedIsDirty'
    <2>1. CASE i = 1
      <3>1. \A j \in DOMAIN replies' : ~Clears(j)'
        BY <1>2, <2>1 DEF Took, Shifted, Clears
      <3> QED
        BY <1>2, <2>1, <3>1 DEF UnsavedIsDirty
    <2>2. CASE i # 1
      <3>1. i - 1 \in DOMAIN replies' /\ EditAnswered(i - 1)' /\ i \in Nat
        BY <1>2, <2>2 DEF Took, Shifted, EditAnswered
      <3>2. \A j \in DOMAIN replies' : j > i - 1 => ~Clears(j)'
        BY <1>2, <3>1 DEF Took, Shifted, Clears
      <3> QED
        BY <3>1, <3>2 DEF UnsavedIsDirty
    <2> QED
      BY <2>1, <2>2
  <1>3. CASE (dirty \/ ~viewOpen) /\ \A i \in DOMAIN replies : ~Clears(i)
    <2>1. dirty' \/ ~viewOpen'
      BY <1>3 DEF Took, Shifted
    <2>2. \A j \in DOMAIN replies' : ~Clears(j)'
      BY <1>3 DEF Took, Shifted, Clears
    <2> QED
      BY <2>1, <2>2 DEF UnsavedIsDirty
  <1> QED
    BY <1>1, <1>2, <1>3 DEF UnsavedIsDirty

\* What is unsaved is dirty or about to be, when a request is answered.
LEMMA UnsavedHandled ==
    ASSUME NEW type, NEW ok, UnsavedIsDirty, Handled(type, ok), UNCHANGED <<dirty, viewOpen>>,
           \/ edits' = saved'
           \/ type = "mutate" /\ ok
           \/ /\ UNCHANGED <<edits, saved>>
              /\ type \in {"open", "readCsvOptions", "reset"} => ~ok
    PROVE  UnsavedIsDirty'
  <1>1. PICK m : Extended(replies, replies', m) /\ m.type = type /\ m.ok = ok
    BY DEF Handled
  <1>2. CASE edits' = saved'
    BY <1>2 DEF UnsavedIsDirty
  <1>3. CASE type = "mutate" /\ ok
    <2>1. PICK n \in DOMAIN replies' : n = Len(replies) + 1 /\ replies'[n] = m
      BY <1>1 DEF Extended
    <2>2. EditAnswered(n)'
      BY <1>1, <1>3, <2>1 DEF EditAnswered
    <2>3. \A j \in DOMAIN replies' : j > n => ~Clears(j)'
      BY <1>1, <2>1 DEF Extended
    <2> QED
      BY <2>2, <2>3 DEF UnsavedIsDirty
  <1>4. CASE /\ UNCHANGED <<edits, saved>>
             /\ type \in {"open", "readCsvOptions", "reset"} => ~ok
    <2>1. \A j \in DOMAIN replies' : Clears(j)' => j \in DOMAIN replies /\ Clears(j)
      BY <1>1, <1>4 DEF Extended, Clears
    <2>2. \A i \in DOMAIN replies : EditAnswered(i) => i \in DOMAIN replies' /\ EditAnswered(i)'
      BY <1>1 DEF Extended, EditAnswered
    <2> QED
      BY <1>4, <2>1, <2>2 DEF UnsavedIsDirty
  <1> QED
    BY <1>2, <1>3, <1>4

\* While the revision is the one saved nothing is under way, when an answer is taken.
LEMMA RevisionTook ==
    ASSUME NEW type, Revision, Took(type), type # "save",
           UNCHANGED <<view, edits, saved>>,
           saving' \in Awaiting /\ unchanged' => UNCHANGED <<saving, unchanged, savedName>>,
           type \in MutationTypes \/ (dirty' => dirty /\ UNCHANGED activeName /\ ~OpenOk(1))
    PROVE  Revision'
  <1> SUFFICES ASSUME saving' \in Awaiting, unchanged'
               PROVE  Revision'
    BY DEF Revision
  <1>1. type \notin MutationTypes
    <2>1. saving \in Awaiting /\ unchanged
      OBVIOUS
    <2> QED
      BY <2>1 DEF Revision, Pending, Took, Shifted
  <1>2. saving \in Awaiting /\ unchanged /\ ~Pending
    BY <1>1 DEF Revision
  <1>3. ~Pending'
    BY <1>2 DEF Pending, Took, Shifted
  <1>4. ASSUME NEW i \in DOMAIN replies', SaveAnswered(i)'
        PROVE  i + 1 \in DOMAIN replies /\ SaveAnswered(i + 1) /\ i \in Nat
    BY <1>4 DEF Took, Shifted, SaveAnswered
  <1>5. (\E i \in DOMAIN replies' : SaveAnswered(i)') => edits = saved
    BY <1>2, <1>4 DEF Revision
  <1>6. ASSUME dirty', NEW i \in DOMAIN replies', SaveAnswered(i)'
        PROVE  view = activeName' \/ \E j \in DOMAIN replies' : j < i /\ OpenOk(j)'
    <2>1. view = activeName \/ \E j \in DOMAIN replies : j < i + 1 /\ OpenOk(j)
      BY <1>1, <1>2, <1>4, <1>6 DEF Revision
    <2>2. ASSUME NEW j \in DOMAIN replies, j < i + 1, OpenOk(j)
          PROVE  j - 1 \in DOMAIN replies' /\ j - 1 < i /\ replies'[j - 1] = replies[j]
      <3>1. j # 1
        BY <1>1, <1>6, <2>2
      <3> QED
        BY <1>4, <1>6, <2>2, <3>1 DEF Took, Shifted
    <2>3. UNCHANGED activeName
      BY <1>1, <1>6
    <2> QED
      BY <2>1, <2>2, <2>3 DEF OpenOk
  <1>7. UNCHANGED requests
    BY DEF Took
  <1>8. /\ \A i \in DOMAIN requests : requests[i].type = "save" =>
             \A j \in DOMAIN requests : j > i => requests[j].type # "open"
        /\ ~InRequests("save") => ~InRequests("open")
        /\ saving \in {"persisting", "stored"} => edits = saved
        /\ dirty => savedName = activeName
        /\ dirty /\ saving \in {"persisting", "stored"} => view = activeName
    BY <1>2 DEF Revision
  <1>9. InRequests("save")' = InRequests("save") /\ InRequests("open")' = InRequests("open")
    BY <1>7 DEF InRequests
  <1> QED
    BY <1>1, <1>3, <1>5, <1>6, <1>7, <1>8, <1>9 DEF Revision

\* A request behind an open that nobody waits for while the revision lasts.
LEMMA RevisionHandled ==
    ASSUME NEW type, NEW ok, Revision, Handled(type, ok), type # "save", OneEach,
           UNCHANGED <<saving, unchanged, savedName, activeName, dirty>>,
           type \in {"open"} \cup MutationTypes \/ UNCHANGED <<view, edits, saved>>
    PROVE  Revision'
  <1> SUFFICES ASSUME saving \in Awaiting, unchanged
               PROVE  Revision'
    BY DEF Revision
  <1>1. PICK m : Extended(replies, replies', m) /\ m.type = type
    BY DEF Handled
  <1>2. 1 \in DOMAIN requests /\ requests[1].type = type
    BY DEF Handled, Shifted
  <1>3. ~Pending /\ type \notin MutationTypes
    BY <1>2 DEF Revision, Pending
  <1>4. ~Pending'
    <2>1. \A i \in DOMAIN requests' : requests'[i].type \notin MutationTypes
      BY <1>3 DEF Pending, Handled, Shifted
    <2>2. \A i \in DOMAIN replies' : replies'[i].type \notin MutationTypes
      BY <1>1, <1>3 DEF Pending, Extended
    <2> QED
      BY <2>1, <2>2 DEF Pending
  <1>5. ASSUME NEW i \in DOMAIN requests', requests'[i].type = "save",
               NEW j \in DOMAIN requests', j > i
        PROVE  requests'[j].type # "open"
    <2>1. /\ i + 1 \in DOMAIN requests /\ requests[i + 1].type = "save" /\ j + 1 \in DOMAIN requests
          /\ requests[j + 1] = requests'[j] /\ j + 1 > i + 1
      BY <1>5 DEF Handled, Shifted
    <2> QED
      BY <2>1 DEF Revision
  <1>6. InRequests("save")' <=> InRequests("save")
    BY DEF InRequests, Handled, Shifted
  <1>7. InRequests("open")' => InRequests("open")
    BY DEF InRequests, Handled, Shifted
  <1>8. ~InRequests("save") => ~InRequests("open")
    BY DEF Revision
  <1>9. CASE type = "open"
    <2>1. InRequests("save") /\ ~InReplies("save") /\ saving = "preparing"
      BY <1>2, <1>8, <1>9 DEF InRequests, OneEach, OneFor, UnderWay
    <2>2. \A i \in DOMAIN replies' : ~SaveAnswered(i)'
      BY <1>1, <1>9, <2>1 DEF Extended, InReplies, SaveAnswered
    <2>3. dirty => savedName = activeName
      BY DEF Revision
    <2> QED
      BY <1>4, <1>5, <1>6, <2>1, <2>2, <2>3 DEF Revision
  <1>10. CASE type # "open"
    <2>1. UNCHANGED <<view, edits, saved>>
      BY <1>3, <1>10
    <2>2. \A i \in DOMAIN replies' : SaveAnswered(i)' => i \in DOMAIN replies /\ SaveAnswered(i)
      BY <1>1 DEF Extended, SaveAnswered
    <2>3. \A i \in DOMAIN replies : OpenOk(i) => i \in DOMAIN replies' /\ OpenOk(i)'
      BY <1>1 DEF Extended, OpenOk
    <2>4. /\ (\E i \in DOMAIN replies : SaveAnswered(i)) => edits = saved
          /\ saving \in {"persisting", "stored"} => edits = saved
          /\ dirty => savedName = activeName
          /\ dirty => \A i \in DOMAIN replies : SaveAnswered(i) =>
               view = activeName \/ \E j \in DOMAIN replies : j < i /\ OpenOk(j)
          /\ dirty /\ saving \in {"persisting", "stored"} => view = activeName
      BY DEF Revision
    <2> HIDE DEF SaveAnswered, OpenOk
    <2> QED
      BY <1>4, <1>5, <1>6, <1>7, <1>8, <2>1, <2>2, <2>3, <2>4 DEF Revision
  <1> QED
    BY <1>9, <1>10

\* While the revision is the one saved, when the worker serializes.
LEMMA RevisionSaved ==
    ASSUME NEW ok, Revision, Handled("save", ok), OneEach, ShownFile, Named, generation \in Nat,
           IF ok THEN view # NoFile /\ saved' = edits ELSE UNCHANGED saved,
           UNCHANGED <<saving, unchanged, view, edits, savedName, activeName, dirty>>
    PROVE  Revision'
  <1> SUFFICES ASSUME saving \in Awaiting, unchanged
               PROVE  Revision'
    BY DEF Revision
  <1>1. PICK m : Extended(replies, replies', m) /\ m.type = "save" /\ m.ok = ok
    BY DEF Handled
  <1>2. 1 \in DOMAIN requests /\ requests[1].type = "save"
    BY DEF Handled, Shifted
  <1>3. saving = "preparing" /\ ~InReplies("save")
    BY <1>2 DEF OneEach, OneFor, UnderWay, InRequests
  <1>4. ~Pending /\ (dirty => savedName = activeName)
    BY DEF Revision
  <1>5. ~Pending'
    BY <1>1, <1>4 DEF Pending, MutationTypes, Handled, Shifted, Extended
  <1>6. \A j \in DOMAIN requests' : requests'[j].type \notin {"open", "save"}
    BY <1>2 DEF Revision, OneEach, OneFor, Handled, Shifted
  <1>7. ~InRequests("open")' /\ \A i \in DOMAIN requests' : requests'[i].type # "save"
    BY <1>6 DEF InRequests
  <1>8. ASSUME NEW i \in DOMAIN replies', SaveAnswered(i)'
        PROVE  ok /\ i = Len(replies) + 1
    BY <1>1, <1>3, <1>8 DEF Extended, SaveAnswered, InReplies
  <1>9. ok => edits = saved'
    OBVIOUS
  <1>10. ASSUME ok
         PROVE  view = activeName \/ \E j \in DOMAIN replies' : j < Len(replies) + 1 /\ OpenOk(j)'
    <2>1. generation > 0
      BY <1>3 DEF Named
    <2>2. CASE \A j \in DOMAIN replies : ~OpenOk(j)
      BY <1>10, <2>1, <2>2 DEF ShownFile
    <2>3. CASE \E j \in DOMAIN replies : OpenOk(j)
      BY <1>1, <2>3 DEF Extended, OpenOk
    <2> QED
      BY <2>2, <2>3
  <1> HIDE DEF SaveAnswered, OpenOk
  <1> QED
    BY <1>3, <1>4, <1>5, <1>7, <1>8, <1>9, <1>10 DEF Revision

\* While the revision is the one saved, when the bytes reach save.mjs.
LEMMA RevisionPrepared ==
    ASSUME Revision, Took("save"), replies[1].ok, OneEach, saving' = "persisting",
           UNCHANGED <<unchanged, view, edits, saved, savedName, activeName, dirty>>
    PROVE  Revision'
  <1>1. InReplies("save") /\ SaveAnswered(1) /\ saving = "preparing"
    BY DEF Took, Shifted, InReplies, SaveAnswered, OneEach, UnderWay
  <1> SUFFICES ASSUME unchanged
               PROVE  Revision'
    BY DEF Revision
  <1>2. ~Pending /\ edits = saved /\ (dirty => savedName = activeName) /\ ~InRequests("open")
    BY <1>1 DEF Revision, Awaiting, Took, Shifted, OneEach, OneFor
  <1>3. dirty => view = activeName
    <2>1. dirty => view = activeName \/ \E j \in DOMAIN replies : j < 1 /\ OpenOk(j)
      BY <1>1 DEF Revision, Awaiting, Took, Shifted
    <2>2. ~\E j \in DOMAIN replies : j < 1
      BY DEF Took, Shifted
    <2> QED
      BY <2>1, <2>2
  <1>4. ~Pending'
    BY <1>2 DEF Pending, Took, Shifted
  <1>5. ~InRequests("open")' /\ \A i \in DOMAIN requests' : requests'[i].type # "open"
    BY <1>2 DEF InRequests, Took
  <1> QED
    BY <1>2, <1>3, <1>4, <1>5 DEF Revision

----------------------------------------------------------------------------
(* A host that waits.                                                      *)

\* With no open under way there is none after another request,
LEMMA NonePosted ==
    ASSUME NEW type, NEW arg, Posted(type, arg), type # "open", NoneUnderWay
    PROVE  NoneUnderWay'
  BY DEF NoneUnderWay, Asked, Answered, Asks, Answers, Posted, Extended

\* after an answer,
LEMMA NoneTook ==
    ASSUME NEW type, Took(type), NoneUnderWay
    PROVE  NoneUnderWay'
  BY DEF NoneUnderWay, Asked, Answered, Asks, Answers, Took, Shifted

\* or after the worker has answered another request.
LEMMA NoneHandled ==
    ASSUME NEW type, NEW ok, Handled(type, ok), type # "open", NoneUnderWay
    PROVE  NoneUnderWay'
  <1>1. PICK m : Extended(replies, replies', m) /\ m.type = type
    BY DEF Handled
  <1>2. \A f \in File : ~Asked(f)'
    BY DEF NoneUnderWay, Asked, Asks, Handled, Shifted
  <1>3. \A f \in File : ~Answered(f)'
    BY <1>1 DEF NoneUnderWay, Answered, Answers, Extended
  <1> QED
    BY <1>2, <1>3 DEF NoneUnderWay

\* An open whose answer waits shows the file in view, when another answer is taken.
LEMMA OpensTook ==
    ASSUME NEW type, Took(type), \A i \in DOMAIN replies : OpenOk(i) => view = replies[i].file
    PROVE  \A i \in DOMAIN replies' : OpenOk(i)' => view = replies'[i].file
  BY DEF OpenOk, Took, Shifted

\* An open whose answer waits shows the file in view, when another request is answered.
LEMMA OpensHandled ==
    ASSUME NEW type, NEW ok, Handled(type, ok), type # "open" \/ ~ok, UNCHANGED view,
           \A i \in DOMAIN replies : OpenOk(i) => view = replies[i].file
    PROVE  \A i \in DOMAIN replies' : OpenOk(i)' => view = replies'[i].file
  <1>1. PICK m : Extended(replies, replies', m) /\ m.type = type /\ m.ok = ok
    BY DEF Handled
  <1> QED
    BY <1>1 DEF OpenOk, Extended

\* A step that neither opens nor loads anything.
LEMMA AloneStays ==
    ASSUME Alone, UNCHANGED <<queue, running, view, viewOpen, activeName>>,
           NoneUnderWay => NoneUnderWay',
           \A i \in DOMAIN replies' : OpenOk(i)' => view = replies'[i].file,
           saving' \in {"settling", "preparing"} \/ reading' => viewOpen,
           saving' = "preparing" => savedName' = activeName
    PROVE  Alone'
  <1> HIDE DEF OpenOk
  <1> QED
    BY DEF Alone

\* Edits are of the file in view, when a request is posted.
LEMMA OwnPosted ==
    ASSUME NEW type, NEW arg, OwnEdits, Posted(type, arg),
           type = "mutate" => arg[1] = view /\ ~InRequests("open"),
           UNCHANGED <<view, edits, saved, savedName, savedBytes, stored>>,
           saving' = "persisting" => saving = "persisting"
    PROVE  OwnEdits'
  <1>1. ASSUME NEW i \in DOMAIN requests', requests'[i].type = "mutate"
        PROVE  /\ requests'[i].arg[1] = view
               /\ \A j \in DOMAIN requests' : requests'[j].type = "open" => i < j
    <2>1. CASE i \in DOMAIN requests /\ requests'[i] = requests[i]
      BY <1>1, <2>1 DEF OwnEdits, Posted, Extended
    <2>2. CASE i = Len(requests) + 1
      BY <1>1, <2>2 DEF Posted, Extended, InRequests
    <2> QED
      BY <2>1, <2>2 DEF Posted, Extended
  <1>2. UNCHANGED replies
    BY DEF Posted
  <1>3. \A i \in DOMAIN replies' : SaveAnswered(i)' =>
          replies'[i].file = savedName /\ OfFile(replies'[i].edits, savedName)
    BY <1>2 DEF OwnEdits, SaveAnswered
  <1> QED
    BY <1>1, <1>3 DEF OwnEdits, OfFile

\* Edits are of the file in view, when an answer is taken.
LEMMA OwnTook ==
    ASSUME NEW type, OwnEdits, Took(type), UNCHANGED <<view, edits, saved, stored>>,
           saving' = "persisting" =>
             /\ UNCHANGED savedName
             /\ \/ saving = "persisting" /\ UNCHANGED savedBytes
                \/ SaveAnswered(1) /\ savedBytes'.file = replies[1].file
                   /\ savedBytes'.edits = replies[1].edits,
           UNCHANGED savedName \/ \A i \in DOMAIN replies' : replies'[i].type # "save"
    PROVE  OwnEdits'
  <1>1. UNCHANGED requests
    BY DEF Took
  <1>2. \A i \in DOMAIN replies' : SaveAnswered(i)' =>
          replies'[i].file = savedName' /\ OfFile(replies'[i].edits, savedName')
    <2>1. ASSUME NEW i \in DOMAIN replies', SaveAnswered(i)'
          PROVE  i + 1 \in DOMAIN replies /\ replies'[i] = replies[i + 1] /\ SaveAnswered(i + 1)
      BY <2>1 DEF Took, Shifted, SaveAnswered
    <2>2. ASSUME NEW i \in DOMAIN replies', SaveAnswered(i)'
          PROVE  UNCHANGED savedName
      BY <2>2 DEF SaveAnswered
    <2> QED
      BY <2>1, <2>2 DEF OwnEdits
  <1>3. saving' = "persisting" => savedBytes'.file = savedName' /\ OfFile(savedBytes'.edits, savedName')
    BY DEF OwnEdits, Took, Shifted
  <1> QED
    BY <1>1, <1>2, <1>3 DEF OwnEdits, OfFile

\* Edits are of the file in view, when a request is answered.
LEMMA OwnHandled ==
    ASSUME NEW type, NEW ok, OwnEdits, Handled(type, ok),
           UNCHANGED <<saving, savedName, savedBytes, stored>>,
           type = "open" \/ UNCHANGED view,
           type = "save" /\ ok => view = savedName /\ UNCHANGED edits,
           \A e \in edits' \cup saved' :
              \/ type # "open" /\ e \in edits \cup saved
              \/ type = "mutate" /\ e = requests[1].arg
    PROVE  OwnEdits'
  <1>1. PICK m : /\ Extended(replies, replies', m) /\ m.type = type /\ m.ok = ok
                 /\ m.file = view' /\ m.edits = edits'
    BY DEF Handled
  <1>2. 1 \in DOMAIN requests /\ requests[1].type = type
    BY DEF Handled, Shifted
  <1>3. type = "mutate" => requests[1].arg[1] = view
    BY <1>2 DEF OwnEdits
  <1>4. OfFile(edits', view') /\ OfFile(saved', view')
    BY <1>3 DEF OwnEdits, OfFile
  <1>5. ASSUME NEW i \in DOMAIN requests', requests'[i].type = "mutate"
        PROVE  /\ requests'[i].arg[1] = view'
               /\ \A j \in DOMAIN requests' : requests'[j].type = "open" => i < j
    <2>1. i + 1 \in DOMAIN requests /\ requests'[i] = requests[i + 1] /\ i \in Nat \ {0}
      BY DEF Handled, Shifted
    <2>2. /\ requests'[i].arg[1] = view
          /\ \A j \in DOMAIN requests : requests[j].type = "open" => i + 1 < j
      BY <1>5, <2>1 DEF OwnEdits
    <2>3. type # "open"
      BY <1>2, <2>1, <2>2
    <2>4. ASSUME NEW j \in DOMAIN requests', requests'[j].type = "open"
          PROVE  i < j
      <3>1. j + 1 \in DOMAIN requests /\ requests'[j] = requests[j + 1] /\ j \in Nat
        BY DEF Handled, Shifted
      <3> QED
        BY <2>1, <2>2, <2>4, <3>1
    <2> QED
      BY <2>2, <2>3, <2>4
  <1>6. \A i \in DOMAIN replies' : SaveAnswered(i)' =>
          replies'[i].file = savedName /\ OfFile(replies'[i].edits, savedName)
    <2>1. \A i \in DOMAIN replies : SaveAnswered(i) =>
            replies[i].file = savedName /\ OfFile(replies[i].edits, savedName)
      BY DEF OwnEdits
    <2>2. type = "save" /\ ok => m.file = savedName /\ OfFile(m.edits, savedName)
      BY <1>1, <1>4
    <2> QED
      BY <1>1, <2>1, <2>2 DEF SaveAnswered, Extended
  <1> QED
    BY <1>4, <1>5, <1>6 DEF OwnEdits, OfFile

----------------------------------------------------------------------------
(* What stays as it is, and the queues.                                    *)

\* What the grid shows rests on these variables only;
LEMMA RowsKept ==
    ASSUME ShownFile, Pages, UNCHANGED <<replies, view, activeName, generation, page>>
    PROVE  ShownFile' /\ Pages'
  <1>1. ShownFile'
    BY DEF ShownFile, OpenOk
  <1>2. Pages'
    BY DEF Pages, OpenOk
  <1> QED
    BY <1>1, <1>2

\* so does the cleanness of a file just opened,
LEMMA OpenedCleanKept ==
    ASSUME OpenedClean, UNCHANGED <<replies, edits, saved>>
    PROVE  OpenedClean'
  BY DEF OpenedClean, OpenOk, Mutation, MutationTypes

\* the save that was asked for,
LEMMA SaveAskedKept ==
    ASSUME SaveAsked, UNCHANGED <<requests, replies, view, edits, saved>>,
           savedName' = savedName \/ ~InRequests("save")
    PROVE  SaveAsked'
  BY DEF SaveAsked, InRequests, Mutation, MutationTypes

\* the place of the saved bytes,
LEMMA SavedBytesKept ==
    ASSUME SavedBytes,
           UNCHANGED <<replies, view, saved, savedName, savedBytes, refused, stored>>,
           saving' = saving \/ {saving, saving'} \subseteq {"no", "settling"}
    PROVE  SavedBytes'
  <1>1. UNCHANGED saving \/ (saving \notin {"persisting", "stored"} /\ saving' \notin {"persisting", "stored"})
    OBVIOUS
  <1> QED
    BY <1>1 DEF SavedBytes, SaveAnswered

\* what is unsaved,
LEMMA UnsavedKept ==
    ASSUME UnsavedIsDirty, UNCHANGED <<replies, edits, saved>>,
           dirty \/ ~viewOpen => dirty' \/ ~viewOpen'
    PROVE  UnsavedIsDirty'
  BY DEF UnsavedIsDirty, EditAnswered, Clears

\* the revision,
LEMMA RevisionKept ==
    ASSUME Revision, UNCHANGED <<requests, replies, view, edits, saved>>,
           saving' \in Awaiting /\ unchanged' =>
              UNCHANGED <<saving, unchanged, dirty, savedName, activeName>>
    PROVE  Revision'
  BY DEF Revision, Pending, MutationTypes, InRequests, SaveAnswered, OpenOk

\* and what waits to be opened.
LEMMA QueueKept ==
    ASSUME UNCHANGED queue
    PROVE  (\A f \in File : Queued(f)' <=> Queued(f)) /\ (QueuedOnce <=> QueuedOnce')
  BY DEF Queued, QueuedOnce

\* nextOpen takes the file at the head of its queue, which was nowhere else.
LEMMA QueueTaken ==
    ASSUME queue \in [Opener -> Seq(File)], NEW o \in Opener, queue[o] # <<>>,
           queue' = [queue EXCEPT ![o] = Tail(@)], QueuedOnce
    PROVE  /\ queue' \in [Opener -> Seq(File)] /\ QueuedOnce'
           /\ Head(queue[o]) \in File /\ Queued(Head(queue[o]))
           /\ \A f \in File : Queued(f)' <=> Queued(f) /\ f # Head(queue[o])
  <1> DEFINE q == queue[o]
  <1>1. q \in Seq(File) /\ q # <<>> /\ queue'[o] = Tail(q) /\ DOMAIN queue' = Opener
        /\ \A p \in Opener : p # o => queue'[p] = queue[p]
    OBVIOUS
  <1>2. Shifted(q, Tail(q)) /\ Tail(q) \in Seq(File)
    BY <1>1, TailShifts
  <1>3. q[1] \in File
    BY <1>1, <1>2, ElementOfSeq, LenProperties DEF Shifted
  <1>4. queue' \in [Opener -> Seq(File)]
    BY <1>1, <1>2
  <1>5. Head(q) = q[1] /\ 1 \in DOMAIN q
    BY <1>2 DEF Shifted
  <1>6. \A i \in DOMAIN queue'[o] : i + 1 \in DOMAIN q /\ queue'[o][i] = q[i + 1] /\ i \in Nat \ {0}
    BY <1>1, <1>2 DEF Shifted
  <1>7. \A i \in DOMAIN q : i = 1 \/ (i - 1 \in DOMAIN queue'[o] /\ queue'[o][i - 1] = q[i])
    BY <1>1, <1>2 DEF Shifted
  <1> HIDE DEF q
  <1>8. ASSUME NEW p \in Opener, NEW i \in DOMAIN queue'[p]
        PROVE  \E k \in DOMAIN queue[p] : queue'[p][i] = queue[p][k] /\ (p = o => k = i + 1)
    BY <1>1, <1>6 DEF q
  <1>9. QueuedOnce'
    <2> SUFFICES ASSUME NEW p \in Opener, NEW r \in Opener, NEW i \in DOMAIN queue'[p],
                        NEW j \in DOMAIN queue'[r], queue'[p][i] = queue'[r][j]
                 PROVE  p = r /\ i = j
      BY DEF QueuedOnce
    <2>1. CASE p # o /\ r # o
      BY <1>1, <2>1 DEF QueuedOnce
    <2>2. CASE p = o /\ r # o
      BY <1>1, <1>6, <2>2 DEF QueuedOnce, q
    <2>3. CASE p # o /\ r = o
      BY <1>1, <1>6, <2>3 DEF QueuedOnce, q
    <2>4. CASE p = o /\ r = o
      <3>1. i + 1 = j + 1 /\ i \in Nat /\ j \in Nat
        BY <1>6, <2>4 DEF QueuedOnce, q
      <3> QED
        BY <2>4, <3>1
    <2> QED
      BY <2>1, <2>2, <2>3, <2>4
  <1>10. ASSUME NEW f \in File
         PROVE  Queued(f)' <=> Queued(f) /\ f # Head(queue[o])
    <2>1. ASSUME Queued(f)'
          PROVE  Queued(f) /\ f # q[1]
      <3>1. PICK p \in Opener : \E i \in DOMAIN queue'[p] : queue'[p][i] = f
        BY <2>1 DEF Queued
      <3>2. CASE p # o
        BY <1>1, <1>5, <3>1, <3>2 DEF Queued, QueuedOnce, q
      <3>3. CASE p = o
        BY <1>5, <1>6, <3>1, <3>3 DEF Queued, QueuedOnce, q
      <3> QED
        BY <3>2, <3>3
    <2>2. ASSUME Queued(f), f # q[1]
          PROVE  Queued(f)'
      <3>1. PICK p \in Opener : \E i \in DOMAIN queue[p] : queue[p][i] = f
        BY <2>2 DEF Queued
      <3>2. CASE p # o
        BY <1>1, <3>1, <3>2 DEF Queued
      <3>3. CASE p = o
        <4>1. PICK i \in DOMAIN q : q[i] = f
          BY <3>1, <3>3 DEF q
        <4>2. i - 1 \in DOMAIN queue'[o] /\ queue'[o][i - 1] = f
          BY <1>7, <2>2, <4>1
        <4> QED
          BY <4>2 DEF Queued
      <3> QED
        BY <3>2, <3>3
    <2> QED
      BY <1>5, <2>1, <2>2 DEF q
  <1> QED
    BY <1>3, <1>4, <1>5, <1>9, <1>10 DEF Queued, q

\* A file that was in no queue is put at the end of one.
LEMMA QueueGrown ==
    ASSUME queue \in [Opener -> Seq(File)], NEW o \in Opener, NEW f \in File, ~Queued(f),
           queue' = [queue EXCEPT ![o] = Append(@, f)], QueuedOnce
    PROVE  /\ queue' \in [Opener -> Seq(File)] /\ QueuedOnce'
           /\ \A g \in File : Queued(g)' <=> Queued(g) \/ g = f
  <1> DEFINE q == queue[o]
             s == queue'[o]
  <1>1. q \in Seq(File) /\ s = Append(q, f) /\ DOMAIN queue' = Opener
        /\ \A p \in Opener : p # o => queue'[p] = queue[p]
    OBVIOUS
  <1>2. Extended(q, s, f) /\ s \in Seq(File)
    BY <1>1, AppendExtends
  <1>3. queue' \in [Opener -> Seq(File)]
    BY <1>1, <1>2
  <1>4. Len(q) + 1 \in DOMAIN s /\ s[Len(q) + 1] = f
    BY <1>2 DEF Extended
  <1>5. \A i \in DOMAIN s : i = Len(q) + 1 \/ (i \in DOMAIN q /\ s[i] = q[i])
    BY <1>2 DEF Extended
  <1>6. \A i \in DOMAIN q : i \in DOMAIN s /\ s[i] = q[i]
    BY <1>2 DEF Extended
  <1> HIDE DEF q, s
  <1>7. \A p \in Opener : \A i \in DOMAIN queue[p] : queue[p][i] # f
    BY DEF Queued
  <1>8. \A p \in Opener : \A i \in DOMAIN queue'[p] :
          \/ i \in DOMAIN queue[p] /\ queue'[p][i] = queue[p][i]
          \/ p = o /\ i = Len(q) + 1 /\ queue'[p][i] = f
    BY <1>1, <1>4, <1>5 DEF q, s
  <1>9. \A p \in Opener : \A i \in DOMAIN queue[p] :
          i \in DOMAIN queue'[p] /\ queue'[p][i] = queue[p][i]
    BY <1>1, <1>6 DEF q, s
  <1>10. QueuedOnce'
    <2> SUFFICES ASSUME NEW p \in Opener, NEW r \in Opener, NEW i \in DOMAIN queue'[p],
                        NEW j \in DOMAIN queue'[r], queue'[p][i] = queue'[r][j]
                 PROVE  p = r /\ i = j
      BY DEF QueuedOnce
    <2> QED
      BY <1>7, <1>8 DEF QueuedOnce
  <1>11. \A g \in File : Queued(g)' <=> Queued(g) \/ g = f
    BY <1>4, <1>8, <1>9 DEF Queued, s
  <1> QED
    BY <1>3, <1>10, <1>11

----------------------------------------------------------------------------
(* A step that has nothing to do with opens.                               *)

OpensAsBefore ==
    \A f \in File : OneOpen(f)' /\ (Asked(f)' <=> Asked(f)) /\ (Answered(f)' <=> Answered(f))

\* No open begins or ends with another request,
LEMMA OpensPosted ==
    ASSUME NEW type, NEW arg, OpenedOnce, Posted(type, arg), type # "open"
    PROVE  OpensAsBefore
  BY OpenPosted DEF OpensAsBefore, OpenedOnce

\* with the answer of another request,
LEMMA OpensTaken ==
    ASSUME NEW type, OpenedOnce, Took(type), type # "open"
    PROVE  OpensAsBefore
  BY OpenTook DEF OpensAsBefore, OpenedOnce

\* when the worker answers another request,
LEMMA OpensAnswered ==
    ASSUME NEW type, NEW ok, OpenedOnce, Handled(type, ok), type # "open"
    PROVE  OpensAsBefore
  BY OpenHandled DEF OpensAsBefore, OpenedOnce

\* or when the channel rests.
LEMMA OpensIdle ==
    ASSUME OpenedOnce, UNCHANGED <<requests, replies>>
    PROVE  OpensAsBefore
  BY DEF OpensAsBefore, OpenedOnce, OneOpen, Asked, Answered, Asks, Answers

\* A step that moves no file keeps every part about opens.
LEMMA OpeningKept ==
    ASSUME Types, Opening, OpensAsBefore,
           UNCHANGED <<unsent, queue, running, initialized, view, activeName, stored, refused>>,
           savedName' \in {savedName, activeName, NoFile}, NoFile \notin File,
           ~initialized => UNCHANGED <<generation, viewOpen>>
    PROVE  Opening'
  <1>1. (\A f \in File : Queued(f)' <=> Queued(f)) /\ (QueuedOnce <=> QueuedOnce')
    BY QueueKept
  <1>2. OpenedOnce'
    BY <1>1 DEF Opening, OpenedOnce, OpensAsBefore
  <1>3. Openers'
    <2>1. \A o \in Opener : running[o] # NoFile => running[o] \in File
      BY DEF Types
    <2>2. \A o \in Opener : running[o] # NoFile => Asked(running[o])' \/ Answered(running[o])'
      BY <2>1 DEF Opening, Openers, OpensAsBefore
    <2>3. \A f \in File : Asked(f)' \/ Answered(f)' => \E o \in Opener : running'[o] = f
      BY DEF Opening, Openers, OpensAsBefore
    <2>4. \A o, p \in Opener : running'[o] = running'[p] /\ running'[o] # NoFile => o = p
      BY DEF Opening, Openers
    <2>5. ~initialized' => generation' = 0 /\ ~viewOpen' /\ \A o \in Opener : running'[o] = NoFile
      BY DEF Opening, Openers
    <2> QED
      BY <2>2, <2>3, <2>4, <2>5 DEF Openers
  <1>4. Untouched'
    BY <1>1 DEF Opening, Untouched, Unopened, OpensAsBefore
  <1> QED
    BY <1>2, <1>3, <1>4 DEF Opening

----------------------------------------------------------------------------
(* The worker.                                                             *)

Others == <<shellVars, bridgeVars, hostVars>>

\* The open of csv-worker.js: the file it names, without an edit, or no view at all.
LEMMA OpenMove ==
    ASSUME Types, Messages, Open
    PROVE  \E ok \in BOOLEAN :
              /\ Handled("open", ok) /\ requests[1].arg \in File
              /\ view' = IF ok THEN requests[1].arg ELSE NoFile
              /\ edits' = {} /\ saved' = {}
  <1>1. Handle("open") /\ requests # <<>> /\ requests \in Seq(Request)
    BY DEF Open, Handle, Types
  <1>2. Shifted(requests, Tail(requests))
    BY <1>1, TailShifts
  <1>3. Head(requests) = requests[1] /\ requests[1].arg \in File
    BY <1>1, <1>2 DEF Shifted, Handle, Messages
  <1>4. edits' = {} /\ saved' = {} /\ edits' \in SUBSET EditSet
    BY DEF Open
  <1>5. CASE view' = Head(requests).arg /\ Answer(TRUE)
    BY <1>1, <1>3, <1>4, <1>5, Handling
  <1>6. CASE view' = NoFile /\ Answer(FALSE)
    BY <1>1, <1>3, <1>4, <1>6, Handling
  <1> QED
    BY <1>5, <1>6 DEF Open

\* The requests that keep the view.
Effect(type, ok) ==
    \/ type = "readRows" /\ UNCHANGED <<edits, saved>> /\ (ok => view # NoFile)
    \/ type = "mutate" /\ UNCHANGED saved
         /\ edits' = IF ok THEN edits \cup {requests[1].arg} ELSE edits
    \/ type = "reset" /\ UNCHANGED saved /\ edits' = saved
    \/ type = "readCsvOptions" /\ UNCHANGED <<edits, saved>> /\ (ok => edits = saved)

\* The requests that leave the view in place, and what they do to its edits.
LEMMA KeepMove ==
    ASSUME Types, Messages, ReadRows \/ Mutate \/ Reset \/ ReadCsvOptions
    PROVE  \E type \in MessageTypes, ok \in BOOLEAN :
              Handled(type, ok) /\ UNCHANGED view /\ Effect(type, ok)
  <1>1. requests \in Seq(Request) /\ view \in File \cup {NoFile} /\ edits \in SUBSET EditSet
        /\ saved \in SUBSET EditSet
    BY DEF Types
  <1>2. CASE ReadRows
    <2>1. PICK ok \in BOOLEAN : Handle("readRows") /\ Answer(ok) /\ UNCHANGED <<view, edits, saved>>
                                /\ (ok => view # NoFile)
      BY <1>2 DEF ReadRows
    <2>2. Handled("readRows", ok)
      BY <1>1, <2>1, Handling
    <2> QED
      BY <2>1, <2>2 DEF Effect, MessageTypes
  <1>3. CASE Mutate
    <2>1. requests # <<>> /\ Handle("mutate")
      BY <1>3 DEF Mutate, Handle
    <2>2. Shifted(requests, Tail(requests))
      BY <1>1, <2>1, TailShifts
    <2>3. Head(requests) = requests[1] /\ requests[1].arg \in EditSet
      BY <2>1, <2>2 DEF Shifted, Handle, Messages
    <2>4. PICK ok \in BOOLEAN : Answer(ok) /\ UNCHANGED <<view, saved>>
                                /\ edits' = IF ok THEN edits \cup {Head(requests).arg} ELSE edits
      BY <1>3 DEF Mutate
    <2>5. Handled("mutate", ok)
      BY <1>1, <2>1, <2>3, <2>4, Handling
    <2> QED
      BY <2>3, <2>4, <2>5 DEF Effect, MessageTypes
  <1>4. CASE Reset
    <2>1. PICK ok \in BOOLEAN : Handle("reset") /\ Answer(ok) /\ UNCHANGED <<view, saved>>
                                /\ edits' = saved
      BY <1>4 DEF Reset
    <2>2. Handled("reset", ok)
      BY <1>1, <2>1, Handling
    <2> QED
      BY <2>1, <2>2 DEF Effect, MessageTypes
  <1>5. CASE ReadCsvOptions
    <2>1. PICK ok \in BOOLEAN : Handle("readCsvOptions") /\ Answer(ok)
                                /\ UNCHANGED <<view, edits, saved>> /\ (ok => edits = saved)
      BY <1>5 DEF ReadCsvOptions
    <2>2. Handled("readCsvOptions", ok)
      BY <1>1, <2>1, Handling
    <2> QED
      BY <2>1, <2>2 DEF Effect, MessageTypes
  <1> QED
    BY <1>2, <1>3, <1>4, <1>5

\* The save of csv-worker.js: what it serializes is what was edited.
LEMMA SaveMove ==
    ASSUME Types, Save
    PROVE  \E ok \in BOOLEAN :
              /\ Handled("save", ok) /\ UNCHANGED <<view, edits>>
              /\ IF ok THEN view # NoFile /\ saved' = edits ELSE UNCHANGED saved
  <1>1. view \in File \cup {NoFile} /\ edits \in SUBSET EditSet
    BY DEF Types
  <1>2. PICK ok \in BOOLEAN :
          /\ Handle("save") /\ Answer(ok) /\ UNCHANGED <<view, edits>>
          /\ IF ok THEN view # NoFile /\ saved' = edits ELSE UNCHANGED saved
    BY DEF Save
  <1> QED
    BY <1>1, <1>2, Handling

\* The worker answers an open.
LEMMA OpenKeeps ==
    ASSUME IInv, Open, UNCHANGED Others
    PROVE  IInv'
  <1> USE DEF IInv, Channel, Opening, Others
  <1>1. PICK ok \in BOOLEAN :
          /\ Handled("open", ok) /\ requests[1].arg \in File
          /\ view' = IF ok THEN requests[1].arg ELSE NoFile
          /\ edits' = {} /\ saved' = {}
    BY OpenMove
  <1> DEFINE f == requests[1].arg
  <1>2. \A g \in File :
          /\ OneOpen(g)'
          /\ Asked(g)' <=> Asked(g) /\ g # f
          /\ Answered(g)' <=> Answered(g) \/ g = f
    BY <1>1, OpenHandled DEF OpenedOnce
  <1>3. Asked(f)
    BY <1>1 DEF Handled, Shifted, Asked, Asks
  <1>4. (\A g \in File : Queued(g)' <=> Queued(g)) /\ (QueuedOnce <=> QueuedOnce')
    BY QueueKept
  <1> HIDE DEF f
  <1>5. Types'
    BY <1>1 DEF Types, Handled, f
  <1>6. Named' /\ Messages'
    BY <1>1, MessagesHandled DEF Named
  <1>7. OneEach'
    BY <1>1, OneHandled DEF OneEach
  <1>8. OpenedOnce'
    BY <1>1, <1>2, <1>3, <1>4 DEF OpenedOnce, f
  <1>9. Openers'
    <2>1. \A o \in Opener : running[o] # NoFile => running[o] \in File
      BY DEF Types
    <2>2. \A o \in Opener : running[o] # NoFile => Asked(running[o])' \/ Answered(running[o])'
      BY <1>2, <2>1 DEF Openers
    <2>3. \A g \in File : Asked(g)' \/ Answered(g)' => \E o \in Opener : running[o] = g
      BY <1>2, <1>3 DEF Openers, f
    <2> QED
      BY <2>2, <2>3 DEF Openers
  <1>10. Untouched'
    <2>1. ASSUME NEW g \in File, Unopened(g)'
          PROVE  Unopened(g) /\ g # f
      BY <1>2, <1>3, <1>4, <2>1 DEF Unopened, OpenedOnce
    <2>2. view' # NoFile => view' = f
      BY <1>1 DEF f
    <2> QED
      BY <2>1, <2>2, WasmViewerAssumption DEF Untouched
  <1>11. ShownFile' /\ Pages'
    BY <1>1, ShownHandled, PagesHandled DEF Types
  <1>12. OpenedClean' /\ SaveAsked'
    BY <1>1, OpenedCleanHandled, SaveAskedHandled DEF OneEach
  <1>13. SavedBytes'
    BY <1>1, SavedBytesOpened
  <1>14. UnsavedIsDirty' /\ Revision'
    BY <1>1, UnsavedHandled, RevisionHandled
  <1>15. WaitingHost'
    <2> SUFFICES ASSUME waits
                 PROVE  Alone' /\ OwnEdits'
      BY DEF WaitingHost
    <2>1. \A g \in File : Asked(g) \/ Answered(g) => g = f
      BY <1>1, <1>3 DEF WaitingHost, Alone, Openers, f
    <2>2. ~viewOpen
      BY <1>1, <1>3 DEF WaitingHost, Alone, NoneUnderWay, f
    <2>3. \A i \in DOMAIN replies' : OpenOk(i)' => view' = replies'[i].file
      <3>1. PICK m : Extended(replies, replies', m) /\ m.file = view'
        BY <1>1 DEF Handled
      <3>2. \A i \in DOMAIN replies : ~OpenOk(i)
        BY <1>1, <1>3, <2>1 DEF OpenOk, OpenedOnce, OneOpen, Answered, Answers, Messages, f
      <3> QED
        BY <3>1, <3>2 DEF OpenOk, Extended
    <2>4. Alone'
      BY <2>2, <2>3 DEF WaitingHost, Alone
    <2>5. OwnEdits'
      BY <1>1, OwnHandled DEF WaitingHost
    <2> QED
      BY <2>4, <2>5
  <1> QED
    BY <1>5, <1>6, <1>7, <1>8, <1>9, <1>10, <1>11, <1>12, <1>13, <1>14, <1>15

\* The worker answers a read, an edit, a reset or a dialect.
LEMMA ReadOrEditKeeps ==
    ASSUME IInv, ReadRows \/ Mutate \/ Reset \/ ReadCsvOptions, UNCHANGED Others
    PROVE  IInv'
  <1> USE DEF IInv, Channel, Others
  <1>1. PICK type \in MessageTypes, ok \in BOOLEAN :
          Handled(type, ok) /\ UNCHANGED view /\ Effect(type, ok)
    BY KeepMove
  <1>2. type \in MutationTypes \cup {"readRows", "readCsvOptions"} /\ generation \in Nat
    BY <1>1 DEF Effect, MutationTypes, Types
  <1>3. Types'
    <2>1. 1 \in DOMAIN requests /\ requests[1].type = type
      BY <1>1 DEF Handled, Shifted
    <2>2. edits' \in SUBSET EditSet /\ saved' \in SUBSET EditSet
      BY <1>1, <2>1 DEF Types, Effect, Messages
    <2> QED
      BY <1>1, <2>2 DEF Types, Handled
  <1>4. Named' /\ Messages'
    BY <1>1, <1>2, MessagesHandled DEF Named, MutationTypes
  <1>5. OneEach'
    BY <1>1, OneHandled DEF OneEach
  <1>6. Opening'
    <2>1. OpensAsBefore
      BY <1>1, <1>2, OpensAnswered DEF Opening, MutationTypes
    <2> QED
      BY <1>1, <2>1, OpeningKept, WasmViewerAssumption
  <1>7. ShownFile' /\ Pages'
    BY <1>1, <1>2, ShownHandled, PagesHandled DEF Effect, MutationTypes
  <1>8. OpenedClean' /\ SaveAsked'
    <2>1. \/ type \in MutationTypes
          \/ type # "open" /\ UNCHANGED <<edits, saved>>
      BY <1>1 DEF Effect, MutationTypes
    <2> QED
      BY <1>1, <2>1, OpenedCleanHandled, SaveAskedHandled DEF OneEach
  <1>9. SavedBytes'
    BY <1>1, <1>2, SavedBytesHandled DEF Effect, MutationTypes
  <1>10. UnsavedIsDirty'
    <2>1. \/ edits' = saved'
          \/ type = "mutate" /\ ok
          \/ /\ UNCHANGED <<edits, saved>>
             /\ type \in {"open", "readCsvOptions", "reset"} => ~ok
      BY <1>1 DEF Effect
    <2> QED
      BY <1>1, <2>1, UnsavedHandled
  <1>11. Revision'
    <2>1. type # "save" /\ (type \in {"open"} \cup MutationTypes \/ UNCHANGED <<view, edits, saved>>)
      BY <1>1 DEF Effect, MutationTypes
    <2> QED
      BY <1>1, <2>1, RevisionHandled
  <1>12. WaitingHost'
    <2> SUFFICES ASSUME waits
                 PROVE  Alone' /\ OwnEdits'
      BY DEF WaitingHost
    <2>1. type # "open" /\ type # "save"
      BY <1>2 DEF MutationTypes
    <2>2. NoneUnderWay => NoneUnderWay'
      BY <1>1, <2>1, NoneHandled
    <2>3. \A i \in DOMAIN replies' : OpenOk(i)' => view = replies'[i].file
      BY <1>1, <2>1, OpensHandled DEF WaitingHost, Alone
    <2>4. Alone'
      BY <1>1, <2>2, <2>3, AloneStays DEF WaitingHost, Alone
    <2>5. \A e \in edits' \cup saved' :
             \/ type # "open" /\ e \in edits \cup saved
             \/ type = "mutate" /\ e = requests[1].arg
      BY <1>1, <2>1 DEF Effect
    <2>6. OwnEdits'
      BY <1>1, <2>1, <2>5, OwnHandled DEF WaitingHost
    <2> QED
      BY <2>4, <2>6
  <1> QED
    BY <1>3, <1>4, <1>5, <1>6, <1>7, <1>8, <1>9, <1>10, <1>11, <1>12

\* The worker answers a save.
LEMMA SaveKeeps ==
    ASSUME IInv, Save, UNCHANGED Others
    PROVE  IInv'
  <1> USE DEF IInv, Channel, Others
  <1>1. PICK ok \in BOOLEAN :
          /\ Handled("save", ok) /\ UNCHANGED <<view, edits>>
          /\ IF ok THEN view # NoFile /\ saved' = edits ELSE UNCHANGED saved
    BY SaveMove
  <1>2. saved' \in {edits, saved}
    BY <1>1
  <1>3. Types'
    BY <1>1, <1>2 DEF Types, Handled
  <1>4. Named' /\ Messages'
    BY <1>1, MessagesHandled DEF Named
  <1>5. OneEach'
    BY <1>1, OneHandled DEF OneEach
  <1>6. Opening'
    BY <1>1, OpensAnswered, OpeningKept, WasmViewerAssumption DEF Opening
  <1>7. ShownFile' /\ Pages'
    BY <1>1, ShownHandled, PagesHandled DEF Types
  <1>8. OpenedClean' /\ SaveAsked'
    BY <1>1, <1>2, OpenedCleanHandled, SaveAskedHandled DEF OneEach
  <1>9. SavedBytes'
    BY <1>1, SavedBytesSaved
  <1>10. UnsavedIsDirty'
    <2>1. CASE ok
      BY <1>1, <2>1, UnsavedHandled
    <2>2. CASE ~ok
      BY <1>1, <2>2, UnsavedHandled
    <2> QED
      BY <2>1, <2>2
  <1>11. Revision'
    BY <1>1, RevisionSaved DEF Types
  <1>12. WaitingHost'
    <2> SUFFICES ASSUME waits
                 PROVE  Alone' /\ OwnEdits'
      BY DEF WaitingHost
    <2>1. NoneUnderWay => NoneUnderWay'
      BY <1>1, NoneHandled
    <2>2. \A i \in DOMAIN replies' : OpenOk(i)' => view = replies'[i].file
      BY <1>1, OpensHandled DEF WaitingHost, Alone
    <2>3. Alone'
      BY <1>1, <2>1, <2>2, AloneStays DEF WaitingHost, Alone
    <2>4. view = savedName
      <3>1. saving = "preparing"
        BY <1>1 DEF OneEach, UnderWay, InRequests, Handled, Shifted
      <3> QED
        BY <3>1 DEF WaitingHost, Alone
    <2>5. OwnEdits'
      BY <1>1, <1>2, <2>4, OwnHandled DEF WaitingHost
    <2> QED
      BY <2>3, <2>5
  <1> QED
    BY <1>3, <1>4, <1>5, <1>6, <1>7, <1>8, <1>9, <1>10, <1>11, <1>12

----------------------------------------------------------------------------
(* The shell: requests.                                                    *)

\* An edit is sent, alone or with the value that was still in the cell editor.
LEMMA EditKeeps ==
    ASSUME IInv, Edit \/ ((StartReset \/ StartSave) /\ DispatchEdit), Apart
    PROVE  IInv'
  <1> USE DEF IInv, Channel
  <1>1. Post("mutate", <<activeName, made'>>) /\ viewOpen /\ made < MaxEdits /\ made' = made + 1
        /\ dirty' = TRUE /\ unchanged' = FALSE
    BY DEF Edit, DispatchEdit, Dispatch
  <1>2. /\ UNCHANGED <<openVars, savedName, savedBytes, loading, reading, reads, replies>>
        /\ saving' = saving \/ {saving, saving'} \subseteq {"no", "settling"}
        /\ resetting' = resetting \/ {resetting, resetting'} \subseteq {"no", "settling"}
        /\ saving' # saving => saving' = "settling"
    BY DEF Edit, StartReset, StartSave, Blocked
  <1>3. <<activeName, made'>> \in EditSet /\ <<activeName, made'>> \in Arg
    BY <1>1, WasmViewerAssumption DEF Types, Named, EditSet, Arg
  <1>4. Posted("mutate", <<activeName, made'>>)
    BY <1>1, <1>2, <1>3, Posting DEF MessageTypes
  <1>5. Types'
    <2>1. made' \in 0 .. MaxEdits
      BY <1>1, WasmViewerAssumption DEF Types
    <2>2. saving' \in Awaiting \cup {"no", "settling"} /\ resetting' \in {"no", "settling", "asked"}
      BY <1>2 DEF Types
    <2> QED
      BY <1>1, <1>2, <1>4, <2>1, <2>2 DEF Types, Posted
  <1>6. Named' /\ Messages'
    BY <1>1, <1>2, <1>3, <1>4, MessagesPosted DEF Named, Awaiting
  <1>7. OneEach'
    BY <1>2, <1>4, OnePosted DEF OneEach
  <1>8. Opening'
    BY <1>2, <1>4, OpensPosted, OpeningKept, WasmViewerAssumption DEF Opening
  <1>9. ShownFile' /\ Pages' /\ OpenedClean'
    BY <1>2, RowsKept, OpenedCleanKept
  <1>10. SaveAsked' /\ SavedBytes'
    BY <1>2, <1>4, SaveAskedPosted, SavedBytesKept
  <1>11. UnsavedIsDirty' /\ Revision'
    BY <1>1, <1>2, UnsavedKept DEF Revision
  <1>12. WaitingHost'
    <2> SUFFICES ASSUME waits
                 PROVE  Alone' /\ OwnEdits'
      BY DEF WaitingHost
    <2>1. NoneUnderWay => NoneUnderWay'
      BY <1>4, NonePosted
    <2>2. \A i \in DOMAIN replies' : OpenOk(i)' => view = replies'[i].file
      BY <1>2 DEF WaitingHost, Alone, OpenOk
    <2>3. Alone'
      BY <1>1, <1>2, <2>1, <2>2, AloneStays DEF WaitingHost, Alone
    <2>4. view = activeName /\ NoneUnderWay
      BY <1>1 DEF WaitingHost, Alone
    <2>5. ~InRequests("open")
      BY <2>4 DEF NoneUnderWay, Asked, Asks, InRequests, Messages
    <2>6. OwnEdits'
      BY <1>2, <1>4, <2>4, <2>5, OwnPosted DEF WaitingHost
    <2> QED
      BY <2>3, <2>6
  <1> QED
    BY <1>5, <1>6, <1>7, <1>8, <1>9, <1>10, <1>11, <1>12

\* A save or a reset begins, or a reset ends before it was asked for: no message moves.
LEMMA ShellKeeps ==
    ASSUME IInv, Apart,
           UNCHANGED <<openVars, savedName, savedBytes, reading, made, reads, requests, replies>>,
           loading' \in BOOLEAN, UNCHANGED <<dirty, unchanged>>,
           saving' = saving \/ (saving = "no" /\ saving' = "settling" /\ viewOpen),
           resetting' = resetting \/ {resetting, resetting'} \subseteq {"no", "settling"}
    PROVE  IInv'
  <1> USE DEF IInv, Channel
  <1>1. Types'
    BY DEF Types
  <1>2. Named' /\ Messages'
    BY DEF Named, Messages, Awaiting
  <1>3. OneEach'
    BY DEF OneEach, OneFor, UnderWay, InRequests, InReplies
  <1>4. Opening'
    BY OpensIdle, OpeningKept, WasmViewerAssumption DEF Opening
  <1>5. ShownFile' /\ Pages' /\ OpenedClean'
    BY RowsKept, OpenedCleanKept
  <1>6. SaveAsked' /\ SavedBytes'
    BY SaveAskedKept, SavedBytesKept
  <1>7. UnsavedIsDirty' /\ Revision'
    BY UnsavedKept, RevisionKept DEF Awaiting
  <1>8. WaitingHost'
    <2> SUFFICES ASSUME waits
                 PROVE  Alone' /\ OwnEdits'
      BY DEF WaitingHost
    <2>1. NoneUnderWay => NoneUnderWay'
      BY DEF NoneUnderWay, Asked, Answered, Asks, Answers
    <2>2. \A i \in DOMAIN replies' : OpenOk(i)' => view = replies'[i].file
      BY DEF WaitingHost, Alone, OpenOk
    <2>3. Alone'
      BY <2>1, <2>2, AloneStays DEF WaitingHost, Alone
    <2>4. OwnEdits'
      BY DEF WaitingHost, OwnEdits, OfFile, SaveAnswered
    <2> QED
      BY <2>3, <2>4
  <1> QED
    BY <1>1, <1>2, <1>3, <1>4, <1>5, <1>6, <1>7, <1>8

\* Rows, options and a reset are asked for.
LEMMA AskKeeps ==
    ASSUME IInv, AskRows \/ AskDialect \/ (AskReset /\ viewOpen), Apart
    PROVE  IInv'
  <1> USE DEF IInv, Channel
  <1>1. PICK type \in MessageTypes, arg \in Arg :
          /\ Post(type, arg)
          /\ \/ type \in {"readRows", "readCsvOptions"} /\ arg = generation /\ generation > 0
             \/ type = "reset"
          /\ UNCHANGED <<openVars, saveVars, made, replies>>
          /\ reading' = (reading \/ type = "readCsvOptions")
          /\ type = "readCsvOptions" => viewOpen /\ ~reading /\ reads' = reads + 1 /\ reads < MaxReads
          /\ type # "readCsvOptions" => UNCHANGED reads
          /\ IF type = "reset" THEN resetting = "settling" /\ resetting' = "asked"
             ELSE UNCHANGED resetting
          /\ loading' \in BOOLEAN
          /\ \/ UNCHANGED <<dirty, unchanged>>
             \/ dirty' = TRUE /\ unchanged' = FALSE
          /\ type = "reset" => unchanged' = FALSE
    <2>1. CASE AskRows
      <3>1. generation \in Arg /\ "readRows" \in MessageTypes
        BY DEF Types, Arg, MessageTypes
      <3> QED
        BY <2>1, <3>1 DEF AskRows, Types
    <2>2. CASE AskDialect
      <3>1. generation \in Arg /\ "readCsvOptions" \in MessageTypes
        BY DEF Types, Arg, MessageTypes
      <3>2. generation > 0
        BY <2>2 DEF AskDialect, Named, Types
      <3> QED
        BY <2>2, <3>1, <3>2 DEF AskDialect, Types
    <2>3. CASE AskReset /\ viewOpen
      <3>1. 0 \in Arg /\ "reset" \in MessageTypes
        BY DEF Arg, MessageTypes
      <3> QED
        BY <2>3, <3>1 DEF AskReset, Dispatch, Types
    <2> QED
      BY <2>1, <2>2, <2>3
  <1>2. Posted(type, arg)
    BY <1>1, Posting
  <1>3. type \notin {"open", "mutate", "save"} /\ generation \in Nat
    BY <1>1 DEF Types
  <1>4. Types'
    <2>1. reads' \in 0 .. MaxReads
      BY <1>1, WasmViewerAssumption DEF Types
    <2>2. /\ resetting' \in {"no", "settling", "asked"} /\ reading' \in BOOLEAN
          /\ dirty' \in BOOLEAN /\ unchanged' \in BOOLEAN
      BY <1>1 DEF Types
    <2> QED
      BY <1>1, <1>2, <2>1, <2>2 DEF Types, Posted
  <1>5. Named'
    BY <1>1 DEF Named
  <1>13. Messages'
    <2>1. type \in {"readRows", "readCsvOptions"} => arg \in 1 .. generation
      BY <1>1, <1>3
    <2> QED
      BY <1>1, <1>2, <1>3, <2>1, MessagesPosted
  <1>6. OneEach'
    BY <1>1, <1>2, <1>3, OnePosted DEF OneEach
  <1>7. Opening'
    BY <1>1, <1>2, <1>3, OpensPosted, OpeningKept, WasmViewerAssumption DEF Opening
  <1>8. ShownFile' /\ Pages' /\ OpenedClean'
    BY <1>1, RowsKept, OpenedCleanKept
  <1>9. SaveAsked' /\ SavedBytes'
    BY <1>1, <1>2, <1>3, SaveAskedPosted, SavedBytesKept
  <1>10. UnsavedIsDirty'
    BY <1>1, UnsavedKept
  <1>11. Revision'
    <2> SUFFICES ASSUME saving \in Awaiting, unchanged'
                 PROVE  Revision'
      BY <1>1 DEF Revision
    <2>1. unchanged /\ UNCHANGED dirty /\ type \in {"readRows", "readCsvOptions"}
      BY <1>1
    <2>2. ~Pending /\ (~InRequests("save") => ~InRequests("open"))
      BY <2>1 DEF Revision
    <2>3. ~Pending'
      BY <1>2, <2>1, <2>2 DEF Pending, MutationTypes, Posted, Extended
    <2>4. ASSUME NEW i \in DOMAIN requests', requests'[i].type = "save",
                 NEW j \in DOMAIN requests', j > i
          PROVE  requests'[j].type # "open"
      <3>1. i \in DOMAIN requests /\ requests[i].type = "save"
        BY <1>2, <2>1, <2>4 DEF Posted, Extended
      <3>2. \A k \in DOMAIN requests : k > i => requests[k].type # "open"
        BY <2>1, <3>1 DEF Revision
      <3> QED
        BY <1>2, <2>1, <2>4, <3>2 DEF Posted, Extended
    <2>5. (InRequests("save")' <=> InRequests("save")) /\ (InRequests("open")' <=> InRequests("open"))
      BY <1>2, <1>3 DEF InRequests, Posted, Extended
    <2> QED
      BY <1>1, <2>1, <2>2, <2>3, <2>4, <2>5 DEF Revision, SaveAnswered, OpenOk
  <1>12. WaitingHost'
    <2> SUFFICES ASSUME waits
                 PROVE  Alone' /\ OwnEdits'
      BY DEF WaitingHost
    <2>1. NoneUnderWay => NoneUnderWay'
      BY <1>2, <1>3, NonePosted
    <2>2. \A i \in DOMAIN replies' : OpenOk(i)' => view = replies'[i].file
      BY <1>1 DEF WaitingHost, Alone, OpenOk
    <2>3. Alone'
      BY <1>1, <2>1, <2>2, AloneStays DEF WaitingHost, Alone
    <2>4. OwnEdits'
      BY <1>1, <1>2, <1>3, OwnPosted DEF WaitingHost
    <2> QED
      BY <2>3, <2>4
  <1> QED
    BY <1>4, <1>5, <1>13, <1>6, <1>7, <1>8, <1>9, <1>10, <1>11, <1>12

\* The bytes are asked for once no edit is under way.
LEMMA PrepareKeeps ==
    ASSUME IInv, Prepare, Apart
    PROVE  IInv'
  <1> USE DEF IInv, Channel
  <1>1. /\ saving = "settling" /\ ~Pending /\ saving' = "preparing" /\ savedName' = activeName
        /\ unchanged' = TRUE /\ loading' = TRUE /\ Post("save", 0)
        /\ UNCHANGED <<openVars, savedBytes, dirty, resetting, reading, made, reads, replies>>
    BY DEF Prepare
  <1>2. Posted("save", 0)
    BY <1>1, Posting DEF Arg, MessageTypes
  <1>3. savedName = NoFile /\ activeName # NoFile /\ generation > 0
    BY <1>1 DEF Named, Awaiting, Types
  <1>4. ~UnderWay("save")
    BY <1>1 DEF OneEach
  <1>5. Types'
    BY <1>1, <1>2 DEF Types, Posted, Awaiting
  <1>6. Named' /\ Messages'
    BY <1>1, <1>2, <1>3, MessagesPosted DEF Named, Awaiting
  <1>7. OneEach'
    BY <1>1, <1>2, <1>4, OnePosted DEF OneEach
  <1>8. Opening'
    BY <1>1, <1>2, OpensPosted, OpeningKept, WasmViewerAssumption DEF Opening
  <1>9. ShownFile' /\ Pages' /\ OpenedClean'
    BY <1>1, RowsKept, OpenedCleanKept
  <1>10. SaveAsked'
    BY <1>1, <1>2, <1>3, <1>4, SaveAskedPrepared
  <1>11. \A i \in DOMAIN replies : ~SaveAnswered(i)
    BY <1>4 DEF UnderWay, InReplies, SaveAnswered
  <1>12. SavedBytes'
    BY <1>1, <1>3, <1>11 DEF SavedBytes, SaveAnswered
  <1>13. UnsavedIsDirty'
    BY <1>1, UnsavedKept
  <1>14. Revision'
    <2>1. ~Pending'
      BY <1>1, <1>2 DEF Pending, MutationTypes, Posted, Extended
    <2>2. InRequests("save")'
      BY <1>2 DEF InRequests, Posted, Extended
    <2>3. ASSUME NEW i \in DOMAIN requests', requests'[i].type = "save",
                 NEW j \in DOMAIN requests', j > i
          PROVE  requests'[j].type # "open"
      BY <1>2, <1>4, <2>3 DEF UnderWay, InRequests, Posted, Extended
    <2>4. \A i \in DOMAIN replies' : ~SaveAnswered(i)'
      BY <1>1, <1>11 DEF SaveAnswered
    <2> QED
      BY <1>1, <2>1, <2>2, <2>3, <2>4 DEF Revision
  <1>15. WaitingHost'
    <2> SUFFICES ASSUME waits
                 PROVE  Alone' /\ OwnEdits'
      BY DEF WaitingHost
    <2>1. NoneUnderWay => NoneUnderWay'
      BY <1>2, NonePosted
    <2>2. \A i \in DOMAIN replies' : OpenOk(i)' => view = replies'[i].file
      BY <1>1 DEF WaitingHost, Alone, OpenOk
    <2>3. Alone'
      BY <1>1, <2>1, <2>2, AloneStays DEF WaitingHost, Alone
    <2>4. OwnEdits'
      <3>1. ASSUME NEW i \in DOMAIN requests', requests'[i].type = "mutate"
            PROVE  /\ requests'[i].arg[1] = view
                   /\ \A j \in DOMAIN requests' : requests'[j].type = "open" => i < j
        BY <1>1, <1>2, <3>1 DEF Pending, MutationTypes, Posted, Extended
      <3>2. \A i \in DOMAIN replies' : ~SaveAnswered(i)'
        BY <1>1, <1>11 DEF SaveAnswered
      <3> QED
        BY <1>1, <3>1, <3>2 DEF WaitingHost, OwnEdits, OfFile
    <2> QED
      BY <2>3, <2>4
  <1> QED
    BY <1>5, <1>6, <1>7, <1>8, <1>9, <1>10, <1>12, <1>13, <1>14, <1>15

----------------------------------------------------------------------------
(* The shell: answers.                                                     *)

\* What the shell makes of an answer that is neither an open's nor a save's.
Takes(type) ==
    /\ UNCHANGED <<savedName, savedBytes, made, reads>> /\ loading' \in BOOLEAN
    /\ saving' = saving \/ (saving = "settling" /\ saving' = "no")
    /\ IF type = "reset" THEN resetting' = "no"
       ELSE resetting' = resetting \/ (resetting = "settling" /\ resetting' = "no")
    /\ reading' = (reading /\ type # "readCsvOptions")
    /\ dirty' \in BOOLEAN /\ unchanged' \in BOOLEAN
    /\ unchanged' => unchanged
    /\ dirty' => dirty \/ type = "mutate"
    /\ ~Clears(1) => (dirty => dirty')
    /\ EditAnswered(1) => dirty'
    /\ \/ /\ type = "readCsvOptions" /\ replies[1].ok /\ replies[1].arg = generation
          /\ UNCHANGED activeName /\ viewOpen' = TRUE /\ page' = NoFile
          /\ generation' = generation + 1
       \/ /\ UNCHANGED <<viewOpen, activeName, generation>>
          /\ page' # page => /\ type = "readRows" /\ replies[1].ok
                             /\ replies[1].arg = generation /\ page' = replies[1].file

\* What shell.mjs does with an answer that is neither of an open nor of a save.
LEMMA TakeMove ==
    ASSUME IInv, Edited \/ EditRefused \/ TakeRows \/ TakeDialect \/ ResetDone, Apart
    PROVE  \E type \in {"mutate", "reset", "readRows", "readCsvOptions"} :
              Took(type) /\ Takes(type)
  <1> USE DEF IInv, Channel
  <1>1. /\ dirty \in BOOLEAN /\ unchanged \in BOOLEAN /\ loading \in BOOLEAN
        /\ reading \in BOOLEAN /\ viewOpen \in BOOLEAN
    BY DEF Types
  <1>2. Head(replies) = replies[1] \/ replies = <<>>
    BY TailShifts DEF Shifted, Types
  <1>3. CASE Edited
    <2>1. Took("mutate") /\ replies[1].ok = TRUE
      BY <1>3, Taking DEF Edited
    <2> QED
      BY <1>1, <1>3, <2>1 DEF Edited, Takes, Clears, EditAnswered, Took, OneEach
  <1>4. CASE EditRefused
    <2>1. Took("mutate") /\ replies[1].ok = FALSE
      BY <1>4, Taking DEF EditRefused
    <2>2. \/ UNCHANGED <<saving, resetting>>
          \/ /\ saving = "settling" /\ saving' = "no"
             /\ resetting' = resetting \/ (resetting = "settling" /\ resetting' = "no")
          \/ resetting = "settling" /\ resetting' = "no" /\ UNCHANGED saving
      BY <1>4 DEF EditRefused
    <2>3. /\ UNCHANGED <<openVars, savedName, savedBytes, dirty, loading, unchanged, reading, made,
                         reads>>
      BY <1>4 DEF EditRefused
    <2> QED
      BY <1>1, <2>1, <2>2, <2>3 DEF Takes, Clears, EditAnswered
  <1>5. CASE TakeRows
    <2>1. PICK ok \in BOOLEAN :
            /\ Receive("readRows", ok)
            /\ page' = IF ok /\ Head(replies).arg = generation THEN Head(replies).file ELSE page
            /\ UNCHANGED <<viewOpen, activeName, generation, saveVars, dirty, loading, unchanged,
                           resetting, reading, made, reads, requests>>
      BY <1>5 DEF TakeRows
    <2>2. Took("readRows") /\ replies[1].ok = ok /\ replies # <<>>
      BY <2>1, Taking DEF Receive
    <2>3. page' # page => /\ replies[1].ok /\ replies[1].arg = generation
                          /\ page' = replies[1].file
      BY <1>2, <2>1, <2>2
    <2>4. ~Clears(1) /\ ~EditAnswered(1)
      BY <2>2 DEF Clears, EditAnswered, Took
    <2> QED
      BY <1>1, <2>1, <2>2, <2>3, <2>4 DEF Takes
  <1>6. CASE TakeDialect
    <2>1. PICK ok \in BOOLEAN :
            /\ Receive("readCsvOptions", ok) /\ reading' = FALSE
            /\ IF ok /\ Head(replies).arg = generation
               THEN LoadView(activeName) ELSE UNCHANGED <<openVars, dirty>>
            /\ UNCHANGED <<saveVars, loading, unchanged, resetting, made, reads, requests>>
      BY <1>6 DEF TakeDialect
    <2>2. Took("readCsvOptions") /\ replies[1].ok = ok /\ replies # <<>>
      BY <2>1, Taking DEF Receive
    <2>3. ~EditAnswered(1) /\ (ok => Clears(1))
      BY <2>2 DEF Clears, EditAnswered, Took
    <2>4. CASE ok /\ Head(replies).arg = generation
      BY <1>1, <1>2, <2>1, <2>2, <2>3, <2>4 DEF Takes, LoadView
    <2>5. CASE ~(ok /\ Head(replies).arg = generation)
      BY <1>1, <2>1, <2>2, <2>3, <2>5 DEF Takes
    <2> QED
      BY <2>4, <2>5
  <1>7. CASE ResetDone
    <2>1. PICK ok \in BOOLEAN :
            /\ Receive("reset", ok)
            /\ IF ok THEN dirty' = FALSE /\ unchanged' = FALSE ELSE UNCHANGED <<dirty, unchanged>>
            /\ resetting' = "no" /\ loading' = FALSE
            /\ IF ok \/ saving # "settling" THEN UNCHANGED saving ELSE saving' \in {"settling", "no"}
            /\ UNCHANGED <<openVars, savedName, savedBytes, reading, made, reads, requests>>
      BY <1>7 DEF ResetDone
    <2>2. Took("reset") /\ replies[1].ok = ok
      BY <2>1, Taking
    <2>3. ~EditAnswered(1) /\ (ok => Clears(1))
      BY <2>2 DEF Clears, EditAnswered, Took
    <2>4. saving' = saving \/ (saving = "settling" /\ saving' = "no")
      BY <2>1
    <2> QED
      BY <1>1, <2>1, <2>2, <2>3, <2>4 DEF Takes
  <1> QED
    BY <1>3, <1>4, <1>5, <1>6, <1>7

\* The shell takes such an answer.
LEMMA TakeKeeps ==
    ASSUME IInv, Edited \/ EditRefused \/ TakeRows \/ TakeDialect \/ ResetDone, Apart
    PROVE  IInv'
  <1> USE DEF IInv, Channel
  <1>1. PICK type \in {"mutate", "reset", "readRows", "readCsvOptions"} : Took(type) /\ Takes(type)
    BY TakeMove
  <1>2. generation \in Nat /\ UNCHANGED <<savedName, savedBytes, activeName>>
    BY <1>1 DEF Types, Takes
  <1>3. replies[1].type = type /\ 1 \in DOMAIN replies
    BY <1>1 DEF Took, Shifted
  <1>4. type = "readCsvOptions" => reading
    BY <1>3 DEF OneEach, UnderWay, InReplies
  <1>5. generation' = generation
          \/ (generation' = generation + 1 /\ generation > 0 /\ page' = NoFile /\ viewOpen' = TRUE)
    BY <1>1, <1>2, <1>3 DEF Takes, Messages
  <1>6. ~OpenOk(1)
    BY <1>3 DEF OpenOk
  <1>7. Types'
    <2>1. page' \in File \cup {NoFile}
      <3>1. replies[1].file \in File \cup {NoFile}
        BY <1>3, Elements DEF Reply
      <3> QED
        BY <1>1, <3>1 DEF Takes, Types
    <2>2. saving' \in Awaiting \cup {"no", "settling"} /\ resetting' \in {"no", "settling", "asked"}
      BY <1>1 DEF Takes, Types
    <2>3. generation' \in Nat
      BY <1>2, <1>5
    <2>4. viewOpen' \in BOOLEAN
      BY <1>1 DEF Takes, Types
    <2>5. reading' \in BOOLEAN
      BY <1>1 DEF Takes
    <2>6. requests' \in Seq(Request) /\ replies' \in Seq(Reply)
      BY <1>1 DEF Types, Took
    <2>7. UNCHANGED <<view, edits, saved, stored, refused, queue, running, unsent, initialized, waits>>
      OBVIOUS
    <2>8. UNCHANGED <<savedName, activeName, savedBytes, made, reads>>
      BY <1>1, <1>2 DEF Takes
    <2>9. dirty' \in BOOLEAN /\ loading' \in BOOLEAN /\ unchanged' \in BOOLEAN
      BY <1>1 DEF Takes
    <2> QED
      BY <2>1, <2>2, <2>3, <2>4, <2>5, <2>6, <2>7, <2>8, <2>9 DEF Types
  <1>8. Named'
    <2>1. generation' > 0 <=> generation > 0
      BY <1>2, <1>5
    <2>2. viewOpen' => viewOpen \/ generation > 0
      <3>1. CASE UNCHANGED viewOpen
        BY <3>1
      <3>2. CASE viewOpen' # viewOpen
        <4>1. generation' = generation + 1
          BY <1>1, <3>2 DEF Takes
        <4> QED
          BY <1>2, <1>5, <4>1
      <3> QED
        BY <3>1, <3>2
    <2>3. reading' => reading
      BY <1>1 DEF Takes
    <2>4. /\ saving' # "no" => saving # "no"
          /\ saving' \in Awaiting <=> saving \in Awaiting
      BY <1>1 DEF Takes, Awaiting
    <2> QED
      BY <1>2, <2>1, <2>2, <2>3, <2>4 DEF Named
  <1>9. Messages'
    BY <1>1, <1>2, <1>5, MessagesTook
  <1>10. OneEach'
    <2>1. /\ OneFor("save")' /\ (UnderWay("save")' <=> UnderWay("save"))
          /\ OneFor("reset")' /\ (UnderWay("reset")' <=> UnderWay("reset") /\ type # "reset")
          /\ OneFor("readCsvOptions")'
          /\ UnderWay("readCsvOptions")' <=> UnderWay("readCsvOptions") /\ type # "readCsvOptions"
      BY <1>1, OneTook DEF OneEach
    <2>2. /\ saving' = "preparing" <=> saving = "preparing"
          /\ resetting' = "asked" <=> resetting = "asked" /\ type # "reset"
          /\ reading' <=> reading /\ type # "readCsvOptions"
      BY <1>1 DEF Takes
    <2> QED
      BY <2>1, <2>2 DEF OneEach
  <1>11. Opening'
    <2>1. OpensAsBefore
      BY <1>1, OpensTaken DEF Opening
    <2>2. ~initialized => UNCHANGED <<generation, viewOpen>>
      BY <1>1, <1>2, <1>3 DEF Opening, Openers, Takes, Messages
    <2> QED
      BY <1>2, <2>1, <2>2, OpeningKept, WasmViewerAssumption
  <1>12. ShownFile'
    BY <1>1, <1>2, <1>5, <1>6, ShownTook
  <1>13. Pages'
    BY <1>1, <1>2, <1>6, PagesTook DEF Takes
  <1>14. OpenedClean' /\ SaveAsked'
    BY <1>1, <1>2, OpenedCleanTook, SaveAskedTook
  <1>15. SavedBytes'
    BY <1>1, <1>2, SavedBytesTook DEF Takes
  <1>16. UnsavedIsDirty'
    <2>1. ~Clears(1) => (dirty \/ ~viewOpen => dirty' \/ ~viewOpen')
      BY <1>1, <1>3 DEF Takes, Clears
    <2>2. EditAnswered(1) => dirty'
      BY <1>1 DEF Takes
    <2> QED
      BY <1>1, <2>1, <2>2, UnsavedTook
  <1>17. Revision'
    <2>1. saving' \in Awaiting /\ unchanged' => UNCHANGED <<saving, unchanged, savedName>>
      BY <1>1, <1>2 DEF Takes, Awaiting, Types
    <2>2. type \in MutationTypes \/ (dirty' => dirty /\ UNCHANGED activeName /\ ~OpenOk(1))
      BY <1>1, <1>2, <1>6 DEF Takes, MutationTypes
    <2> QED
      BY <1>1, <2>1, <2>2, RevisionTook
  <1>18. WaitingHost'
    <2> SUFFICES ASSUME waits
                 PROVE  Alone' /\ OwnEdits'
      BY DEF WaitingHost
    <2>1. NoneUnderWay => NoneUnderWay'
      BY <1>1, NoneTook
    <2>2. \A i \in DOMAIN replies' : OpenOk(i)' => view = replies'[i].file
      BY <1>1, OpensTook DEF WaitingHost, Alone
    <2>3. UNCHANGED viewOpen
      BY <1>1, <1>4 DEF WaitingHost, Alone, Takes, Types
    <2>4. saving' \in {"settling", "preparing"} \/ reading' => viewOpen
      BY <1>1 DEF WaitingHost, Alone, Takes
    <2>5. saving' = "preparing" => savedName' = activeName
      BY <1>1, <1>2 DEF WaitingHost, Alone, Takes
    <2>6. Alone'
      BY <1>2, <2>1, <2>2, <2>3, <2>4, <2>5, AloneStays DEF WaitingHost
    <2>7. saving' = "persisting" => saving = "persisting"
      BY <1>1 DEF Takes
    <2>8. OwnEdits'
      BY <1>1, <1>2, <2>7, OwnTook DEF WaitingHost
    <2> QED
      BY <2>6, <2>8
  <1> QED
    BY <1>7, <1>8, <1>9, <1>10, <1>11, <1>12, <1>13, <1>14, <1>15, <1>16, <1>17, <1>18

\* The bytes of a save come, or none.
LEMMA PreparedKeeps ==
    ASSUME IInv, Prepared \/ PrepareFailed, Apart
    PROVE  IInv'
  <1> USE DEF IInv, Channel
  <1>1. /\ Took("save") /\ Head(replies) = replies[1]
        /\ UNCHANGED <<openVars, dirty, unchanged, resetting, reading, made, reads>>
    BY Taking, TailShifts DEF Prepared, PrepareFailed, Types, Receive, Shifted
  <1>2. \/ /\ replies[1].ok /\ saving' = "persisting" /\ UNCHANGED <<savedName, loading>>
           /\ savedBytes' = [file |-> replies[1].file, edits |-> replies[1].edits]
        \/ /\ ~replies[1].ok /\ saving' = "no" /\ savedName' = NoFile /\ savedBytes' = NoBytes
           /\ loading' = FALSE
    <2>1. CASE Prepared
      BY <1>1, <2>1, Taking DEF Prepared
    <2>2. CASE PrepareFailed
      BY <1>1, <2>2, Taking DEF PrepareFailed, EndSave
    <2> QED
      BY <2>1, <2>2
  <1>3. 1 \in DOMAIN replies /\ replies[1].type = "save" /\ replies[1] \in Reply
    BY <1>1, Elements DEF Took, Shifted
  <1>4. saving = "preparing" /\ ~InRequests("save") /\ savedName # NoFile
    BY <1>3 DEF OneEach, OneFor, UnderWay, InReplies, Named, Awaiting
  <1>5. \A i \in DOMAIN replies' : replies'[i].type # "save"
    BY <1>1, <1>3 DEF OneEach, OneFor, Took, Shifted
  <1>6. Types'
    <2>1. savedBytes' \in Content
      BY <1>2, <1>3 DEF Reply, Content, NoBytes
    <2>2. savedName' \in File \cup {NoFile} /\ loading' \in BOOLEAN
      BY <1>2 DEF Types
    <2>3. saving' \in Awaiting \cup {"no", "settling"}
      BY <1>2 DEF Awaiting
    <2> QED
      BY <1>1, <2>1, <2>2, <2>3 DEF Types, Took
  <1>7. Named' /\ Messages'
    BY <1>1, <1>2, <1>4, MessagesTook DEF Named, Awaiting, Types
  <1>8. OneEach'
    BY <1>1, <1>2, OneTook DEF OneEach
  <1>9. Opening'
    BY <1>1, <1>2, OpensTaken, OpeningKept, WasmViewerAssumption DEF Opening
  <1>10. ~OpenOk(1)
    BY <1>3 DEF OpenOk
  <1>11. ShownFile' /\ Pages'
    BY <1>1, <1>10, ShownTook, PagesTook DEF Types
  <1>12. OpenedClean' /\ SaveAsked'
    BY <1>1, <1>4, OpenedCleanTook, SaveAskedTook
  <1>13. SavedBytes'
    <2>1. \A i \in DOMAIN replies' : ~SaveAnswered(i)'
      BY <1>5 DEF SaveAnswered
    <2>2. CASE replies[1].ok
      <3>1. savedName = view => savedBytes' = [file |-> view, edits |-> saved]
        BY <1>2, <1>3, <2>2 DEF SavedBytes, SaveAnswered
      <3> QED
        BY <1>2, <1>3, <1>4, <2>1, <2>2, <3>1 DEF SavedBytes, SaveAnswered
    <2>3. CASE ~replies[1].ok
      <3>1. \A i \in DOMAIN replies : ~SaveAnswered(i)
        BY <1>3, <2>3 DEF OneEach, OneFor, SaveAnswered
      <3> QED
        BY <1>2, <1>4, <2>1, <2>3, <3>1 DEF SavedBytes
    <2> QED
      BY <2>2, <2>3
  <1>14. UnsavedIsDirty'
    BY <1>1, <1>3, UnsavedTook DEF EditAnswered
  <1>15. Revision'
    <2>1. CASE replies[1].ok
      BY <1>1, <1>2, <2>1, RevisionPrepared
    <2>2. CASE ~replies[1].ok
      BY <1>2, <2>2 DEF Revision, Awaiting
    <2> QED
      BY <2>1, <2>2
  <1>16. WaitingHost'
    <2> SUFFICES ASSUME waits
                 PROVE  Alone' /\ OwnEdits'
      BY DEF WaitingHost
    <2>1. NoneUnderWay => NoneUnderWay'
      BY <1>1, NoneTook
    <2>2. \A i \in DOMAIN replies' : OpenOk(i)' => view = replies'[i].file
      BY <1>1, OpensTook DEF WaitingHost, Alone
    <2>3. Alone'
      BY <1>1, <1>2, <2>1, <2>2, AloneStays DEF WaitingHost, Alone
    <2>4. OwnEdits'
      BY <1>1, <1>2, <1>3, <1>5, OwnTook DEF WaitingHost, SaveAnswered
    <2> QED
      BY <2>3, <2>4
  <1> QED
    BY <1>6, <1>7, <1>8, <1>9, <1>11, <1>12, <1>13, <1>14, <1>15, <1>16

----------------------------------------------------------------------------
(* Opens, and the host.                                                    *)

\* An open ends, loaded or not.
LEMMA OpenEndsKeeps ==
    ASSUME IInv, OpenEnds
    PROVE  IInv'
  <1> USE DEF IInv, Channel, Opening
  <1> DEFINE f == replies[1].arg
  <1>1. /\ Took("open") /\ Head(replies) = replies[1]
        /\ replies[1] \in Reply /\ 1 \in DOMAIN replies
    BY Taking, TailShifts, Elements DEF OpenEnds, Opened, OpenFailed, Types, Receive, Shifted
  <1>2. /\ running' = [o \in Opener |-> IF running[o] = f THEN NoFile ELSE running[o]]
        /\ UNCHANGED <<view, edits, saved, initialized, queue, hostVars>>
        /\ UNCHANGED <<saveVars, unchanged, resetting, reading, made, reads>> /\ loading' = FALSE
    BY <1>1 DEF OpenEnds, Opened, OpenFailed
  <1>3. f \in File /\ (replies[1].ok => replies[1].file = f)
    BY <1>1 DEF Took, Messages
  <1>4. \/ /\ OpenOk(1) /\ viewOpen' = TRUE /\ activeName' = f /\ generation' = generation + 1
           /\ page' = NoFile /\ dirty' = FALSE
        \/ /\ ~OpenOk(1) /\ UNCHANGED <<openVars, dirty>>
    <2>1. CASE Opened
      <3>1. replies[1].ok = TRUE
        BY <1>1, <2>1, Taking DEF Opened
      <3> QED
        BY <1>1, <1>3, <2>1, <3>1 DEF Opened, LoadView, OpenOk, Took
    <2>2. CASE OpenFailed
      <3>1. replies[1].ok = FALSE
        BY <1>1, <2>2, Taking DEF OpenFailed
      <3> QED
        BY <2>2, <3>1 DEF OpenFailed, OpenOk
    <2> QED
      BY <2>1, <2>2 DEF OpenEnds
  <1>5. Answered(f) /\ OneOpen(f) /\ ~Asked(f)
    BY <1>1, <1>3 DEF Took, Answered, Answers, OpenedOnce, OneOpen
  <1>6. \A g \in File :
          OneOpen(g)' /\ (Asked(g)' <=> Asked(g)) /\ (Answered(g)' <=> Answered(g) /\ g # f)
    BY <1>1, OpenTook DEF OpenedOnce
  <1>7. (\A g \in File : Queued(g)' <=> Queued(g)) /\ (QueuedOnce <=> QueuedOnce')
    BY <1>2, QueueKept
  <1>8. generation \in Nat /\ f # NoFile
    BY <1>3, WasmViewerAssumption DEF Types
  <1>9. PICK o \in Opener : running[o] = f
    BY <1>3, <1>5 DEF Openers
  <1>10. initialized
    BY <1>8, <1>9 DEF Openers
  <1> HIDE DEF f
  <1>11. Types'
    <2>1. running' \in [Opener -> File \cup {NoFile}]
      BY <1>2 DEF Types
    <2>2. /\ viewOpen' \in BOOLEAN /\ activeName' \in File \cup {NoFile} /\ generation' \in Nat
          /\ page' \in File \cup {NoFile} /\ dirty' \in BOOLEAN
      <3>1. CASE OpenOk(1)
        <4>1. /\ viewOpen' = TRUE /\ activeName' = f /\ generation' = generation + 1
              /\ page' = NoFile /\ dirty' = FALSE
          BY <1>4, <3>1
        <4>2. generation' \in Nat
          BY <1>8, <4>1
        <4>3. activeName' \in File \cup {NoFile} /\ page' \in File \cup {NoFile}
          BY <1>3, <4>1
        <4>4. viewOpen' \in BOOLEAN /\ dirty' \in BOOLEAN
          BY <4>1
        <4> QED
          BY <4>2, <4>3, <4>4
      <3>2. CASE ~OpenOk(1)
        BY <1>4, <3>2 DEF Types
      <3> QED
        BY <3>1, <3>2
    <2> QED
      BY <1>1, <1>2, <2>1, <2>2 DEF Types, Took
  <1>12. Named'
    <2>1. generation' > 0 <=> activeName' # NoFile
      BY <1>4, <1>8 DEF Named
    <2>2. viewOpen' => activeName' # NoFile
      BY <1>4, <1>8 DEF Named
    <2>3. activeName # NoFile => activeName' # NoFile
      BY <1>4, <1>8
    <2> QED
      BY <1>2, <2>1, <2>2, <2>3 DEF Named
  <1>13. Messages'
    BY <1>1, <1>4, <1>8, MessagesTook
  <1>14. OneEach'
    BY <1>1, <1>2, OneTook DEF OneEach
  <1>15. OpenedOnce'
    BY <1>2, <1>6, <1>7 DEF OpenedOnce
  <1>16. Openers'
    <2>1. \A p \in Opener : running'[p] # NoFile =>
            running'[p] = running[p] /\ running[p] # f /\ running[p] \in File
      BY <1>2 DEF Types
    <2>2. \A p \in Opener : running'[p] # NoFile => Asked(running[p])' \/ Answered(running[p])'
      <3>1. ASSUME NEW p \in Opener, NEW g \in File, running'[p] = g
            PROVE  Asked(g)' \/ Answered(g)'
        BY <1>6, <2>1, <3>1, WasmViewerAssumption DEF Openers
      <3> QED
        BY <2>1, <3>1 DEF Asked, Answered, Asks, Answers
    <2>3. \A p, q \in Opener : running'[p] = running'[q] /\ running'[p] # NoFile => p = q
      BY <2>1 DEF Openers
    <2>4. ASSUME NEW g \in File, Asked(g)' \/ Answered(g)'
          PROVE  \E p \in Opener : running'[p] = g
      <3>1. g # f /\ (Asked(g) \/ Answered(g))
        BY <1>5, <1>6, <2>4
      <3>2. PICK p \in Opener : running[p] = g
        BY <3>1 DEF Openers
      <3> QED
        BY <1>2, <3>1, <3>2
    <2> QED
      BY <1>2, <1>10, <2>2, <2>3, <2>4 DEF Openers
  <1>17. Untouched'
    <2>1. ASSUME NEW g \in File, Unopened(g)'
          PROVE  Unopened(g) /\ g # f
      BY <1>2, <1>3, <1>5, <1>6, <1>7, <2>1 DEF Unopened, OpenedOnce
    <2>2. activeName' \in {activeName, f}
      BY <1>4
    <2> QED
      BY <1>2, <2>1, <2>2 DEF Untouched
  <1>18. ShownFile'
    BY <1>1, <1>2, <1>3, <1>4, <1>8, ShownTook DEF OpenOk
  <1>19. Pages'
    BY <1>1, <1>4, <1>8, PagesTook
  <1>20. OpenedClean' /\ SaveAsked'
    BY <1>1, <1>2, OpenedCleanTook, SaveAskedTook
  <1>21. SavedBytes'
    BY <1>1, <1>2, SavedBytesTook
  <1>22. UnsavedIsDirty'
    <2>1. replies[1].type = "open"
      BY <1>1 DEF Took
    <2>2. ~Clears(1) => (dirty \/ ~viewOpen => dirty' \/ ~viewOpen')
      BY <1>4, <2>1 DEF Clears, OpenOk
    <2>3. ~EditAnswered(1)
      BY <2>1 DEF EditAnswered
    <2> QED
      BY <1>1, <1>2, <2>2, <2>3, UnsavedTook
  <1>23. Revision'
    <2>1. dirty' => dirty /\ UNCHANGED activeName /\ ~OpenOk(1)
      BY <1>4
    <2> QED
      BY <1>1, <1>2, <2>1, RevisionTook
  <1>24. WaitingHost'
    <2> SUFFICES ASSUME waits
                 PROVE  Alone' /\ OwnEdits'
      BY <1>2 DEF WaitingHost
    <2>1. \A p \in Opener : running[p] # NoFile => p = o
      BY <1>8, <1>9 DEF WaitingHost, Alone
    <2>2. running' = [p \in Opener |-> NoFile]
      BY <1>2, <1>9, <2>1
    <2>3. NoneUnderWay'
      BY <1>2, <1>8, <1>16, <2>2, WasmViewerAssumption DEF NoneUnderWay, Openers
    <2>4. ~viewOpen
      BY <1>3, <1>5 DEF WaitingHost, Alone, NoneUnderWay
    <2>5. OpenOk(1) => view = f
      BY <1>1, <1>3 DEF WaitingHost, Alone, OpenOk
    <2>6. \A i \in DOMAIN replies' : OpenOk(i)' => view = replies'[i].file
      BY <1>1, OpensTook DEF WaitingHost, Alone
    <2>7. queue["queued"] = <<>>
      BY <1>8, <1>9 DEF WaitingHost, Alone
    <2>8. viewOpen' => view' = activeName'
      BY <1>2, <1>4, <2>4, <2>5
    <2>9. saving \notin {"settling", "preparing"} /\ ~reading
      BY <2>4 DEF WaitingHost, Alone
    <2>10. Alone'
      BY <1>2, <2>2, <2>3, <2>6, <2>7, <2>8, <2>9 DEF WaitingHost, Alone
    <2>11. OwnEdits'
      BY <1>1, <1>2, OwnTook DEF WaitingHost
    <2> QED
      BY <2>10, <2>11
  <1> QED
    BY <1>11, <1>12, <1>13, <1>14, <1>15, <1>16, <1>17, <1>18, <1>19, <1>20, <1>21, <1>22,
      <1>23,
       <1>24

\* A file nobody has heard of is asked for.
LEMMA OpenBufferKeeps ==
    ASSUME IInv, NEW o \in Opener, NEW f \in File, OpenBuffer(f), initialized,
           running[o] = NoFile, running' = [running EXCEPT ![o] = f],
           f \in unsent \/ Queued(f), f \notin unsent', ~Queued(f)',
           unsent' \subseteq unsent, queue' \in [Opener -> Seq(File)], QueuedOnce',
           \A g \in File : Queued(g)' => Queued(g),
           UNCHANGED <<view, edits, saved, initialized, stored, refused, waits>>,
           waits => /\ \A p \in Opener : running[p] = NoFile /\ queue'[p] = <<>>
                    /\ saving \notin {"settling", "preparing"} /\ ~reading
    PROVE  IInv'
  <1> USE DEF IInv, Channel, Opening
  <1>1. /\ unchanged' = FALSE /\ viewOpen' = FALSE /\ dirty' = FALSE /\ loading' = TRUE
        /\ UNCHANGED <<activeName, generation, page, saveVars, resetting, reading, made, reads, replies>>
    BY DEF OpenBuffer
  <1>2. Posted("open", f)
    BY <1>1, Posting DEF OpenBuffer, Arg, MessageTypes
  <1>3. ~Asked(f) /\ ~Answered(f) /\ f # NoFile
    BY WasmViewerAssumption DEF OpenedOnce
  <1>4. \A g \in File :
          OneOpen(g)' /\ (Answered(g)' <=> Answered(g)) /\ (Asked(g)' <=> Asked(g) \/ g = f)
    BY <1>2, <1>3, OpenPosted DEF OpenedOnce
  <1>5. Types'
    <2>1. running' \in [Opener -> File \cup {NoFile}]
      BY DEF Types
    <2>2. unsent' \in SUBSET File
      BY DEF Types
    <2> QED
      BY <1>1, <1>2, <2>1, <2>2 DEF Types, Posted
  <1>6. Named' /\ Messages'
    BY <1>1, <1>2, MessagesPosted DEF Named
  <1>7. OneEach'
    BY <1>1, <1>2, OnePosted DEF OneEach
  <1>8. OpenedOnce'
    BY <1>3, <1>4 DEF OpenedOnce
  <1>9. Openers'
    <2>1. running'[o] = f /\ \A p \in Opener : p # o => running'[p] = running[p]
      BY DEF Types
    <2>2. \A p \in Opener : running[p] # NoFile => running[p] \in File /\ running[p] # f
      BY <1>3 DEF Types, Openers
    <2>3. \A p \in Opener : running'[p] # NoFile => Asked(running[p])' \/ Answered(running[p])'
      <3>1. ASSUME NEW p \in Opener, NEW g \in File, running'[p] = g
            PROVE  Asked(g)' \/ Answered(g)'
        BY <1>4, <2>1, <2>2, <3>1, WasmViewerAssumption DEF Openers
      <3>2. \A p \in Opener : running'[p] # NoFile => running'[p] \in File
        BY <2>1, <2>2
      <3> QED
        BY <3>1, <3>2 DEF Asked, Answered, Asks, Answers
    <2>4. \A p, q \in Opener : running'[p] = running'[q] /\ running'[p] # NoFile => p = q
      BY <2>1, <2>2 DEF Openers
    <2>5. ASSUME NEW g \in File, Asked(g)' \/ Answered(g)'
          PROVE  \E p \in Opener : running'[p] = g
      <3>1. CASE g = f
        BY <2>1, <3>1
      <3>2. CASE g # f
        BY <1>4, <2>1, <2>5, <3>2, WasmViewerAssumption DEF Openers
      <3> QED
        BY <3>1, <3>2
    <2> QED
      BY <2>3, <2>4, <2>5 DEF Openers
  <1>10. Untouched'
    <2>1. ASSUME NEW g \in File, Unopened(g)'
          PROVE  Unopened(g)
      BY <1>4, <2>1 DEF Unopened
    <2> QED
      BY <1>1, <2>1 DEF Untouched
  <1>11. ShownFile' /\ Pages' /\ OpenedClean'
    BY <1>1, RowsKept, OpenedCleanKept
  <1>12. SaveAsked' /\ SavedBytes'
    BY <1>1, <1>2, SaveAskedPosted, SavedBytesKept
  <1>13. UnsavedIsDirty' /\ Revision'
    BY <1>1, UnsavedKept DEF Revision
  <1>14. WaitingHost'
    <2> SUFFICES ASSUME waits
                 PROVE  Alone' /\ OwnEdits'
      BY DEF WaitingHost
    <2>1. queue'["chained"] = <<>> /\ queue'["queued"] = <<>> /\ Len(queue'["queued"]) <= 1
      OBVIOUS
    <2>2. \A p, q \in Opener : running'[p] # NoFile /\ running'[q] # NoFile => p = q
      BY DEF Types
    <2>3. \A i \in DOMAIN replies' : OpenOk(i)' => view = replies'[i].file
      BY <1>1 DEF WaitingHost, Alone, OpenOk
    <2>4. saving \notin {"settling", "preparing"} /\ ~reading
      OBVIOUS
    <2>5. Alone'
      BY <1>1, <2>1, <2>2, <2>3, <2>4 DEF Alone
    <2>6. OwnEdits'
      BY <1>1, <1>2, OwnPosted DEF WaitingHost
    <2> QED
      BY <2>5, <2>6
  <1> QED
    BY <1>5, <1>6, <1>7, <1>8, <1>9, <1>10, <1>11, <1>12, <1>13, <1>14

\* nextOpen of either opener sends the file at the head of its queue.
LEMMA NextOpenKeeps ==
    ASSUME IInv, NEW o \in Opener, NextOpen(o)
    PROVE  IInv'
  <1> USE DEF IInv, Channel, Opening
  <1> DEFINE f == Head(queue[o])
  <1>1. /\ queue \in [Opener -> Seq(File)] /\ queue[o] # <<>> /\ QueuedOnce
        /\ queue' = [queue EXCEPT ![o] = Tail(@)]
    BY DEF NextOpen, Types, OpenedOnce
  <1>2. /\ queue' \in [Opener -> Seq(File)] /\ QueuedOnce' /\ f \in File /\ Queued(f)
        /\ \A g \in File : Queued(g)' <=> Queued(g) /\ g # f
    BY <1>1, QueueTaken
  <1>3. /\ initialized /\ running[o] = NoFile /\ running' = [running EXCEPT ![o] = f]
        /\ OpenBuffer(f) /\ UNCHANGED <<view, edits, saved, initialized, hostVars>>
    BY DEF NextOpen
  <1>4. f \notin unsent
    BY <1>2 DEF OpenedOnce
  <1>5. ASSUME waits
        PROVE  /\ \A p \in Opener : running[p] = NoFile /\ queue'[p] = <<>>
               /\ saving \notin {"settling", "preparing"} /\ ~reading
    <2>1. o = "queued" /\ Len(queue[o]) <= 1 /\ queue["chained"] = <<>>
      BY <1>1, <1>5 DEF WaitingHost, Alone
    <2>2. running = [p \in Opener |-> NoFile] /\ ~viewOpen
      BY <1>1, <1>5, <2>1 DEF WaitingHost, Alone
    <2>3. queue[o] \in Seq(File)
      BY <1>1
    <2>4. Tail(queue[o]) \in Seq(File) /\ Len(Tail(queue[o])) = Len(queue[o]) - 1
          /\ Len(queue[o]) \in Nat /\ Len(Tail(queue[o])) \in Nat
      BY <1>1, <2>3, HeadTailProperties, LenProperties
    <2>5. Tail(queue[o]) = <<>>
      BY <2>1, <2>4, EmptySeq
    <2>6. \A p \in Opener : queue'[p] = <<>>
      BY <1>1, <2>1, <2>5
    <2> QED
      BY <1>5, <2>2, <2>6 DEF WaitingHost, Alone
  <1> HIDE DEF f
  <1> QED
    BY <1>2, <1>3, <1>4, <1>5, OpenBufferKeeps

\* host-bridge.js receives a file from the host.
LEMMA HostOpensKeeps ==
    ASSUME IInv, NEW f \in File, HostOpens(f)
    PROVE  IInv'
  <1> USE DEF IInv, Channel, Opening
  <1>1. /\ f \in unsent /\ (waits => AtRest) /\ unsent' = unsent \ {f}
        /\ UNCHANGED <<view, edits, saved, initialized, stored, refused, waits>>
    BY DEF HostOpens
  <1>2. ~Queued(f) /\ ~Asked(f) /\ ~Answered(f)
    BY <1>1 DEF OpenedOnce
  <1>3. queue \in [Opener -> Seq(File)] /\ QueuedOnce
    BY DEF Types, OpenedOnce
  <1>4. CASE initialized /\ running["chained"] = NoFile
    <2>1. running' = [running EXCEPT !["chained"] = f] /\ OpenBuffer(f) /\ UNCHANGED queue
      BY <1>4 DEF HostOpens
    <2>2. (\A g \in File : Queued(g)' <=> Queued(g)) /\ QueuedOnce'
      BY <1>3, <2>1, QueueKept
    <2>3. waits => /\ \A p \in Opener : running[p] = NoFile /\ queue'[p] = <<>>
                   /\ saving \notin {"settling", "preparing"} /\ ~reading
      BY <1>1, <2>1 DEF AtRest
    <2> QED
      BY <1>1, <1>2, <1>3, <1>4, <2>1, <2>2, <2>3, OpenBufferKeeps
  <1>5. CASE ~(initialized /\ running["chained"] = NoFile)
    <2> DEFINE o == IF initialized THEN "chained" ELSE "queued"
    <2>1. /\ queue' = [queue EXCEPT ![o] = Append(@, f)]
          /\ UNCHANGED <<running, shellVars, requests, replies>>
      BY <1>5 DEF HostOpens
    <2>2. o \in Opener
      OBVIOUS
    <2> HIDE DEF o
    <2>3. /\ queue' \in [Opener -> Seq(File)] /\ QueuedOnce'
          /\ \A g \in File : Queued(g)' <=> Queued(g) \/ g = f
      BY <1>2, <1>3, <2>1, <2>2, QueueGrown
    <2>4. OpensAsBefore
      BY <2>1, OpensIdle
    <2>5. Types'
      BY <1>1, <2>1, <2>3 DEF Types
    <2>6. Named' /\ Messages' /\ OneEach'
      BY <1>1, <2>1 DEF Named, Messages, OneEach, OneFor, UnderWay, InRequests, InReplies
    <2>7. OpenedOnce'
      BY <1>1, <1>2, <2>3, <2>4 DEF OpenedOnce, OpensAsBefore
    <2>8. Openers'
      BY <1>1, <2>1 DEF Openers, Asked, Answered, Asks, Answers
    <2>9. Untouched'
      BY <1>1, <2>1, <2>3, <2>4 DEF Untouched, Unopened, OpensAsBefore
    <2>10. ShownFile' /\ Pages' /\ OpenedClean' /\ SaveAsked' /\ SavedBytes'
      BY <1>1, <2>1, RowsKept, OpenedCleanKept, SaveAskedKept, SavedBytesKept
    <2>11. UnsavedIsDirty' /\ Revision'
      BY <1>1, <2>1, UnsavedKept, RevisionKept
    <2>12. WaitingHost'
      <3> SUFFICES ASSUME waits
                   PROVE  Alone' /\ OwnEdits'
        BY <1>1 DEF WaitingHost
      <3>1. /\ running = [p \in Opener |-> NoFile] /\ queue = [p \in Opener |-> <<>>]
            /\ saving \notin {"settling", "preparing"} /\ ~reading
        BY <1>1 DEF AtRest
      <3>2. ~initialized /\ o = "queued"
        BY <1>5, <3>1 DEF o
      <3>3. queue'["chained"] = <<>> /\ queue'["queued"] = Append(<<>>, f)
        BY <2>1, <3>1, <3>2
      <3>4. Len(queue'["queued"]) <= 1
        BY <3>3
      <3>5. ~viewOpen
        BY <3>2 DEF Openers
      <3>6. Alone'
        BY <1>1, <2>1, <3>1, <3>3, <3>4, <3>5 DEF WaitingHost, Alone, OpenOk
      <3>7. OwnEdits'
        BY <1>1, <2>1 DEF WaitingHost, OwnEdits, OfFile, SaveAnswered
      <3> QED
        BY <3>6, <3>7
    <2> QED
      BY <2>5, <2>6, <2>7, <2>8, <2>9, <2>10, <2>11, <2>12
  <1> QED
    BY <1>4, <1>5

\* markReady moves what the host sent before the page was ready.
LEMMA MarkReadyKeeps ==
    ASSUME IInv, MarkReady
    PROVE  IInv'
  <1> USE DEF IInv, Channel, Opening
  <1>1. initialized' = TRUE /\ UNCHANGED <<workerVars, shellVars, queue, running, hostVars>>
    BY DEF MarkReady
  <1>2. Types' /\ Named' /\ Messages' /\ OneEach'
    BY <1>1 DEF Types, Named, Messages, OneEach, OneFor, UnderWay, InRequests, InReplies
  <1>3. OpensAsBefore /\ (\A g \in File : Queued(g)' <=> Queued(g)) /\ (QueuedOnce <=> QueuedOnce')
    BY <1>1, OpensIdle, QueueKept
  <1>4. OpenedOnce'
    BY <1>1, <1>3 DEF OpenedOnce, OpensAsBefore
  <1>5. Openers'
    BY <1>1 DEF Openers, Asked, Answered, Asks, Answers
  <1>6. Untouched'
    BY <1>1, <1>3 DEF Untouched, Unopened, OpensAsBefore
  <1>7. ShownFile' /\ Pages' /\ OpenedClean' /\ SaveAsked' /\ SavedBytes'
    BY <1>1, RowsKept, OpenedCleanKept, SaveAskedKept, SavedBytesKept
  <1>8. UnsavedIsDirty' /\ Revision'
    BY <1>1, UnsavedKept, RevisionKept
  <1>9. WaitingHost'
    BY <1>1 DEF WaitingHost, Alone, OwnEdits, OfFile, SaveAnswered, OpenOk, NoneUnderWay,
      Asked, Answered, Asks, Answers
  <1> QED
    BY <1>2, <1>4, <1>5, <1>6, <1>7, <1>8, <1>9

\* A save ends.
LEMMA EndKeeps ==
    ASSUME IInv, SaveDone \/ SaveRefused, Apart
    PROVE  IInv'
  <1> USE DEF IInv, Channel
  <1>1. /\ saving \in {"stored", "refused"} /\ saving' = "no" /\ loading' = FALSE
        /\ savedName' = NoFile /\ savedBytes' = NoBytes
        /\ dirty' = dirty \/ (saving = "stored" /\ dirty' = (dirty /\ ~unchanged))
        /\ UNCHANGED <<openVars, unchanged, resetting, reading, made, reads, requests, replies>>
    BY DEF SaveDone, SaveRefused, EndSave
  <1>2. ~InRequests("save") /\ ~InReplies("save")
    BY <1>1 DEF OneEach, UnderWay
  <1>3. \A i \in DOMAIN replies : ~SaveAnswered(i)
    BY <1>2 DEF InReplies, SaveAnswered
  <1>4. Types'
    <2>1. savedBytes' \in Content /\ saving' \in {"no"}
      BY <1>1 DEF Content, NoBytes
    <2>2. dirty \in BOOLEAN /\ dirty' \in BOOLEAN /\ loading' \in BOOLEAN
      BY <1>1 DEF Types
    <2> QED
      BY <1>1, <2>1, <2>2 DEF Types
  <1>5. Named' /\ Messages'
    BY <1>1 DEF Named, Messages, Awaiting
  <1>6. OneEach'
    BY <1>1 DEF OneEach, OneFor, UnderWay, InRequests, InReplies
  <1>7. Opening'
    BY <1>1, OpensIdle, OpeningKept, WasmViewerAssumption DEF Opening
  <1>8. ShownFile' /\ Pages' /\ OpenedClean' /\ SaveAsked'
    BY <1>1, <1>2, RowsKept, OpenedCleanKept, SaveAskedKept
  <1>9. SavedBytes'
    BY <1>1, <1>3 DEF SavedBytes, SaveAnswered
  <1>10. UnsavedIsDirty'
    <2>1. CASE saving = "stored" /\ unchanged
      <3>1. edits = saved
        BY <2>1 DEF Revision, Awaiting
      <3> QED
        BY <1>1, <3>1 DEF UnsavedIsDirty
    <2>2. CASE ~(saving = "stored" /\ unchanged)
      <3>1. dirty => dirty'
        BY <1>1, <2>2
      <3> QED
        BY <1>1, <3>1, UnsavedKept
    <2> QED
      BY <2>1, <2>2
  <1>11. Revision'
    BY <1>1 DEF Revision, Awaiting
  <1>12. WaitingHost'
    BY <1>1, <1>3 DEF WaitingHost, Alone, OwnEdits, OfFile, SaveAnswered, OpenOk, NoneUnderWay,
      Asked, Answered, Asks, Answers
  <1> QED
    BY <1>4, <1>5, <1>6, <1>7, <1>8, <1>9, <1>10, <1>11, <1>12

\* The host writes the bytes, or cannot.
LEMMA HostKeeps ==
    ASSUME IInv, HostStores \/ HostRefuses
    PROVE  IInv'
  <1> USE DEF IInv, Channel
  <1>1. /\ saving = "persisting" /\ saving' \in {"stored", "refused"}
        /\ UNCHANGED <<waits, workerVars, openVars, savedName, savedBytes, dirty, loading, unchanged,
                       resetting, reading, made, reads, bridgeVars, unsent>>
        /\ \/ /\ saving' = "stored" /\ stored' = [stored EXCEPT ![savedName] = savedBytes]
              /\ refused' = refused \ {savedName}
           \/ /\ saving' = "refused" /\ UNCHANGED stored /\ refused' = refused \cup {savedName}
    BY DEF HostStores, HostRefuses
  <1>2. savedName \in File
    BY <1>1 DEF Named, Types, Awaiting
  <1>3. \A i \in DOMAIN replies : ~SaveAnswered(i)
    BY <1>1 DEF OneEach, UnderWay, InReplies, SaveAnswered
  <1>4. Types'
    <2>1. stored' \in [File -> Content] /\ refused' \in SUBSET File
      BY <1>1, <1>2 DEF Types
    <2> QED
      BY <1>1, <2>1 DEF Types, Awaiting
  <1>5. Named' /\ Messages'
    BY <1>1 DEF Named, Messages, Awaiting
  <1>6. OneEach'
    BY <1>1 DEF OneEach, OneFor, UnderWay, InRequests, InReplies
  <1>7. OpensAsBefore /\ (\A g \in File : Queued(g)' <=> Queued(g)) /\ (QueuedOnce <=> QueuedOnce')
    BY <1>1, OpensIdle, QueueKept DEF Opening
  <1>8. OpenedOnce' /\ Openers'
    <2>1. OpenedOnce'
      BY <1>1, <1>7 DEF Opening, OpenedOnce, OpensAsBefore
    <2>2. Openers'
      BY <1>1 DEF Opening, Openers, Asked, Answered, Asks, Answers
    <2> QED
      BY <2>1, <2>2
  <1>9. Untouched'
    <2>1. ASSUME NEW g \in File, Unopened(g)'
          PROVE  Unopened(g)
      BY <1>1, <1>7, <2>1 DEF Unopened, OpensAsBefore
    <2>2. ASSUME NEW g \in File, g # savedName
          PROVE  stored'[g] = stored[g] /\ (g \in refused' <=> g \in refused)
      BY <1>1, <2>2 DEF Types
    <2> QED
      BY <1>1, <2>1, <2>2 DEF Opening, Untouched
  <1>10. ShownFile' /\ Pages' /\ OpenedClean' /\ SaveAsked'
    BY <1>1, RowsKept, OpenedCleanKept, SaveAskedKept
  <1>11. SavedBytes'
    <2>1. \A i \in DOMAIN replies' : ~SaveAnswered(i)'
      BY <1>1, <1>3 DEF SaveAnswered
    <2>2. view = savedName => savedBytes = [file |-> view, edits |-> saved]
      BY <1>1 DEF SavedBytes
    <2>3. view # NoFile /\ view \notin refused /\ savedName # view
            => stored[view] = [file |-> view, edits |-> saved]
      BY DEF SavedBytes
    <2>4. view \in File \cup {NoFile} /\ stored \in [File -> Content]
      BY DEF Types
    <2>5. view # NoFile /\ view \notin refused' => stored'[view] = [file |-> view, edits |-> saved]
      <3>1. CASE saving' = "stored" /\ view = savedName
        BY <1>1, <2>2, <2>4, <3>1
      <3>2. CASE saving' = "stored" /\ view # savedName
        BY <1>1, <2>3, <2>4, <3>2
      <3>3. CASE saving' = "refused"
        BY <1>1, <2>3, <3>3
      <3> QED
        BY <1>1, <3>1, <3>2, <3>3
    <2>6. saving' = "stored" => savedName \notin refused'
      BY <1>1
    <2> QED
      BY <1>1, <2>1, <2>5, <2>6 DEF SavedBytes
  <1>12. UnsavedIsDirty'
    BY <1>1, UnsavedKept
  <1>13. Revision'
    <2>1. saving \in Awaiting
      BY <1>1 DEF Awaiting
    <2> QED
      BY <1>1, <1>3, <2>1 DEF Revision, Pending, MutationTypes, InRequests, SaveAnswered, OpenOk
  <1>14. WaitingHost'
    <2> SUFFICES ASSUME waits
                 PROVE  Alone' /\ OwnEdits'
      BY <1>1 DEF WaitingHost
    <2>1. Alone'
      BY <1>1 DEF WaitingHost, Alone, OpenOk, NoneUnderWay, Asked, Answered, Asks, Answers
    <2>2. savedBytes.file = savedName /\ OfFile(savedBytes.edits, savedName)
      BY <1>1 DEF WaitingHost, OwnEdits
    <2>3. \A f \in File : stored[f].file = f /\ OfFile(stored[f].edits, f)
      BY DEF WaitingHost, OwnEdits
    <2>4. \A f \in File : stored'[f].file = f /\ OfFile(stored'[f].edits, f)
      BY <1>1, <2>2, <2>3 DEF Types
    <2> QED
      BY <1>1, <1>3, <2>1, <2>4 DEF WaitingHost, OwnEdits, OfFile, SaveAnswered
  <1> QED
    BY <1>4, <1>5, <1>6, <1>8, <1>9, <1>10, <1>11, <1>12, <1>13, <1>14 DEF Opening

----------------------------------------------------------------------------
(* The invariant.                                                          *)

\* The page before its first file.
LEMMA IInvInit ==
    ASSUME Init
    PROVE  IInv
  <1> USE DEF Init, WorkerInit, ShellInit
  <1>1. requests = <<>> /\ replies = <<>> /\ DOMAIN requests = {} /\ DOMAIN replies = {}
    OBVIOUS
  <1>2. Types
    <2>1. requests \in Seq(Request) /\ replies \in Seq(Reply)
      BY <1>1
    <2>2. savedBytes \in Content
      BY DEF Content, NoBytes
    <2>3. /\ queue \in [Opener -> Seq(File)] /\ running \in [Opener -> File \cup {NoFile}]
          /\ stored \in [File -> Content]
      BY DEF Content
    <2>4. made \in 0 .. MaxEdits /\ reads \in 0 .. MaxReads /\ generation \in Nat
      BY WasmViewerAssumption
    <2> QED
      BY <2>1, <2>2, <2>3, <2>4 DEF Types
  <1>3. \A o \in Opener : queue[o] = <<>> /\ DOMAIN queue[o] = {}
    OBVIOUS
  <1>4. Named /\ Messages /\ OneEach
    BY <1>1 DEF Named, Messages, OneEach, OneFor, UnderWay, InRequests, InReplies, Awaiting
  <1>5. Opening
    <2>1. \A f \in File : ~Queued(f) /\ ~Asked(f) /\ ~Answered(f)
      BY <1>1, <1>3 DEF Queued, Asked, Answered
    <2>2. OpenedOnce
      BY <1>1, <1>3, <2>1 DEF OpenedOnce, OneOpen, QueuedOnce
    <2>3. Openers
      BY <2>1 DEF Openers
    <2>4. Untouched
      BY WasmViewerAssumption DEF Untouched
    <2> QED
      BY <2>2, <2>3, <2>4 DEF Opening
  <1>6. ShownFile /\ Pages /\ OpenedClean /\ SaveAsked
    BY <1>1 DEF ShownFile, Pages, OpenedClean, SaveAsked
  <1>7. SavedBytes /\ UnsavedIsDirty /\ Revision
    BY <1>1 DEF SavedBytes, UnsavedIsDirty, Revision, Awaiting
  <1>8. WaitingHost
    <2>1. Alone
      BY <1>1, <1>3 DEF Alone, NoneUnderWay
    <2>2. OwnEdits
      BY <1>1 DEF OwnEdits, OfFile
    <2> QED
      BY <2>1, <2>2 DEF WaitingHost
  <1> QED
    BY <1>2, <1>4, <1>5, <1>6, <1>7, <1>8 DEF IInv, Channel

\* A step of nothing.
LEMMA IInvStutters ==
    ASSUME IInv, UNCHANGED vars
    PROVE  IInv'
  <1> USE DEF IInv, Channel, vars
  <1>1. Types' /\ Named' /\ Messages' /\ OneEach'
    BY DEF Types, Named, Messages, OneEach, OneFor, UnderWay, InRequests, InReplies
  <1>2. Opening'
    BY OpensIdle, OpeningKept, WasmViewerAssumption DEF Opening
  <1>3. ShownFile' /\ Pages' /\ OpenedClean' /\ SaveAsked' /\ SavedBytes'
    BY RowsKept, OpenedCleanKept, SaveAskedKept, SavedBytesKept
  <1>4. UnsavedIsDirty' /\ Revision'
    BY UnsavedKept, RevisionKept
  <1>5. WaitingHost'
    BY DEF WaitingHost, Alone, OwnEdits, OfFile, SaveAnswered, OpenOk, NoneUnderWay, Asked,
      Answered, Asks, Answers
  <1> QED
    BY <1>1, <1>2, <1>3, <1>4, <1>5

\* Every step keeps every part.
LEMMA IInvStep ==
    ASSUME IInv, Next
    PROVE  IInv'
  <1>1. CASE WorkerStep
    BY <1>1, OpenKeeps, ReadOrEditKeeps, SaveKeeps DEF WorkerStep, WorkerNext, Others
  <1>2. CASE (Edit \/ StartReset \/ SaveButton) /\ Apart
    <2>1. CASE DispatchEdit
      BY <1>2, <2>1, EditKeeps DEF SaveButton
    <2>2. CASE ~DispatchEdit /\ StartReset
      BY <1>2, <2>2, ShellKeeps DEF StartReset, StopEditing, IInv, Channel, Types
    <2>3. CASE ~DispatchEdit /\ SaveButton
      BY <1>2, <2>3, ShellKeeps DEF SaveButton, StartSave, StopEditing, IInv, Channel, Types
    <2> QED
      BY <1>2, <2>1, <2>2, <2>3 DEF Edit
  <1>3. CASE (AskRows \/ AskDialect \/ AskReset) /\ Apart
    <2>1. CASE AskReset /\ ~viewOpen
      BY <1>3, <2>1, ShellKeeps DEF AskReset
    <2> QED
      BY <1>3, <2>1, AskKeeps
  <1>4. CASE TakeReply /\ Apart
    BY <1>4, TakeKeeps, PreparedKeeps DEF TakeReply
  <1>5. CASE (Prepare \/ SaveDone \/ SaveRefused) /\ Apart
    BY <1>5, PrepareKeeps, EndKeeps
  <1>6. CASE HostAsksSave
    <2>1. CASE DispatchEdit
      BY <1>6, <2>1, EditKeeps DEF HostAsksSave
    <2>2. CASE ~DispatchEdit
      BY <1>6, <2>2, ShellKeeps DEF HostAsksSave, StartSave, StopEditing, IInv, Channel, Types
    <2> QED
      BY <2>1, <2>2
  <1>7. CASE OpenEnds \/ MarkReady \/ (\E o \in Opener : NextOpen(o)) \/ (\E f \in File : HostOpens(f))
    BY <1>7, OpenEndsKeeps, MarkReadyKeeps, NextOpenKeeps, HostOpensKeeps
  <1>8. CASE HostStores \/ HostRefuses
    BY <1>8, HostKeeps
  <1> QED
    BY <1>1, <1>2, <1>3, <1>4, <1>5, <1>6, <1>7, <1>8 DEF Next, ShellNext, UserAction

\* In every reachable state of worker, shell, bridge and host, the worker is ahead of the
\* shell by exactly what is in the channel.
THEOREM ViewerInvariant == Spec => []IInv
  <1>1. Init => IInv
    BY IInvInit
  <1>2. IInv /\ [Next]_vars => IInv'
    BY IInvStep, IInvStutters
  <1> QED
    BY <1>1, <1>2, PTL DEF Spec

----------------------------------------------------------------------------
(* What is under way, counted.                                             *)

\* Two sets with a one-to-one map onto each other have as many elements.
LEMMA CountedBy ==
    ASSUME NEW S, IsFiniteSet(S), NEW T, NEW h \in [S -> T],
           \A x, y \in S : h[x] = h[y] => x = y, \A t \in T : \E x \in S : h[x] = t
    PROVE  IsFiniteSet(T) /\ Cardinality(T) = Cardinality(S)
  <1>1. h \in Bijection(S, T)
    BY Fun_IsBij
  <1> QED
    BY <1>1, FS_Bijection DEF ExistsBijection

\* A set of at most one element.
LEMMA AtMostOne ==
    ASSUME NEW S, \A x, y \in S : x = y
    PROVE  IsFiniteSet(S) /\ Cardinality(S) = IF S = {} THEN 0 ELSE 1
  <1>1. CASE S = {}
    BY <1>1, FS_EmptySet
  <1>2. CASE S # {}
    <2>1. PICK x : S = {x}
      BY <1>2
    <2> QED
      BY <1>2, <2>1, FS_Singleton
  <1> QED
    BY <1>1, <1>2

\* A promise of one type that is waited for is one message of the channel.
LEMMA OneInFlight ==
    ASSUME NEW type, OneFor(type)
    PROVE  InFlight(type) = IF UnderWay(type) THEN 1 ELSE 0
  <1> DEFINE S == {i \in DOMAIN requests : requests[i].type = type}
             T == {i \in DOMAIN replies : replies[i].type = type}
  <1>1. /\ \A x, y \in S : x = y
        /\ \A x, y \in T : x = y
    BY DEF OneFor
  <1>2. InFlight(type) = Cardinality(S) + Cardinality(T)
    BY DEF InFlight
  <1>3. /\ S = {} <=> ~InRequests(type)
        /\ T = {} <=> ~InReplies(type)
    BY DEF InRequests, InReplies
  <1>4. ~(InRequests(type) /\ InReplies(type))
    BY DEF OneFor
  <1> HIDE DEF S, T
  <1>5. /\ Cardinality(S) = IF S = {} THEN 0 ELSE 1
        /\ Cardinality(T) = IF T = {} THEN 0 ELSE 1
    BY <1>1, AtMostOne
  <1> QED
    BY <1>2, <1>3, <1>4, <1>5 DEF UnderWay

\* An open under way for each opener that runs, and the other way round.
LEMMA OpensInFlight ==
    ASSUME IInv
    PROVE  InFlight("open") = Cardinality({o \in Opener : running[o] # NoFile})
  <1> USE DEF IInv, Channel, Opening
  <1> DEFINE R == {i \in DOMAIN requests : requests[i].type = "open"}
             P == {i \in DOMAIN replies : replies[i].type = "open"}
             RO == {o \in Opener : running[o] # NoFile /\ Asked(running[o])}
             PO == {o \in Opener : running[o] # NoFile /\ Answered(running[o])}
             r == [i \in R |-> CHOOSE o \in Opener : running[o] = requests[i].arg]
             p == [i \in P |-> CHOOSE o \in Opener : running[o] = replies[i].arg]
  <1>1. \A o \in Opener : running[o] \in File \cup {NoFile}
    BY DEF Types
  <1>2. \A f \in File : OneOpen(f) /\ f # NoFile
    BY WasmViewerAssumption DEF OpenedOnce
  <1>3. IsFiniteSet(R) /\ IsFiniteSet(P)
    <2>1. requests \in Seq(Request) /\ replies \in Seq(Reply)
      BY DEF Types
    <2>2. /\ Len(requests) \in Nat /\ DOMAIN requests = 1 .. Len(requests)
          /\ Len(replies) \in Nat /\ DOMAIN replies = 1 .. Len(replies)
      BY <2>1, LenProperties
    <2>3. IsFiniteSet(DOMAIN requests) /\ IsFiniteSet(DOMAIN replies)
      BY <2>2, FS_Interval
    <2>4. R \in SUBSET DOMAIN requests /\ P \in SUBSET DOMAIN replies
      OBVIOUS
    <2> HIDE DEF R, P
    <2> QED
      BY <2>3, <2>4, FS_Subset
  <1>4. ASSUME NEW i \in R
        PROVE  /\ requests[i].arg \in File /\ Asks(i, requests[i].arg)
               /\ \E o \in Opener : running[o] = requests[i].arg
    BY DEF Messages, Asked, Asks, Openers
  <1>5. ASSUME NEW i \in P
        PROVE  /\ replies[i].arg \in File /\ Answers(i, replies[i].arg)
               /\ \E o \in Opener : running[o] = replies[i].arg
    BY DEF Messages, Answered, Answers, Openers
  <1>6. ASSUME NEW i \in R
        PROVE  r[i] \in RO /\ running[r[i]] = requests[i].arg
    <2>1. r[i] \in Opener /\ running[r[i]] = requests[i].arg
      BY <1>4
    <2>2. Asked(requests[i].arg) /\ requests[i].arg # NoFile
      BY <1>2, <1>4 DEF Asked
    <2> QED
      BY <2>1, <2>2 DEF Asked, Asks
  <1>7. ASSUME NEW i \in P
        PROVE  p[i] \in PO /\ running[p[i]] = replies[i].arg
    <2>1. p[i] \in Opener /\ running[p[i]] = replies[i].arg
      BY <1>5
    <2>2. Answered(replies[i].arg) /\ replies[i].arg # NoFile
      BY <1>2, <1>5 DEF Answered
    <2> QED
      BY <2>1, <2>2 DEF Answered, Answers
  <1>8. Cardinality(RO) = Cardinality(R) /\ IsFiniteSet(RO)
    <2>1. r \in [R -> RO]
      BY <1>6
    <2>2. \A i, j \in R : r[i] = r[j] => i = j
      BY <1>2, <1>4, <1>6 DEF OneOpen, Asks
    <2>3. ASSUME NEW o \in RO
          PROVE  \E i \in R : r[i] = o
      <3>1. PICK i \in DOMAIN requests : Asks(i, running[o])
        BY DEF Asked
      <3>2. i \in R /\ requests[i].arg = running[o]
        BY <3>1 DEF Asks
      <3> QED
        BY <1>6, <3>2 DEF Openers
    <2> HIDE DEF R, RO, r
    <2> QED
      BY <1>3, <2>1, <2>2, <2>3, CountedBy
  <1>9. Cardinality(PO) = Cardinality(P) /\ IsFiniteSet(PO)
    <2>1. p \in [P -> PO]
      BY <1>7
    <2>2. \A i, j \in P : p[i] = p[j] => i = j
      BY <1>2, <1>5, <1>7 DEF OneOpen, Answers
    <2>3. ASSUME NEW o \in PO
          PROVE  \E i \in P : p[i] = o
      <3>1. PICK i \in DOMAIN replies : Answers(i, running[o])
        BY DEF Answered
      <3>2. i \in P /\ replies[i].arg = running[o]
        BY <3>1 DEF Answers
      <3> QED
        BY <1>7, <3>2 DEF Openers
    <2> HIDE DEF P, PO, p
    <2> QED
      BY <1>3, <2>1, <2>2, <2>3, CountedBy
  <1>10. RO \cap PO = {}
    BY <1>1, <1>2 DEF OneOpen
  <1> DEFINE O == {o \in Opener : running[o] # NoFile}
  <1>11. O = RO \cup PO
    BY DEF Openers
  <1>12. InFlight("open") = Cardinality(R) + Cardinality(P)
    BY DEF InFlight
  <1> HIDE DEF R, P, RO, PO, O
  <1>13. Cardinality(RO \cup PO) = Cardinality(RO) + Cardinality(PO) - Cardinality(RO \cap PO)
    BY <1>8, <1>9, FS_Union
  <1>14. Cardinality(RO) \in Nat /\ Cardinality(PO) \in Nat
    BY <1>8, <1>9, FS_CardinalityType
  <1>15. Cardinality(RO \cap PO) = 0
    BY <1>10, FS_EmptySet, Zenon
  <1>16. Cardinality(RO \cup PO) = Cardinality(RO) + Cardinality(PO)
    BY <1>13, <1>14, <1>15
  <1>17. Cardinality(O) = Cardinality(RO) + Cardinality(PO)
    BY <1>11, <1>16, Zenon
  <1>18. InFlight("open") = Cardinality(O)
    BY <1>8, <1>9, <1>12, <1>17, Zenon
  <1> QED
    BY <1>18 DEF O

----------------------------------------------------------------------------
(* The theorems.                                                           *)

\* Types, and one request under way for each promise that is waited for: the worker of
\* csv-worker.js loses no request and answers none twice, and no two saves overlap.
THEOREM ViewerTypesCorrect == Spec => []ViewerTypeOK
  <1>1. IInv => ViewerTypeOK
    <2> SUFFICES ASSUME IInv
                 PROVE  ViewerTypeOK
      OBVIOUS
    <2>1. /\ InFlight("save") = IF saving = "preparing" THEN 1 ELSE 0
          /\ InFlight("reset") = IF resetting = "asked" THEN 1 ELSE 0
          /\ InFlight("readCsvOptions") = IF reading THEN 1 ELSE 0
      BY OneInFlight DEF IInv, Channel, OneEach
    <2>2. InFlight("open") = Cardinality({o \in Opener : running[o] # NoFile})
      BY OpensInFlight
    <2>3. savedName # NoFile <=> saving \in {"preparing", "persisting", "stored", "refused"}
      BY DEF IInv, Channel, Named, Awaiting
    <2>4. /\ view \in File \cup {NoFile} /\ activeName \in File \cup {NoFile}
          /\ edits \cup saved \subseteq File \X (1 .. MaxEdits)
          /\ {viewOpen, dirty, loading, unchanged, reading, initialized} \subseteq BOOLEAN
          /\ generation \in Nat /\ made \in 0 .. MaxEdits /\ reads \in 0 .. MaxReads
          /\ saving \in {"no", "settling", "preparing", "persisting", "stored", "refused"}
          /\ resetting \in {"no", "settling", "asked"}
      BY DEF IInv, Channel, Types, Awaiting, EditSet
    <2> QED
      BY <2>1, <2>2, <2>3, <2>4 DEF ViewerTypeOK
  <1> QED
    BY <1>1, ViewerInvariant, PTL

\* However opens, dialect reads and pages overlap in shell.mjs and host-bridge.js, the grid
\* shows rows of the file whose name it shows; and with a host that opens no file during
\* a save or another open, every edit and every byte is in the file it was made for.
THEOREM NothingOfAnotherFileEver == Spec => []NothingOfAnotherFile
  <1>1. IInv => NothingOfAnotherFile
    <2>1. IInv => RowsOfTheShownFile
      BY DEF IInv, Pages, RowsOfTheShownFile
    <2>2. IInv => EverythingInItsFile
      BY DEF IInv, WaitingHost, OwnEdits, OfFile, EverythingInItsFile
    <2> QED
      BY <2>1, <2>2 DEF NothingOfAnotherFile
  <1> QED
    BY <1>1, ViewerInvariant, PTL

\* A view that save.mjs and shell.mjs call clean, with nothing under way, shows what the
\* host has stored, unless the host has refused a write of that file.
THEOREM CleanIsStored == Spec => []CleanMeansStored
  <1>1. IInv => CleanMeansStored
    <2> SUFFICES ASSUME IInv, viewOpen, ~dirty, ~Pending, saving = "no", view = activeName,
                        activeName \notin refused
                 PROVE  stored[activeName] = [file |-> activeName, edits |-> edits]
      BY DEF CleanMeansStored
    <2>1. savedName = NoFile /\ activeName # NoFile
      BY DEF IInv, Channel, Named, Awaiting
    <2>2. stored[view] = [file |-> view, edits |-> saved]
      BY <2>1 DEF IInv, SavedBytes
    <2>3. \A i \in DOMAIN replies : ~EditAnswered(i)
      BY DEF Pending, MutationTypes, EditAnswered
    <2>4. edits = saved
      BY <2>3 DEF IInv, UnsavedIsDirty
    <2> QED
      BY <2>2, <2>4
  <1> QED
    BY <1>1, ViewerInvariant, PTL

\* A save is only ever ended by saveCurrentChanges itself.
LEMMA EndedByItself ==
    ASSUME IInv, Next, saving = "stored", saving' = "no"
    PROVE  SaveDone
  <1>1. ~UnderWay("save")
    BY DEF IInv, Channel, OneEach
  <1>2. ~Prepared /\ ~PrepareFailed
    <2> SUFFICES ASSUME NEW ok, Receive("save", ok)
                 PROVE  FALSE
      BY DEF Prepared, PrepareFailed
    <2>1. replies \in Seq(Reply) /\ replies # <<>> /\ Head(replies).type = "save"
      BY DEF Receive, IInv, Channel, Types
    <2>2. Shifted(replies, Tail(replies))
      BY <2>1, TailShifts
    <2> QED
      BY <1>1, <2>1, <2>2 DEF Shifted, UnderWay, InReplies
  <1>3. CASE WorkerStep
    BY <1>3 DEF WorkerStep
  <1>4. CASE UserAction
    BY <1>4 DEF UserAction, Edit, AskRows, AskDialect, StartReset, SaveButton, StartSave
  <1>5. CASE TakeReply
    BY <1>2, <1>5 DEF TakeReply, Edited, EditRefused, TakeRows, TakeDialect, ResetDone
  <1>6. CASE AskReset \/ Prepare \/ SaveRefused
    BY <1>6 DEF AskReset, Prepare, SaveRefused
  <1>7. CASE OpenEnds \/ MarkReady \/ \E o \in Opener : NextOpen(o)
    BY <1>7 DEF OpenEnds, Opened, OpenFailed, MarkReady, NextOpen, OpenBuffer
  <1>8. CASE \E f \in File : HostOpens(f)
    BY <1>8 DEF HostOpens, OpenBuffer
  <1>9. CASE HostAsksSave \/ HostStores \/ HostRefuses
    BY <1>9 DEF HostAsksSave, StartSave, HostStores, HostRefuses
  <1> QED
    BY <1>3, <1>4, <1>5, <1>6, <1>7, <1>8, <1>9 DEF Next, ShellNext

\* When saveCurrentChanges of save.mjs makes the view clean, nothing is under way and the
\* host has all there is: the revision it compares stands for both.
THEOREM SaveClearsOnlyItsRevision == Spec => SaveClearsItsRevision
  <1>1. IInv /\ [Next]_vars => ClearedByItsSave
    <2> SUFFICES ASSUME IInv, [Next]_vars, saving = "stored", saving' = "no", dirty, ~dirty'
                 PROVE  ~Pending /\ stored[activeName] = [file |-> activeName, edits |-> edits]
      BY DEF ClearedByItsSave
    <2>1. SaveDone
      <3>1. Next
        BY DEF vars
      <3> QED
        BY <3>1, EndedByItself
    <2>2. unchanged
      BY <2>1 DEF SaveDone
    <2>3. ~Pending /\ edits = saved /\ savedName = activeName /\ view = activeName
      BY <2>2 DEF IInv, Revision, Awaiting
    <2>4. view # NoFile /\ savedName \notin refused
      BY <2>3, WasmViewerAssumption DEF IInv, Channel, Named, SavedBytes, Awaiting
    <2>5. \A i \in DOMAIN replies : ~SaveAnswered(i)
      BY DEF IInv, Channel, OneEach, UnderWay, InReplies, SaveAnswered
    <2>6. stored[view] = [file |-> view, edits |-> saved]
      BY <2>3, <2>4, <2>5 DEF IInv, SavedBytes
    <2> QED
      BY <2>3, <2>6
  <1> QED
    BY <1>1, ViewerInvariant, PTL DEF Spec, SaveClearsItsRevision

====
