----------------------------- MODULE Playground -----------------------------
(***************************************************************************)
(* The playground of the default web front end                             *)
(* (web/default/src/features/playground): the conversation, the streamed   *)
(* or plain chat request behind its last message, the timer that flushes   *)
(* received chunks, and the debounced copy in localStorage.                *)
(*                                                                         *)
(* JavaScript runs one event handler at a time; each action is one event:  *)
(* a click, a timer, an SSE event, the settling of a fetch.  A render      *)
(* follows every event, so handlers see the current messages.  SSE is the  *)
(* library sse.js: a closed source dispatches nothing more.                *)
(*                                                                         *)
(* Unmounting the page closes no connection.  Events of the old page still *)
(* update its messages: React runs the first updater at once, though it    *)
(* renders nothing, and that updater schedules a save of its own.          *)
(*                                                                         *)
(* A text is a sequence of tokens; the think tags are tokens of their own. *)
(***************************************************************************)
EXTENDS Integers, Sequences, SequencesExt

CONSTANTS
  MaxRequests,    \* bound on the requests of a behaviour
  Answers,        \* what the server may send: for each request a sequence of chunks
  MaxFailures,    \* bound on the saves that fail
  MaxStored,      \* MAX_STORED_MESSAGES
  MaxLoadedSize,  \* MAX_LOADED_MESSAGES_CHARS
  MaxStoredSize,  \* MAX_STORED_MESSAGES_BYTES
  CutStreams      \* the server may end a stream without [DONE]

Requests == 1..MaxRequests

ASSUME PlaygroundAssumption ==
  /\ MaxRequests \in Nat /\ MaxFailures \in Nat /\ MaxStored \in Nat \ {0}
  /\ MaxLoadedSize \in Nat /\ MaxStoredSize \in Nat
  /\ CutStreams \in BOOLEAN
  /\ Answers \subseteq
       [Requests -> Seq([type : {"content", "reasoning"}, text : Seq(STRING) \ {<<>>}])]

VARIABLES
  stream,         \* config.stream
  mounted,        \* the page is shown
  messages, stored, saveTimer,
  behind,         \* history: the last save of the page failed, or an old page saved after it
  failures,       \* saves that failed so far
  left,           \* the old pages of this tab that a request can still reach
  stray,          \* history: requests under way that the page no longer waits for
  pending,        \* pendingStreamChunksRef
  pendingFrom,    \* history: the requests whose chunks pending holds
  flushTimer,
  source,         \* sseSourceRef, 0 for null
  streaming, requesting,
  lastId, controller,           \* requestIdRef, abortControllerRef
  conn,           \* the connection of each request
  script, pos,    \* what the server sends for it, and how much was received
  editing,        \* editingMessageKey, 0 for null
  count, keys     \* requests and message keys used so far

copy    == <<stored, behind, failures, left>>
chat    == <<messages, saveTimer, stray, pending, pendingFrom, flushTimer, streaming,
             requesting, source, lastId, controller, conn, script, pos, count, keys>>
vars    == <<stream, mounted, copy, editing, chat>>

Kinds == {"content", "reasoning"}
NoText == [k \in Kinds |-> <<>>]

UserText  == <<"user">>
EditText  == <<"edit">>
ErrorText == <<"error">>

-----------------------------------------------------------------------------
(* Messages.                                                               *)

\* createUserMessage.
UserMessage(key) ==
  [key |-> key, from |-> "user", status |-> "none", content |-> UserText,
   reasoning |-> <<>>, req |-> 0, srcs |-> {}, done |-> FALSE]

\* createLoadingAssistantMessage; req, srcs and done are history: the request the
\* message was created for, the requests whose answers it shows, and that the page
\* read its stream up to [DONE].
LoadingAssistant(key, r) ==
  [key |-> key, from |-> "assistant", status |-> "loading", content |-> <<>>,
   reasoning |-> <<>>, req |-> r, srcs |-> {}, done |-> FALSE]

IsPending(m) == m.status \in {"loading", "streaming"}
IsFinal(m)   == m.status \in {"complete", "error"}
HasContent(m) == m.content # <<>>

\* One token of parseThinkTags.
ThinkStep(state, token) ==
  IF ~state.open
  THEN IF token = "<think>" THEN [state EXCEPT !.open = TRUE]
       ELSE [state EXCEPT !.visible = Append(@, token)]
  ELSE IF token = "</think>" THEN [state EXCEPT !.open = FALSE]
       ELSE [state EXCEPT !.reasoning = Append(@, token)]

\* parseThinkTags: an open tag that is never closed makes the rest reasoning.
ParseThinkTags(text) ==
  LET parsed[i \in 0..Len(text)] ==
        IF i = 0 THEN [open |-> FALSE, visible |-> <<>>, reasoning |-> <<>>]
        ELSE ThinkStep(parsed[i - 1], text[i])
  IN  parsed[Len(text)]

\* finalizeMessage; a reasoning the API reported wins over the parsed one.
FinalizeMessage(m, apiReasoning) ==
  LET parsed == ParseThinkTags(m.content) IN
  [m EXCEPT !.content = parsed.visible,
            !.reasoning = CASE apiReasoning # <<>> -> apiReasoning
                            [] apiReasoning = <<>> /\ @ # <<>> -> @
                            [] OTHER -> parsed.reasoning]

CompleteAssistantMessage(m) == [FinalizeMessage(m, <<>>) EXCEPT !.status = "complete"]

\* updateLastAssistantMessage; updated is what the updater makes of Last(ms).
UpdateLastAssistantMessage(ms, updated) ==
  IF ms = <<>> \/ Last(ms).from # "assistant" THEN ms
  ELSE [ms EXCEPT ![Len(ms)] = updated]

\* updateAssistantMessageWithError.
WithError(ms) ==
  UpdateLastAssistantMessage(ms, [Last(ms) EXCEPT !.content = ErrorText, !.status = "error"])

\* completeAssistantMessage of a message that is not final.
CompleteLast(ms) ==
  UpdateLastAssistantMessage(ms,
    IF IsFinal(Last(ms)) THEN Last(ms) ELSE CompleteAssistantMessage(Last(ms)))

\* Mutant of AppendableChunk: snapshots are appended as they are.
WholeChunk(current, chunk) == chunk

\* getAppendableChunk: a chunk that repeats the text so far is a snapshot.
AppendableChunk(current, chunk) ==
  IF current # <<>> /\ IsPrefix(current, chunk)
  THEN SubSeq(chunk, Len(current) + 1, Len(chunk)) ELSE chunk

\* mergePendingStreamChunk.
MergePendingStreamChunk(current, chunk) ==
  IF current = <<>> \/ ~IsPrefix(current, chunk) THEN current \o chunk ELSE chunk

\* applyStreamingChunk of a content chunk; tags in the text so far show as reasoning.
ApplyContentChunk(m, chunk) ==
  LET full == m.content \o AppendableChunk(m.content, chunk)
      parsed == ParseThinkTags(full).reasoning
  IN  [m EXCEPT !.content = full, !.status = "streaming",
                !.reasoning = IF parsed # <<>> THEN parsed ELSE @]

\* applyStreamingChunk of a reasoning chunk.
ApplyReasoningChunk(m, chunk) ==
  [m EXCEPT !.reasoning = @ \o AppendableChunk(@, chunk), !.status = "streaming"]

\* applyStreamingChunk for both texts that were held, reasoning first.
ApplyPending(m, texts, from) ==
  IF m.status = "error" THEN m
  ELSE LET withReasoning == IF texts["reasoning"] = <<>> THEN m
                            ELSE ApplyReasoningChunk(m, texts["reasoning"])
           withContent   == IF texts["content"] = <<>> THEN withReasoning
                            ELSE ApplyContentChunk(withReasoning, texts["content"])
       IN  [withContent EXCEPT !.srcs = @ \cup from]

\* What flushStreamUpdates makes of the messages of a page.
Flush(ms, texts, from) ==
  IF texts = NoText THEN ms
  ELSE UpdateLastAssistantMessage(ms, ApplyPending(Last(ms), texts, from))

Flushed == Flush(messages, pending, pendingFrom)

-----------------------------------------------------------------------------
(* localStorage.                                                           *)

\* Mutant of TrimMessages: the whole history is kept.
Untrimmed(ms) == ms

\* trimMessages.
TrimMessages(ms) ==
  IF Len(ms) <= MaxStored THEN ms ELSE SubSeq(ms, Len(ms) - MaxStored + 1, Len(ms))

\* getMessageSize, summed from the i-th message on.
SizeFrom(ms, i) ==
  LET size[j \in i..(Len(ms) + 1)] ==
        IF j > Len(ms) THEN 0
        ELSE Len(ms[j].content) + Len(ms[j].reasoning) + size[j + 1]
  IN  size[i]

\* trimMessagesByContentSize: as many of the latest messages as fit, at least one.
TrimMessagesByContentSize(ms) ==
  LET fits == {i \in 1..Len(ms) : i = Len(ms) \/ SizeFrom(ms, i) <= MaxLoadedSize}
  IN  IF ms = <<>> THEN ms
      ELSE SubSeq(ms, CHOOSE i \in fits : \A j \in fits : i <= j, Len(ms))

\* normalizeStoredMessageForLoad of a message with nothing to truncate.
NormalizeStored(m) ==
  IF IsPending(m) /\ (HasContent(m) \/ m.reasoning # <<>>)
  THEN CompleteAssistantMessage(m) ELSE m

\* What sanitizeMessagesOnLoad makes of a pending message.
Sanitized(m) ==
  LET finalized == FinalizeMessage(m, <<>>) IN
  IF HasContent(finalized) \/ finalized.reasoning # <<>>
  THEN [finalized EXCEPT !.status = "complete"]
  ELSE [finalized EXCEPT !.content = ErrorText, !.status = "error"]

\* Mutant of SanitizeMessagesOnLoad: messages are taken as they were stored.
TakenAsStored(ms) == ms

\* sanitizeMessagesOnLoad: only the last pending message is touched.
SanitizeMessagesOnLoad(ms) ==
  LET stuck == {i \in 1..Len(ms) : ms[i].from = "assistant" /\ IsPending(ms[i])}
  IN  IF stuck = {} THEN ms
      ELSE [ms EXCEPT ![CHOOSE i \in stuck : \A j \in stuck : j <= i] = Sanitized(@)]

\* readStoredMessagesValue removes the item.
Oversized == SizeFrom(stored, 1) > MaxStoredSize

\* loadMessages; a history that outgrew the limit is dropped.
LoadMessages ==
  IF Oversized THEN <<>>
  ELSE SanitizeMessagesOnLoad(TrimMessagesByContentSize(TrimMessages(
         [i \in 1..Len(stored) |-> NormalizeStored(stored[i])])))

-----------------------------------------------------------------------------
(* Sending.                                                                *)

Generating == streaming \/ requesting

\* Mutant of SetMessages: the change is not persisted.
SetMessagesOnly(ms) == messages' = ms /\ UNCHANGED saveTimer

\* setMessages with its persistMessages.
SetMessages(ms) == messages' = ms /\ saveTimer' = TRUE

\* sendStreamRequest: the source in use is closed, whatever it still owed.
SendStreamRequest(r) ==
  /\ conn' = [i \in Requests |-> CASE i = r -> "open"
                                   [] i = source /\ i # r -> "closed"
                                   [] OTHER -> conn[i]]
  /\ source' = r /\ streaming' = TRUE
  /\ UNCHANGED <<lastId, controller>>

\* sendNonStreamingChat up to its await.
SendNonStreamingChat(r) ==
  /\ conn' = [conn EXCEPT ![r] = "flight"]
  /\ lastId' = r /\ controller' = r
  /\ UNCHANGED <<source, streaming>>

\* The requests that can still change the messages of the page.
UnderWay == {i \in Requests : conn[i] \in {"open", "flight"}} \cup pendingFrom

\* sendChat for the reply with the given key at the end of ms.
SendChat(ms, key) ==
  LET r == count + 1 IN
  /\ count < MaxRequests
  /\ stray' = stray \cup UnderWay
  /\ SetMessages(Append(ms, LoadingAssistant(key, r)))
  /\ requesting' = TRUE
  /\ count' = r /\ keys' = key
  /\ IF stream THEN SendStreamRequest(r) ELSE SendNonStreamingChat(r)
  /\ UNCHANGED <<pending, pendingFrom, flushTimer, script, pos>>

\* handleSendMessage; the input is disabled while a reply is generated.
HandleSendMessage ==
  /\ mounted /\ ~Generating
  /\ SendChat(Append(messages, UserMessage(keys + 1)), keys + 2)
  /\ UNCHANGED <<stream, mounted, copy, editing>>

\* createRegeneratedMessages without its new placeholder.
KeptForRegeneration(i) ==
  SubSeq(messages, 1, IF messages[i].from = "user" THEN i ELSE i - 1)

\* handleRegenerateMessage behind guardAction, also Retry of a failed reply.
HandleRegenerateMessage(i) ==
  /\ mounted /\ ~Generating
  /\ HasContent(messages[i]) /\ ~IsPending(messages[i])
  /\ SendChat(KeptForRegeneration(i), keys + 1)
  /\ UNCHANGED <<stream, mounted, copy, editing>>

\* handleEditMessage behind guardAction.
HandleEditMessage(i) ==
  /\ mounted /\ ~Generating /\ HasContent(messages[i])
  /\ editing' = messages[i].key
  /\ UNCHANGED <<stream, mounted, copy, chat>>

\* handleEditOpenChange(false).
CancelEdit ==
  /\ mounted /\ editing # 0
  /\ editing' = 0
  /\ UNCHANGED <<stream, mounted, copy, chat>>

Edited(m) == [m EXCEPT !.content = EditText, !.req = 0, !.srcs = {}, !.done = FALSE]

\* applyEdit from an editor that is shown: its message is still there.  Nothing in
\* the editor looks at isGenerating, so it may be saved during a generation.
ApplyEdit(i, shouldSubmit) ==
  /\ mounted
  /\ messages[i].key = editing
  /\ editing' = 0
  /\ LET updated == [messages EXCEPT ![i] = Edited(@)] IN
     \/ /\ ~shouldSubmit \/ messages[i].from # "user"
        /\ SetMessages(updated)
        /\ UNCHANGED <<stray, pending, pendingFrom, flushTimer, streaming, requesting, source,
                       lastId, controller, conn, script, pos, count, keys>>
     \/ /\ shouldSubmit /\ messages[i].from = "user"
        /\ SendChat(SubSeq(updated, 1, i), keys + 1)
  /\ UNCHANGED <<stream, mounted, copy>>

\* handleDeleteMessage behind guardAction.
HandleDeleteMessage(i) ==
  /\ mounted /\ ~Generating
  /\ SetMessages(RemoveAt(messages, i))
  /\ UNCHANGED <<stream, mounted, copy, editing, stray, pending, pendingFrom, flushTimer,
                 streaming, requesting, source, lastId, controller, conn, script, pos,
                 count, keys>>

\* handleClearMessages.
HandleClearMessages ==
  /\ mounted /\ ~Generating /\ messages # <<>>
  /\ editing' = 0
  /\ SetMessages(<<>>)
  /\ UNCHANGED <<stream, mounted, copy, stray, pending, pendingFrom, flushTimer, streaming,
                 requesting, source, lastId, controller, conn, script, pos, count, keys>>

-----------------------------------------------------------------------------
(* Receiving.                                                              *)

NothingPending == pending' = NoText /\ pendingFrom' = {} /\ flushTimer' = FALSE

\* What the next chunk of request r makes of the texts that are held.
MergeNext(texts, r) ==
  LET chunk == script[r][pos[r] + 1] IN
  [texts EXCEPT ![chunk.type] = MergePendingStreamChunk(@, chunk.text)]

\* handleStreamUpdate and scheduleStreamFlush, for the updates of one SSE message.
ReceiveChunk(r) ==
  /\ mounted /\ conn[r] = "open" /\ pos[r] < Len(script[r])
  /\ pending' = MergeNext(pending, r)
  /\ pendingFrom' = pendingFrom \cup {r}
  /\ pos' = [pos EXCEPT ![r] = @ + 1]
  /\ flushTimer' = TRUE
  /\ UNCHANGED <<stream, mounted, copy, editing, stray, messages, saveTimer, streaming,
                 requesting, source, lastId, controller, conn, script, count, keys>>

\* The timer of scheduleStreamFlush runs flushStreamUpdates.
FlushStreamUpdates ==
  /\ mounted /\ flushTimer
  /\ SetMessages(Flushed)
  /\ NothingPending
  /\ UNCHANGED <<stream, mounted, copy, editing, stray, streaming, requesting, source,
                 lastId, controller, conn, script, pos, count, keys>>

\* closeActiveStream(source) for the source of request r.
CloseActiveStream(r) ==
  /\ conn' = [conn EXCEPT ![r] = "closed"]
  /\ source' = IF source = r THEN 0 ELSE source
  /\ streaming' = (streaming /\ source # r)

\* History: the last reply was read up to [DONE].
ReadToEnd(ms) == UpdateLastAssistantMessage(ms, [Last(ms) EXCEPT !.done = TRUE])

\* Mutant of StreamDone: isRequesting is left set.
StreamDoneStuck(r) ==
  /\ mounted /\ conn[r] = "open" /\ pos[r] = Len(script[r])
  /\ CloseActiveStream(r)
  /\ SetMessages(ReadToEnd(CompleteLast(Flushed)))
  /\ NothingPending
  /\ UNCHANGED <<stream, mounted, copy, editing, stray, lastId, controller, script, pos,
                 count, keys, requesting>>

\* The message [DONE]: handleStreamComplete.
StreamDone(r) ==
  /\ mounted /\ conn[r] = "open" /\ pos[r] = Len(script[r])
  /\ CloseActiveStream(r)
  /\ requesting' = FALSE
  /\ SetMessages(ReadToEnd(CompleteLast(Flushed)))
  /\ NothingPending
  /\ UNCHANGED <<stream, mounted, copy, editing, stray, lastId, controller, script, pos,
                 count, keys>>

\* An error event, a chunk that does not parse, or a stream that does not start:
\* handleStreamError.
StreamError(r) ==
  /\ mounted /\ conn[r] = "open"
  /\ CloseActiveStream(r)
  /\ requesting' = FALSE
  /\ SetMessages(WithError(Flushed))
  /\ NothingPending
  /\ UNCHANGED <<stream, mounted, copy, editing, stray, lastId, controller, script, pos,
                 count, keys>>

\* The server ends the response without [DONE]: with status 200 neither listener
\* sees an error, and nobody calls closeActiveStream.
StreamCut(r) ==
  /\ CutStreams /\ mounted /\ conn[r] = "open"
  /\ conn' = [conn EXCEPT ![r] = "cut"]
  /\ UNCHANGED <<stream, mounted, copy, editing, stray, messages, saveTimer, pending,
                 pendingFrom, flushTimer, streaming, requesting, source, lastId,
                 controller, script, pos, count, keys>>

\* The chunks of one kind that a plain response carries as one text.
ResponseText(r, kind) ==
  LET text[i \in 0..Len(script[r])] ==
        IF i = 0 THEN <<>>
        ELSE IF script[r][i].type # kind THEN text[i - 1]
        ELSE text[i - 1] \o AppendableChunk(text[i - 1], script[r][i].text)
  IN  text[Len(script[r])]

\* applyChatCompletionChoice, to whatever assistant message is the last one.
WithResponse(ms, r) ==
  UpdateLastAssistantMessage(ms,
    [FinalizeMessage([Last(ms) EXCEPT !.content = ResponseText(r, "content")],
                     ResponseText(r, "reasoning"))
     EXCEPT !.status = "complete", !.srcs = @ \cup {r}])

\* The finally block of sendNonStreamingChat.
FinishRequest(r) ==
  /\ conn' = [conn EXCEPT ![r] = "closed"]
  /\ controller' = IF lastId = r THEN 0 ELSE controller

\* sendNonStreamingChat after its await, with a choice in the answer.
ReceiveResponse(r) ==
  /\ mounted /\ conn[r] = "flight"
  /\ FinishRequest(r)
  /\ requesting' = (requesting /\ lastId # r)
  /\ SetMessages(WithResponse(messages, r))
  /\ UNCHANGED <<stream, mounted, copy, editing, stray, pending, pendingFrom, flushTimer,
                 streaming, source, lastId, script, pos, count, keys>>

\* The same with no choice, or after a failed fetch: handleStreamError, which ends
\* the generation whatever request it is of.
ReceiveFailure(r) ==
  /\ mounted /\ conn[r] = "flight"
  /\ FinishRequest(r)
  /\ requesting' = FALSE
  /\ stray' = stray \cup (UnderWay \ {r})
  /\ SetMessages(WithError(Flushed))
  /\ NothingPending
  /\ UNCHANGED <<stream, mounted, copy, editing, streaming, source, lastId, script,
                 pos, count, keys>>

\* What stopGeneration makes of the messages.
Stopped(ms) ==
  UpdateLastAssistantMessage(ms,
    IF IsPending(Last(ms)) THEN CompleteAssistantMessage(Last(ms)) ELSE Last(ms))

\* Mutant of StopGeneration: the request in flight is not aborted.
StopGenerationNoAbort ==
  /\ mounted /\ Generating
  /\ conn' = [i \in Requests |-> IF i = source THEN "closed" ELSE conn[i]]
  /\ source' = 0 /\ streaming' = FALSE
  /\ controller' = 0 /\ requesting' = FALSE
  /\ SetMessages(Stopped(Flushed))
  /\ NothingPending
  /\ UNCHANGED <<stream, mounted, copy, editing, stray, lastId, script, pos, count, keys>>

\* stopGeneration.  An aborted request returns before it touches the messages,
\* and what its finally block resets has been reset here.
StopGeneration ==
  /\ mounted /\ Generating
  /\ conn' = [i \in Requests |-> IF i \in {source, controller} THEN "closed" ELSE conn[i]]
  /\ source' = 0 /\ streaming' = FALSE
  /\ controller' = 0 /\ requesting' = FALSE
  /\ SetMessages(Stopped(Flushed))
  /\ NothingPending
  /\ UNCHANGED <<stream, mounted, copy, editing, stray, lastId, script, pos, count, keys>>

-----------------------------------------------------------------------------
(* The page.                                                               *)

\* saveMessages; an error of the schema or of setItem is only logged.
Write(ms, saved) ==
  \/ saved /\ stored' = TrimMessages(ms) /\ UNCHANGED failures
  \/ ~saved /\ failures < MaxFailures /\ failures' = failures + 1 /\ UNCHANGED stored

\* The timer of persistMessages.
SaveMessages ==
  /\ mounted /\ saveTimer
  /\ saveTimer' = FALSE
  /\ \E saved \in BOOLEAN : Write(messages, saved) /\ behind' = ~saved
  /\ UNCHANGED <<stream, mounted, left, editing, stray, messages, pending, pendingFrom,
                 flushTimer, streaming, requesting, source, lastId, controller, conn,
                 script, pos, count, keys>>

\* The page as its open connections find it after it was unmounted.
OldPage ==
  [messages |-> messages, pending |-> pending, from |-> pendingFrom,
   reqs |-> {i \in Requests : conn[i] \in {"open", "flight"}}]

\* Unmount (the effects' clean-up saves what the timer still owed, and clears the
\* flush timer) or the end of the tab (which ends the old pages too).
Leave(cleanly) ==
  /\ mounted
  /\ mounted' = FALSE
  /\ IF cleanly /\ saveTimer THEN \E saved \in BOOLEAN : Write(messages, saved)
     ELSE UNCHANGED <<stored, failures>>
  /\ behind' = FALSE
  /\ left' = IF ~cleanly THEN {} ELSE IF OldPage.reqs = {} THEN left ELSE left \cup {OldPage}
  /\ conn' = [i \in Requests |->
       CASE conn[i] = "idle" -> "idle"
         [] cleanly /\ conn[i] \in {"open", "flight", "left"} -> "left"
         [] OTHER -> "closed"]
  /\ messages' = <<>> /\ saveTimer' = FALSE /\ editing' = 0
  /\ NothingPending
  /\ source' = 0 /\ streaming' = FALSE /\ requesting' = FALSE
  /\ lastId' = 0 /\ controller' = 0
  /\ UNCHANGED <<stream, stray, script, pos, count, keys>>

\* The effect that loads the messages; loadMessages writes back what it made of them.
Mount ==
  /\ ~mounted
  /\ mounted' = TRUE
  /\ messages' = LoadMessages
  /\ IF LoadMessages = stored THEN behind' = FALSE /\ UNCHANGED <<stored, failures>>
     ELSE \E saved \in BOOLEAN :
            (Oversized => saved) /\ Write(LoadMessages, saved) /\ behind' = ~saved
  /\ UNCHANGED <<stream, left, editing, stray, saveTimer, pending, pendingFrom,
                 flushTimer, streaming, requesting, source, lastId, controller, conn,
                 script, pos, count, keys>>

\* A chunk arrives for an old page.
LateChunk(p, r) ==
  /\ stream /\ pos[r] < Len(script[r])
  /\ left' = (left \ {p}) \cup
       {[p EXCEPT !.pending = MergeNext(@, r), !.from = @ \cup {r}]}
  /\ pos' = [pos EXCEPT ![r] = @ + 1]
  /\ UNCHANGED <<stream, mounted, stored, behind, failures, editing, stray, messages, saveTimer,
                 pending, pendingFrom, flushTimer, streaming, requesting, source, lastId,
                 controller, conn, script, count, keys>>

\* What the first update of an old page makes of its messages: a flush, or else an
\* error, [DONE] or a response.
LateUpdates(p) ==
  IF p.pending # NoText THEN {Flush(p.messages, p.pending, p.from)}
  ELSE {WithError(p.messages)}
       \cup {CompleteLast(p.messages) : r \in {r \in p.reqs : stream /\ pos[r] = Len(script[r])}}
       \cup {WithResponse(p.messages, r) : r \in {r \in p.reqs : ~stream}}

\* The first update of an old page, and the save it schedules: nobody sees the page
\* in between, and no later update is run.
LateSave(p) ==
  /\ \E ms \in LateUpdates(p) : Write(ms, TRUE)
  /\ behind' = mounted
  /\ left' = left \ {p}
  /\ conn' = [i \in Requests |-> IF i \in p.reqs THEN "closed" ELSE conn[i]]
  /\ UNCHANGED <<stream, mounted, editing, stray, messages, saveTimer, pending,
                 pendingFrom, flushTimer, streaming, requesting, source, lastId,
                 controller, script, pos, count, keys>>

Init ==
  /\ stream \in BOOLEAN /\ mounted = TRUE
  /\ messages = <<>> /\ stored = <<>> /\ saveTimer = FALSE
  /\ behind = FALSE /\ failures = 0 /\ left = {} /\ stray = {}
  /\ pending = NoText /\ pendingFrom = {} /\ flushTimer = FALSE
  /\ source = 0 /\ streaming = FALSE /\ requesting = FALSE
  /\ lastId = 0 /\ controller = 0
  /\ conn = [r \in Requests |-> "idle"]
  /\ script \in Answers /\ pos = [r \in Requests |-> 0]
  /\ editing = 0 /\ count = 0 /\ keys = 0

Receive(r) ==
  \/ ReceiveChunk(r) \/ StreamDone(r) \/ StreamError(r)
  \/ ReceiveResponse(r) \/ ReceiveFailure(r)

UserStep ==
  \/ HandleSendMessage
  \/ \E i \in DOMAIN messages :
       \/ HandleRegenerateMessage(i) \/ HandleEditMessage(i) \/ HandleDeleteMessage(i)
       \/ \E shouldSubmit \in BOOLEAN : ApplyEdit(i, shouldSubmit)
  \/ CancelEdit \/ HandleClearMessages \/ StopGeneration

Next ==
  \/ UserStep
  \/ \E r \in Requests : Receive(r) \/ StreamCut(r)
  \/ FlushStreamUpdates \/ SaveMessages
  \/ (\E cleanly \in BOOLEAN : Leave(cleanly)) \/ Mount
  \/ \E p \in left : LateSave(p) \/ \E r \in p.reqs : LateChunk(p, r)

Spec == Init /\ [][Next]_vars

-----------------------------------------------------------------------------
(* Properties.                                                             *)

TypeOK ==
  /\ \A i \in DOMAIN messages : messages[i].status \in {"none", "loading", "streaming",
                                                        "complete", "error"}
  /\ Len(stored) <= MaxStored
  /\ source \in {0} \cup Requests
  /\ streaming <=> source # 0
  /\ \A r \in Requests : conn[r] = "open" => source = r
  /\ flushTimer <=> pending # NoText
  /\ ~mounted => messages = <<>> /\ ~saveTimer

\* An assistant message shows only what the server answered to the request it was
\* created for (flushStreamUpdates and sendNonStreamingChat write to whatever message
\* is last), or the answer to a stray request: one that was still under way when an
\* open editor was submitted, or when another request's failure ended the generation.
\* No stop, error, completion, deletion, reload or return to the page makes a request
\* stray.
ReplyBelongs ==
  \A i \in DOMAIN messages :
    messages[i].req # 0 => messages[i].srcs \subseteq {messages[i].req} \cup stray

\* While a reply is generated, only the last message is pending; when nothing is
\* being generated (after a completion, an error, a stop, a reload) no message is
\* left loading or streaming.
PendingOnlyWhileGenerating ==
  \A i \in DOMAIN messages :
    IsPending(messages[i]) => Generating /\ i = Len(messages)

\* The chunks of one kind are cumulative snapshots, each longer than the one before.
Snapshots(chunks, kind) ==
  \A i, j \in 1..Len(chunks) :
    i < j /\ chunks[i].type = kind /\ chunks[j].type = kind
      => IsPrefix(chunks[i].text, chunks[j].text) /\ chunks[i].text # chunks[j].text

\* What the chunks behind the i-th say up to the j-th, read without any timer: the
\* last of a series of snapshots, else all of them in order.
Reading(chunks, kind, i, j) ==
  LET read[k \in 0..Len(chunks)] ==
        IF k <= i THEN <<>>
        ELSE IF chunks[k].type # kind THEN read[k - 1]
        ELSE IF Snapshots(chunks, kind) THEN chunks[k].text
        ELSE read[k - 1] \o chunks[k].text
  IN  read[j]

\* No run of increments starts with the text of the run before it.
Increments(chunks, kind) ==
  \A i, j, k \in 0..Len(chunks) :
    LET before == Reading(chunks, kind, i, j)
        after  == Reading(chunks, kind, j, k)
    IN  i <= j /\ j <= k /\ before # <<>> /\ after # <<>> => ~IsPrefix(before, after)

\* Chunks that say one thing, however they are put together.
Legible(chunks, kind) == Snapshots(chunks, kind) \/ Increments(chunks, kind)

\* What the server says in answer to a request.
Said(r, kind) == Reading(script[r], kind, 0, Len(script[r]))

\* A reply that was read up to [DONE] is complete and, if no stray chunks went into
\* it and nobody edited it, shows what the server said, whenever the flush timer fired
\* between its chunks and however often it was stored and loaded: no chunk is lost,
\* doubled or reordered by mergePendingStreamChunk, getAppendableChunk and the flush at
\* completion.  The exception is a script that these two cannot read (Legible): an
\* increment that starts with the text before it, such as the same token twice, is
\* taken for a snapshot and loses that text.
TextIntact ==
  \A i \in DOMAIN messages :
    LET m == messages[i] IN
    m.done => /\ m.status = "complete"
              /\ m.req # 0 /\ m.srcs \subseteq {m.req} /\ Legible(script[m.req], "content")
                   => m.content = ParseThinkTags(Said(m.req, "content")).visible

\* When no save is due, the copy in localStorage is the conversation (its latest
\* MaxStored messages): every update of the messages schedules a save.  Two things
\* leave it behind until the next save of the page: a save that failed, which is not
\* tried again, and a late save of a page that was left during a generation.
StoredFollows == mounted /\ ~saveTimer /\ ~behind => stored = TrimMessages(messages)

\* The page shows a generation (and disables its input) only while an event can
\* still end it: a source or a fetch that has not settled stands behind it, or a
\* stream that was cut off without [DONE], which the page does not notice.
GenerationCanEnd ==
  Generating => \/ source # 0 /\ conn[source] \in {"open", "cut"}
                \/ controller # 0 /\ conn[controller] = "flight"
=============================================================================
