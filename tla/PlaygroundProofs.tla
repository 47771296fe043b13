-------------------------- MODULE PlaygroundProofs --------------------------
(***************************************************************************)
(* The playground's invariants hold for any answers of the server, any     *)
(* number of requests, any failures of the storage and any of its limits.  *)
(* For most of them the texts of the messages stay uninterpreted: what the *)
(* proofs follow is which message is pending, which request stands behind  *)
(* the page, whose chunks are held, and what the pages that were left can  *)
(* still write.  The last one is about the texts: what a reply shows and   *)
(* what is held are together what was received (ReadsOn).                  *)
(***************************************************************************)
EXTENDS Playground, SequenceTheorems, FiniteSetTheorems, WellFoundedInduction, TLAPS

Fields == {"key", "from", "status", "content", "reasoning", "req", "srcs", "done"}

USE DEF copy

\* A message is a record whose status fits its author.
IsMessage(m) ==
  /\ m = [f \in Fields |-> m[f]]
  /\ m.from \in {"user", "assistant"}
  /\ m.status \in IF m.from = "user" THEN {"none"}
                  ELSE {"loading", "streaming", "complete", "error"}

\* A conversation is a sequence of messages, of which only the last may be pending.
IsChat(ms) ==
  /\ ms \in Seq({ms[i] : i \in DOMAIN ms})
  /\ \A i \in 1..Len(ms) : IsMessage(ms[i]) /\ (IsPending(ms[i]) => i = Len(ms))

Settled(ms) == \A i \in 1..Len(ms) : ~IsPending(ms[i])

\* A message shows answers to its own request, and to some others.
Owns(m, others)   == m.req # 0 => m.srcs \subseteq {m.req} \cup others
Owned(ms, others) == \A i \in 1..Len(ms) : Owns(ms[i], others)

\* The messages of new show no more than those of old do, or than those and m.
Inherits(new, old) == \A others : Owned(old, others) => Owned(new, others)
InheritsWith(new, old, m) ==
  \A others : Owned(old, others) /\ Owns(m, others) => Owned(new, others)

Has(ms) == {ms[i] : i \in 1..Len(ms)}

\* From a conversation whose last message was not read up to [DONE] comes one of the
\* same kind, with no message more that was.
Unread(ms) == ms # <<>> => ~Last(ms).done
Carries(new, old) ==
  Unread(old) => Unread(new) /\ \A m \in Has(new) : m \in Has(old) \/ ~m.done

-----------------------------------------------------------------------------
(* The inductive invariant                                                 *)

Ends == {0} \cup Requests
Connections == {"idle", "open", "flight", "cut", "closed", "left"}

\* Which connection stands behind isStreaming and isRequesting.
Wired ==
  /\ stream \in BOOLEAN /\ streaming \in BOOLEAN /\ requesting \in BOOLEAN
  /\ source \in Ends /\ lastId \in Ends /\ controller \in Ends
  /\ conn \in [Requests -> Connections] /\ count \in Nat
  /\ streaming <=> source # 0
  /\ \A r \in Requests : conn[r] = "open" => source = r
  /\ stream => /\ requesting <=> streaming
               /\ \A r \in Requests : conn[r] # "flight"
               /\ source # 0 => conn[source] \in {"open", "cut"}
               /\ controller = 0
  /\ ~stream => /\ ~streaming
                /\ requesting => /\ controller # 0 /\ lastId = controller
                                 /\ conn[controller] = "flight"
  /\ ~mounted => ~streaming /\ ~requesting
  /\ \A r \in Requests : r > count => conn[r] = "idle"

\* The chunks that wait for the flush timer are those of a stream.
Buffered ==
  /\ flushTimer \in BOOLEAN
  /\ script \in Answers /\ pos \in [Requests -> Nat]
  /\ pending \in [Kinds -> Seq(STRING)] /\ pendingFrom \subseteq Requests
  /\ flushTimer <=> pending # NoText
  /\ flushTimer => streaming
  /\ flushTimer <=> pendingFrom # {}

\* The conversation and its copy.
Conversed ==
  /\ mounted \in BOOLEAN /\ saveTimer \in BOOLEAN /\ behind \in BOOLEAN
  /\ IsChat(messages) /\ (Generating \/ Settled(messages))
  /\ IsChat(stored) /\ Len(stored) <= MaxStored
  /\ StoredFollows
  /\ ~mounted => messages = <<>> /\ ~saveTimer

\* An old page, and that its requests are no business of the page that is shown.
PageFields == {"messages", "pending", "from", "reqs"}

IsPage(p) ==
  /\ p = [f \in PageFields |-> p[f]]
  /\ IsChat(p.messages) /\ p.reqs \subseteq Requests

Parted == \A p \in left : IsPage(p) /\ \A r \in p.reqs : conn[r] \in {"left", "closed"}

IInv == Wired /\ Buffered /\ Conversed /\ Parted

\* Nothing but the last message of ms, and some others, may answer these requests.
Fits(ms, from, others) ==
  ms # <<>> /\ Last(ms).req # 0 => from \subseteq {Last(ms).req} \cup others

\* A request that can still answer is stray, or the last message is its reply (or was,
\* before it was edited).
Answered ==
  /\ Owned(messages, stray) /\ Owned(stored, stray)
  /\ source # 0 => messages # <<>> /\ Last(messages).req \in {source, 0}
  /\ pendingFrom \subseteq {source} \cup stray
  /\ \A r \in Requests : conn[r] = "flight" =>
       \/ r \in stray
       \/ requesting /\ lastId = r /\ messages # <<>> /\ Last(messages).req \in {r, 0}
  /\ \A p \in left : /\ Owned(p.messages, stray)
                      /\ Fits(p.messages, p.from \cup p.reqs, stray)

-----------------------------------------------------------------------------
(* Conversations                                                           *)

\* A sequence over any set is one over its own elements.
LEMMA SeqOverElements ==
  ASSUME NEW S, NEW s \in Seq(S)
  PROVE  s \in Seq({s[i] : i \in DOMAIN s})
<1> DEFINE R == {s[i] : i \in DOMAIN s}
<1>1. Len(s) \in Nat /\ DOMAIN s = 1..Len(s) /\ s \in [1..Len(s) -> S]
  OBVIOUS
<1>2. s \in [1..Len(s) -> R]
  BY <1>1
<1> QED BY <1>1, <1>2, SMTT(30)

LEMMA ChatLength ==
  ASSUME NEW ms, IsChat(ms)
  PROVE  /\ Len(ms) \in Nat /\ DOMAIN ms = 1..Len(ms)
         /\ ms = <<>> <=> Len(ms) = 0
BY DEF IsChat

LEMMA NoMessages == IsChat(<<>>) /\ Settled(<<>>) /\ (\A others : Owned(<<>>, others)) /\ Len(<<>>) = 0
BY DEF IsChat, Settled, Owned

\* The latest messages are a conversation.
LEMMA ChatSuffix ==
  ASSUME NEW ms, IsChat(ms), NEW k \in 1..Len(ms)
  PROVE  LET kept == SubSeq(ms, k, Len(ms)) IN
         /\ IsChat(kept) /\ Len(kept) = Len(ms) - k + 1
         /\ Settled(ms) => Settled(kept)
         /\ Inherits(kept, ms)
<1> DEFINE S == {ms[i] : i \in DOMAIN ms}
<1> DEFINE kept == SubSeq(ms, k, Len(ms))
<1>1. Len(ms) \in Nat /\ k \in Nat /\ DOMAIN ms = 1..Len(ms)
  BY ChatLength
<1>2. \A i \in k..Len(ms) : ms[i] \in S
  BY <1>1
<1>3. /\ kept \in Seq(S) /\ Len(kept) = Len(ms) - k + 1
      /\ \A i \in 1..Len(kept) : kept[i] = ms[k + i - 1]
  <2> HIDE DEF S
  <2> QED BY <1>1, <1>2, SubSeqProperties
<1>4. kept \in Seq({kept[i] : i \in DOMAIN kept})
  <2> HIDE DEF S, kept
  <2> QED BY <1>3, SeqOverElements
<1>5. \A i \in 1..Len(kept) : k + i - 1 \in 1..Len(ms) /\ (k + i - 1 = Len(ms) => i = Len(kept))
  BY <1>1, <1>3
<1> HIDE DEF kept
<1>6. IsChat(kept)
  BY <1>3, <1>4, <1>5 DEF IsChat
<1>7. Settled(ms) => Settled(kept)
  BY <1>3, <1>5 DEF Settled
<1>8. Inherits(kept, ms)
  BY <1>3, <1>5 DEF Owned, Inherits, InheritsWith
<1> QED BY <1>3, <1>6, <1>7, <1>8 DEF kept

\* Cut behind a message that is not pending, a conversation is settled.
LEMMA ChatPrefix ==
  ASSUME NEW ms, IsChat(ms), NEW n \in 0..Len(ms), n # 0 => ~IsPending(ms[n])
  PROVE  LET kept == SubSeq(ms, 1, n) IN
         /\ IsChat(kept) /\ Settled(kept)
         /\ Inherits(kept, ms)
<1> DEFINE S == {ms[i] : i \in DOMAIN ms}
<1> DEFINE kept == SubSeq(ms, 1, n)
<1>1. Len(ms) \in Nat /\ n \in Nat /\ DOMAIN ms = 1..Len(ms)
  BY ChatLength
<1>2. \A i \in 1..n : ms[i] \in S
  BY <1>1
<1>3. /\ kept \in Seq(S) /\ Len(kept) = n
      /\ \A i \in 1..Len(kept) : kept[i] = ms[i]
  <2>1. /\ kept \in Seq(S) /\ Len(kept) = (IF 1 <= n THEN n - 1 + 1 ELSE 0)
        /\ \A i \in 1..(n - 1 + 1) : kept[i] = ms[1 + i - 1]
    <3> HIDE DEF S
    <3> QED BY <1>1, <1>2, SubSeqProperties
  <2> QED BY <1>1, <2>1
<1>4. kept \in Seq({kept[i] : i \in DOMAIN kept})
  <2> HIDE DEF S, kept
  <2> QED BY <1>3, SeqOverElements
<1> HIDE DEF kept, S
<1>5. \A i \in 1..Len(kept) : i \in 1..Len(ms) /\ (i = Len(ms) => i = n)
  <2>1. Len(ms) \in Nat /\ n \in Nat /\ n <= Len(ms) BY <1>1
  <2>2. Len(kept) = n BY <1>3
  <2> QED BY <2>1, <2>2
<1>6. Settled(kept)
  <2> SUFFICES ASSUME NEW i \in 1..Len(kept) PROVE ~IsPending(ms[i])
    BY <1>3 DEF Settled
  <2>1. i \in 1..Len(ms) /\ (i = Len(ms) => i = n)
    BY <1>5
  <2>2. IsPending(ms[i]) => i = Len(ms)
    BY <2>1 DEF IsChat
  <2>3. CASE i = Len(ms)
    <3>1. i = n /\ n # 0 BY <2>1, <2>3
    <3> QED BY <3>1
  <2> QED BY <2>2, <2>3
<1>7. IsChat(kept)
  BY <1>3, <1>4, <1>5, <1>6 DEF IsChat, Settled
<1>8. Inherits(kept, ms)
  BY <1>3, <1>5 DEF Owned, Inherits, InheritsWith
<1> QED BY <1>6, <1>7, <1>8 DEF kept

\* A message put behind a settled conversation.
LEMMA ChatAppend ==
  ASSUME NEW ms, IsChat(ms), Settled(ms), NEW m, IsMessage(m)
  PROVE  LET longer == Append(ms, m) IN
         /\ IsChat(longer) /\ longer # <<>> /\ Last(longer) = m
         /\ ~IsPending(m) => Settled(longer)
         /\ InheritsWith(longer, ms, m)
<1> DEFINE S == {ms[i] : i \in DOMAIN ms} \cup {m}
<1> DEFINE longer == Append(ms, m)
<1>1. Len(ms) \in Nat /\ DOMAIN ms = 1..Len(ms)
  BY ChatLength
<1>2. ms \in Seq(S) /\ m \in S
  BY DEF IsChat
<1>3. /\ longer \in Seq(S) /\ Len(longer) = Len(ms) + 1
      /\ \A i \in 1..Len(ms) : longer[i] = ms[i]
      /\ longer[Len(ms) + 1] = m
  <2> HIDE DEF S
  <2> QED BY <1>2, AppendProperties
<1>4. longer \in Seq({longer[i] : i \in DOMAIN longer})
  <2> HIDE DEF S, longer
  <2> QED BY <1>3, SeqOverElements
<1>5. \A i \in 1..Len(longer) : i \in 1..Len(ms) \/ i = Len(ms) + 1
  BY <1>1, <1>3
<1> HIDE DEF longer
<1>6. IsChat(longer)
  BY <1>1, <1>3, <1>4, <1>5 DEF IsChat, Settled
<1>7. ~IsPending(m) => Settled(longer)
  BY <1>3, <1>5 DEF Settled
<1>8. InheritsWith(longer, ms, m)
  BY <1>3, <1>5 DEF Owned, Inherits, InheritsWith
<1>9. longer # <<>> /\ Last(longer) = m
  BY <1>1, <1>3 DEF Last
<1> QED BY <1>6, <1>7, <1>8, <1>9 DEF longer

\* A message replaced by another.
LEMMA ChatExcept ==
  ASSUME NEW ms, IsChat(ms), NEW i \in 1..Len(ms), NEW m, IsMessage(m),
         IsPending(m) => i = Len(ms)
  PROVE  LET changed == [ms EXCEPT ![i] = m] IN
         /\ IsChat(changed) /\ Len(changed) = Len(ms)
         /\ \A j \in 1..Len(ms) : changed[j] = IF j = i THEN m ELSE ms[j]
         /\ ~IsPending(m) /\ (Settled(ms) \/ i = Len(ms)) => Settled(changed)
         /\ InheritsWith(changed, ms, m)
<1> DEFINE S == {ms[j] : j \in DOMAIN ms} \cup {m}
<1> DEFINE changed == [ms EXCEPT ![i] = m]
<1>1. Len(ms) \in Nat /\ DOMAIN ms = 1..Len(ms)
  BY ChatLength
<1>2. ms \in Seq(S) /\ m \in S
  BY DEF IsChat
<1>3. /\ changed \in Seq(S) /\ Len(changed) = Len(ms)
      /\ \A j \in 1..Len(ms) : changed[j] = IF j = i THEN m ELSE ms[j]
  <2> HIDE DEF S
  <2> QED BY <1>2, ExceptSeq
<1>4. changed \in Seq({changed[j] : j \in DOMAIN changed})
  <2> HIDE DEF S, changed
  <2> QED BY <1>3, SeqOverElements
<1> HIDE DEF changed
<1>5. IsChat(changed)
  BY <1>1, <1>3, <1>4 DEF IsChat
<1>6. ~IsPending(m) /\ (Settled(ms) \/ i = Len(ms)) => Settled(changed)
  BY <1>1, <1>3 DEF IsChat, Settled
<1>7. InheritsWith(changed, ms, m)
  BY <1>3 DEF Owned, InheritsWith
<1> QED BY <1>3, <1>5, <1>6, <1>7 DEF changed

\* A message deleted from a settled conversation.
LEMMA ChatRemove ==
  ASSUME NEW ms, IsChat(ms), Settled(ms), NEW i \in 1..Len(ms)
  PROVE  LET rest == RemoveAt(ms, i) IN
         /\ IsChat(rest) /\ Settled(rest)
         /\ Inherits(rest, ms)
<1> DEFINE S == {ms[j] : j \in DOMAIN ms}
<1> DEFINE before == SubSeq(ms, 1, i - 1)
<1> DEFINE after == SubSeq(ms, i + 1, Len(ms))
<1> DEFINE rest == before \o after
<1>1. Len(ms) \in Nat /\ DOMAIN ms = 1..Len(ms) /\ i \in Nat
  BY ChatLength
<1>2. /\ \A j \in 1..(i - 1) : ms[j] \in S
      /\ \A j \in (i + 1)..Len(ms) : ms[j] \in S
  BY <1>1
<1>3. /\ before \in Seq(S) /\ Len(before) = i - 1
      /\ \A j \in 1..Len(before) : before[j] = ms[j]
  <2>1. /\ before \in Seq(S) /\ Len(before) = (IF 1 <= i - 1 THEN i - 1 - 1 + 1 ELSE 0)
        /\ \A j \in 1..(i - 1 - 1 + 1) : before[j] = ms[1 + j - 1]
    <3>1. i - 1 \in Int /\ 1 \in Int BY <1>1
    <3> HIDE DEF S
    <3> QED BY <3>1, <1>2, SubSeqProperties
  <2> HIDE DEF S, before, after
  <2> QED BY <1>1, <2>1
<1>4. /\ after \in Seq(S) /\ Len(after) = Len(ms) - i
      /\ \A j \in 1..Len(after) : after[j] = ms[i + j]
  <2>1. /\ after \in Seq(S) /\ Len(after) = (IF i + 1 <= Len(ms) THEN Len(ms) - (i + 1) + 1 ELSE 0)
        /\ \A j \in 1..(Len(ms) - (i + 1) + 1) : after[j] = ms[(i + 1) + j - 1]
    <3>1. i + 1 \in Int /\ Len(ms) \in Int BY <1>1
    <3> HIDE DEF S
    <3> QED BY <3>1, <1>2, SubSeqProperties
  <2> HIDE DEF S, before, after
  <2>2. i <= Len(ms) /\ Len(ms) - (i + 1) + 1 = Len(ms) - i
    BY <1>1
  <2>3. Len(after) = Len(ms) - i
    <3>1. CASE i + 1 <= Len(ms)
      BY <2>1, <2>2, <3>1
    <3>2. CASE ~(i + 1 <= Len(ms))
      <4>0. Len(ms) \in Int /\ i \in Int /\ i <= Len(ms) BY <1>1, <2>2
      <4>1. Len(ms) - i = 0 BY <4>0, <3>2
      <4>2. Len(after) = 0 BY <2>1, <3>2
      <4> QED BY <4>1, <4>2
    <3> QED BY <3>1, <3>2
  <2>4. \A j \in 1..Len(after) : (i + 1) + j - 1 = i + j
    BY <1>1, <2>3
  <2> QED BY <2>1, <2>2, <2>3, <2>4
<1>5. /\ rest \in Seq(S) /\ Len(rest) = Len(before) + Len(after)
      /\ \A j \in 1..(Len(before) + Len(after)) :
           rest[j] = IF j <= Len(before) THEN before[j] ELSE after[j - Len(before)]
  <2> HIDE DEF S, before, after
  <2> QED BY <1>3, <1>4, ConcatProperties
<1>6. rest \in Seq({rest[j] : j \in DOMAIN rest})
  <2> HIDE DEF S, rest
  <2> QED BY <1>5, SeqOverElements, ZenonT(30)
<1> HIDE DEF S, before, after, rest
<1>7. \A j \in 1..Len(rest) : \E o \in 1..Len(ms) : rest[j] = ms[o]
  <2> SUFFICES ASSUME NEW j \in 1..Len(rest) PROVE \E o \in 1..Len(ms) : rest[j] = ms[o]
    OBVIOUS
  <2>1. CASE j <= Len(before)
    <3>1. j \in 1..Len(before) /\ j \in 1..Len(ms)
      BY <2>1, <1>1, <1>3, <1>4, <1>5
    <3>2. rest[j] = ms[j]
      BY <2>1, <3>1, <1>1, <1>3, <1>4, <1>5
    <3> QED BY <3>1, <3>2
  <2>2. CASE ~(j <= Len(before))
    <3>1. j - Len(before) \in 1..Len(after) /\ i + (j - Len(before)) \in 1..Len(ms)
      BY <2>2, <1>1, <1>3, <1>4, <1>5
    <3> QED BY <2>2, <3>1, <1>1, <1>3, <1>4, <1>5
  <2> QED BY <2>1, <2>2
<1>8. IsChat(rest) /\ Settled(rest) /\ Inherits(rest, ms)
  BY <1>6, <1>7 DEF IsChat, Settled, Owned, Inherits
<1> QED BY <1>8 DEF rest, before, after, RemoveAt

-----------------------------------------------------------------------------
(* Messages                                                                *)

\* Another text, another status: still the same reply, with the same history.
SameReply(m, n) ==
  /\ IsMessage(n) /\ n.from = m.from /\ n.req = m.req
  /\ n.srcs = m.srcs /\ n.done = m.done

LEMMA NewMessages ==
  ASSUME NEW key, NEW r
  PROVE  /\ IsMessage(UserMessage(key)) /\ ~IsPending(UserMessage(key))
         /\ \A others : Owns(UserMessage(key), others)
         /\ IsMessage(LoadingAssistant(key, r))
         /\ \A others : Owns(LoadingAssistant(key, r), others)
         /\ LoadingAssistant(key, r).req = r
BY DEF UserMessage, LoadingAssistant, IsMessage, Fields, IsPending, Owns

\* A message of the user is not pending.
LEMMA PendingIsAssistant ==
  ASSUME NEW m, IsMessage(m), IsPending(m)
  PROVE  m.from = "assistant"
BY DEF IsMessage, IsPending

LEMMA FinalizeMessageKeeps ==
  ASSUME NEW m, IsMessage(m), NEW reasoning
  PROVE  /\ SameReply(m, FinalizeMessage(m, reasoning))
         /\ FinalizeMessage(m, reasoning).status = m.status
<1> DEFINE text == ParseThinkTags(m.content)
<1> DEFINE why == CASE reasoning # <<>> -> reasoning
                    [] reasoning = <<>> /\ m.reasoning # <<>> -> m.reasoning
                    [] OTHER -> text.reasoning
<1>1. FinalizeMessage(m, reasoning) = [m EXCEPT !.content = text.visible, !.reasoning = why]
  BY DEF FinalizeMessage, IsMessage, Fields
<1> HIDE DEF why, text
<1> QED BY <1>1 DEF SameReply, IsMessage, Fields

LEMMA CompleteKeeps ==
  ASSUME NEW m, IsMessage(m), m.from = "assistant"
  PROVE  /\ SameReply(m, CompleteAssistantMessage(m))
         /\ ~IsPending(CompleteAssistantMessage(m))
<1> DEFINE f == FinalizeMessage(m, <<>>)
<1>1. SameReply(m, f) BY FinalizeMessageKeeps
<1>2. CompleteAssistantMessage(m) = [f EXCEPT !.status = "complete"]
  BY DEF CompleteAssistantMessage
<1> HIDE DEF f
<1> QED BY <1>1, <1>2 DEF SameReply, IsMessage, Fields, IsPending

LEMMA ErrorKeeps ==
  ASSUME NEW m, IsMessage(m), m.from = "assistant"
  PROVE  LET failed == [m EXCEPT !.content = ErrorText, !.status = "error"] IN
         SameReply(m, failed) /\ ~IsPending(failed)
BY DEF SameReply, IsMessage, Fields, IsPending

LEMMA NormalizeKeeps ==
  ASSUME NEW m, IsMessage(m)
  PROVE  /\ SameReply(m, NormalizeStored(m))
         /\ IsPending(NormalizeStored(m)) => IsPending(m)
<1>1. CASE IsPending(m)
  BY <1>1, PendingIsAssistant, CompleteKeeps DEF NormalizeStored, SameReply
<1>2. CASE ~IsPending(m)
  BY <1>2 DEF NormalizeStored, SameReply
<1> QED BY <1>1, <1>2

LEMMA SanitizedKeeps ==
  ASSUME NEW m, IsMessage(m), m.from = "assistant"
  PROVE  SameReply(m, Sanitized(m)) /\ ~IsPending(Sanitized(m))
<1> DEFINE f == FinalizeMessage(m, <<>>)
<1>1. SameReply(m, f) BY FinalizeMessageKeeps
<1>2. \/ Sanitized(m) = [f EXCEPT !.status = "complete"]
      \/ Sanitized(m) = [f EXCEPT !.content = ErrorText, !.status = "error"]
  BY DEF Sanitized
<1> HIDE DEF f
<1> QED BY <1>1, <1>2 DEF SameReply, IsMessage, Fields, IsPending

LEMMA EditedKeeps ==
  ASSUME NEW m, IsMessage(m)
  PROVE  /\ IsMessage(Edited(m)) /\ Edited(m).from = m.from
         /\ Edited(m).status = m.status /\ Edited(m).req = 0 /\ ~Edited(m).done
         /\ \A others : Owns(Edited(m), others)
BY DEF Edited, IsMessage, Fields, Owns

\* The chunks that were held become part of the reply, and name their requests.
LEMMA ApplyPendingKeeps ==
  ASSUME NEW m, IsMessage(m), m.from = "assistant", NEW texts, NEW from
  PROVE  LET shown == ApplyPending(m, texts, from) IN
         /\ IsMessage(shown) /\ shown.from = m.from /\ shown.req = m.req
         /\ shown.srcs \subseteq m.srcs \cup from /\ shown.done = m.done
<1> DEFINE a == IF texts["reasoning"] = <<>> THEN m
                ELSE ApplyReasoningChunk(m, texts["reasoning"])
<1> DEFINE b == IF texts["content"] = <<>> THEN a
                ELSE ApplyContentChunk(a, texts["content"])
<1>1. SameReply(m, a)
  <2> DEFINE text == m.reasoning \o AppendableChunk(m.reasoning, texts["reasoning"])
  <2>1. a = m \/ a = [m EXCEPT !.reasoning = text, !.status = "streaming"]
    BY DEF ApplyReasoningChunk, IsMessage, Fields
  <2> HIDE DEF text, a
  <2> QED BY <2>1 DEF SameReply, IsMessage, Fields
<1> HIDE DEF a
<1>2. SameReply(m, b)
  <2> DEFINE full == a.content \o AppendableChunk(a.content, texts["content"])
  <2> DEFINE parsed == ParseThinkTags(full).reasoning
  <2> DEFINE why == IF parsed # <<>> THEN parsed ELSE a.reasoning
  <2>1. b = a \/ b = [a EXCEPT !.content = full, !.status = "streaming", !.reasoning = why]
    BY <1>1 DEF ApplyContentChunk, SameReply, IsMessage, Fields
  <2> HIDE DEF full, parsed, why, b
  <2> QED BY <1>1, <2>1 DEF SameReply, IsMessage, Fields
<1> HIDE DEF b
<1>3. \/ ApplyPending(m, texts, from) = m
      \/ ApplyPending(m, texts, from) = [b EXCEPT !.srcs = b.srcs \cup from]
  BY <1>2 DEF ApplyPending, a, b, SameReply, IsMessage, Fields
<1> QED BY <1>2, <1>3 DEF SameReply, IsMessage, Fields

-----------------------------------------------------------------------------
(* What the handlers make of the conversation                              *)

LEMMA LastMessage ==
  ASSUME NEW ms, IsChat(ms), ms # <<>>
  PROVE  /\ Len(ms) \in 1..Len(ms) /\ IsMessage(Last(ms))
         /\ Last(ms).from = "user" => Settled(ms)
         /\ Last(ms).from # "user" => Last(ms).from = "assistant"
         /\ ~IsPending(Last(ms)) => Settled(ms)
         /\ \A others : Owned(ms, others) => Owns(Last(ms), others)
<1>1. Len(ms) \in 1..Len(ms)
  BY ChatLength
<1>2. IsMessage(Last(ms)) /\ (\A others : Owned(ms, others) => Owns(Last(ms), others))
  BY <1>1 DEF IsChat, Last, Owned
<1>3. ~IsPending(Last(ms)) => Settled(ms)
  BY <1>1 DEF IsChat, Last, Settled
<1>4. Last(ms).from = "user" => ~IsPending(Last(ms))
  BY <1>2, PendingIsAssistant
<1> QED BY <1>1, <1>2, <1>3, <1>4 DEF IsMessage

\* updateLastAssistantMessage changes the last message, and no other.
LEMMA UpdateLastKeeps ==
  ASSUME NEW ms, IsChat(ms), NEW m,
         ms # <<>> /\ Last(ms).from = "assistant" => IsMessage(m) /\ m.req = Last(ms).req
  PROVE  LET updated == UpdateLastAssistantMessage(ms, m) IN
         /\ IsChat(updated)
         /\ ms # <<>> => updated # <<>> /\ Last(updated).req = Last(ms).req
         /\ (ms # <<>> /\ Last(ms).from = "assistant" => ~IsPending(m)) => Settled(updated)
         /\ \A others : /\ Owned(ms, others)
                        /\ ms # <<>> /\ Last(ms).from = "assistant" => Owns(m, others)
                        => Owned(updated, others)
         /\ (ms # <<>> /\ Last(ms).from = "assistant" => m.done = Last(ms).done)
              => Carries(updated, ms)
         /\ Has(updated) \subseteq Has(ms) \cup {m}
         /\ ms # <<>> /\ Last(ms).from = "assistant" => Last(updated) = m
<1> DEFINE updated == UpdateLastAssistantMessage(ms, m)
<1>1. CASE ms = <<>> \/ Last(ms).from # "assistant"
  <2>1. updated = ms
    BY <1>1 DEF UpdateLastAssistantMessage
  <2>2. Settled(ms)
    BY <1>1, LastMessage, NoMessages
  <2> QED BY <1>1, <2>1, <2>2 DEF Carries
<1>2. CASE ~(ms = <<>> \/ Last(ms).from # "assistant")
  <2>1. updated = [ms EXCEPT ![Len(ms)] = m]
    BY <1>2 DEF UpdateLastAssistantMessage
  <2>2. Len(ms) \in 1..Len(ms) /\ IsMessage(m) /\ m.req = Last(ms).req
    BY <1>2, LastMessage
  <2> DEFINE changed == [ms EXCEPT ![Len(ms)] = m]
  <2>0. /\ IsChat(changed) /\ Len(changed) = Len(ms)
        /\ \A j \in 1..Len(ms) : changed[j] = IF j = Len(ms) THEN m ELSE ms[j]
        /\ ~IsPending(m) /\ (Settled(ms) \/ Len(ms) = Len(ms)) => Settled(changed)
        /\ InheritsWith(changed, ms, m)
    BY <2>2, ChatExcept
  <2> HIDE DEF updated, changed
  <2>3. /\ IsChat(updated) /\ Len(updated) = Len(ms)
        /\ \A j \in 1..Len(ms) : updated[j] = IF j = Len(ms) THEN m ELSE ms[j]
        /\ ~IsPending(m) => Settled(updated)
        /\ InheritsWith(updated, ms, m)
    BY <2>0, <2>1 DEF changed
  <2>4. updated # <<>> /\ Last(updated) = m
    <3>1. Len(ms) # 0 BY <1>2, ChatLength
    <3> QED BY <2>2, <2>3, <3>1, ChatLength DEF Last
  <2>5. Has(updated) \subseteq Has(ms) \cup {m}
    BY <2>3 DEF Has
  <2>6. m.done = Last(ms).done => Carries(updated, ms)
    BY <1>2, <2>4, <2>5 DEF Carries, Unread
  <2> QED BY <1>2, <2>2, <2>3, <2>4, <2>5, <2>6 DEF updated, InheritsWith
<1> QED BY <1>1, <1>2

\* flushStreamUpdates keeps the conversation, and puts what was held in its last reply.
LEMMA FlushKeeps ==
  ASSUME NEW ms, IsChat(ms), NEW texts, NEW from
  PROVE  LET flushed == Flush(ms, texts, from) IN
         /\ IsChat(flushed)
         /\ ms # <<>> => flushed # <<>> /\ Last(flushed).req = Last(ms).req
         /\ \A others : Owned(ms, others) /\ Fits(ms, from, others) => Owned(flushed, others)
         /\ Carries(flushed, ms)
<1> DEFINE m == ApplyPending(Last(ms), texts, from)
<1>1. CASE texts = NoText
  BY <1>1 DEF Flush, Carries
<1>2. CASE texts # NoText
  <2>1. Flush(ms, texts, from) = UpdateLastAssistantMessage(ms, m)
    BY <1>2 DEF Flush
  <2>2. ms # <<>> /\ Last(ms).from = "assistant" =>
          /\ IsMessage(m) /\ m.req = Last(ms).req
          /\ m.srcs \subseteq Last(ms).srcs \cup from /\ m.done = Last(ms).done
    BY LastMessage, ApplyPendingKeeps
  <2> HIDE DEF m
  <2>3. ASSUME NEW others, Owned(ms, others), Fits(ms, from, others), ms # <<>>,
               Last(ms).from = "assistant"
        PROVE  Owns(m, others)
    <3>1. Owns(Last(ms), others) BY <2>3, LastMessage
    <3> QED BY <2>2, <2>3, <3>1 DEF Owns, Fits
  <2> QED BY <2>1, <2>2, <2>3, UpdateLastKeeps
<1> QED BY <1>1, <1>2

LEMMA FlushedKeeps ==
  ASSUME IsChat(messages)
  PROVE  /\ IsChat(Flushed)
         /\ messages # <<>> => Flushed # <<>> /\ Last(Flushed).req = Last(messages).req
         /\ \A others : Owned(messages, others) /\ Fits(messages, pendingFrom, others)
                         => Owned(Flushed, others)
         /\ Carries(Flushed, messages)
BY FlushKeeps DEF Flushed

\* What ends a generation leaves no message pending.
LEMMA EndsSettle ==
  ASSUME NEW ms, IsChat(ms)
  PROVE  \A done \in {CompleteLast(ms), WithError(ms), Stopped(ms)} :
           IsChat(done) /\ Settled(done) /\ Inherits(done, ms) /\ Carries(done, ms)
<1> DEFINE completed == IF IsFinal(Last(ms)) THEN Last(ms) ELSE CompleteAssistantMessage(Last(ms))
<1> DEFINE failed    == [Last(ms) EXCEPT !.content = ErrorText, !.status = "error"]
<1> DEFINE stopped   == IF IsPending(Last(ms)) THEN CompleteAssistantMessage(Last(ms)) ELSE Last(ms)
<1>1. ASSUME ms # <<>>, Last(ms).from = "assistant", NEW m \in {completed, failed, stopped}
      PROVE  SameReply(Last(ms), m) /\ ~IsPending(m)
  <2>1. IsMessage(Last(ms)) BY <1>1, LastMessage
  <2>2. IsFinal(Last(ms)) => ~IsPending(Last(ms)) BY DEF IsFinal, IsPending
  <2>3. SameReply(Last(ms), Last(ms)) BY <2>1 DEF SameReply
  <2>4. SameReply(Last(ms), failed) /\ ~IsPending(failed) BY <1>1, <2>1, ErrorKeeps
  <2>5. LET c == CompleteAssistantMessage(Last(ms)) IN SameReply(Last(ms), c) /\ ~IsPending(c)
    BY <1>1, <2>1, CompleteKeeps
  <2>6. m = failed \/ (m = Last(ms) /\ ~IsPending(Last(ms))) \/ m
          = CompleteAssistantMessage(Last(ms))
    <3>1. m = completed \/ m = failed \/ m = stopped
      <4> HIDE DEF completed, failed, stopped
      <4> QED BY <1>1
    <3>2. CASE m = completed
      <4>1. CASE IsFinal(Last(ms)) BY <2>2, <3>2, <4>1
      <4>2. CASE ~IsFinal(Last(ms)) BY <3>2, <4>2
      <4> QED BY <4>1, <4>2
    <3>3. CASE m = stopped
      <4>1. CASE IsPending(Last(ms)) BY <3>3, <4>1
      <4>2. CASE ~IsPending(Last(ms)) BY <3>3, <4>2
      <4> QED BY <4>1, <4>2
    <3> HIDE DEF completed, failed, stopped
    <3> QED BY <3>1, <3>2, <3>3
  <2> HIDE DEF completed, failed, stopped
  <2> QED BY <2>3, <2>4, <2>5, <2>6
<1>2. ASSUME NEW m \in {completed, failed, stopped}
      PROVE  LET done == UpdateLastAssistantMessage(ms, m) IN
             IsChat(done) /\ Settled(done) /\ Inherits(done, ms) /\ Carries(done, ms)
  <2> HIDE DEF completed, failed, stopped
  <2>1. ms # <<>> /\ Last(ms).from = "assistant" =>
          IsMessage(m) /\ m.req = Last(ms).req /\ ~IsPending(m) /\ m.done = Last(ms).done
    BY <1>1, <1>2 DEF SameReply
  <2>2. ASSUME NEW others, ms # <<>>, Last(ms).from = "assistant", Owned(ms, others)
        PROVE  Owns(m, others)
    BY <1>1, <1>2, <2>2, LastMessage DEF SameReply, Owns
  <2> QED BY <2>1, <2>2, UpdateLastKeeps DEF Inherits
<1> QED BY <1>2 DEF CompleteLast, WithError, Stopped

\* [DONE] is noted in the last reply.
LEMMA ReadToEndKeeps ==
  ASSUME NEW ms, IsChat(ms), Settled(ms)
  PROVE  LET read == ReadToEnd(ms) IN IsChat(read) /\ Settled(read) /\ Inherits(read, ms)
<1> DEFINE m == [Last(ms) EXCEPT !.done = TRUE]
<1>1. ReadToEnd(ms) = UpdateLastAssistantMessage(ms, m) BY DEF ReadToEnd
<1>2. ASSUME ms # <<>>
      PROVE  /\ IsMessage(m) /\ m.req = Last(ms).req /\ m.srcs = Last(ms).srcs
             /\ m.status = Last(ms).status
  <2>1. IsMessage(Last(ms)) BY <1>2, LastMessage
  <2> QED BY <2>1 DEF IsMessage, Fields
<1>3. ASSUME ms # <<>> PROVE ~IsPending(m)
  <2>1. Len(ms) \in 1..Len(ms) BY <1>3, LastMessage
  <2>2. ~IsPending(Last(ms)) BY <2>1 DEF Settled, Last
  <2> QED BY <1>2, <1>3, <2>2 DEF IsPending
<1>4. ASSUME NEW others, ms # <<>>, Owned(ms, others) PROVE Owns(m, others)
  <2>1. Owns(Last(ms), others) BY <1>4, LastMessage
  <2> QED BY <1>2, <1>4, <2>1 DEF Owns
<1> HIDE DEF m
<1> QED BY <1>1, <1>2, <1>3, <1>4, UpdateLastKeeps DEF Inherits

\* The answer of a plain request settles the last reply, and names its request.
LEMMA ResponseSettles ==
  ASSUME NEW ms, IsChat(ms), NEW r
  PROVE  LET answered == WithResponse(ms, r) IN
         /\ IsChat(answered) /\ Settled(answered)
         /\ ms # <<>> => answered # <<>> /\ Last(answered).req = Last(ms).req
         /\ \A others : Owned(ms, others) /\ Fits(ms, {r}, others) => Owned(answered, others)
         /\ Carries(answered, ms)
<1> DEFINE l == [Last(ms) EXCEPT !.content = ResponseText(r, "content")]
<1> DEFINE f == FinalizeMessage(l, ResponseText(r, "reasoning"))
<1> DEFINE m == [f EXCEPT !.status = "complete", !.srcs = @ \cup {r}]
<1>1. WithResponse(ms, r) = UpdateLastAssistantMessage(ms, m)
  BY DEF WithResponse
<1>2. ASSUME ms # <<>>, Last(ms).from = "assistant"
      PROVE  /\ IsMessage(m) /\ m.req = Last(ms).req /\ ~IsPending(m)
             /\ m.srcs = Last(ms).srcs \cup {r} /\ m.done = Last(ms).done
  <2>1. IsMessage(Last(ms)) BY <1>2, LastMessage
  <2>2. SameReply(Last(ms), l) BY <2>1 DEF SameReply, IsMessage, Fields
  <2> HIDE DEF l
  <2>3. SameReply(l, f) BY <2>2, FinalizeMessageKeeps DEF SameReply
  <2> HIDE DEF f
  <2> QED BY <1>2, <2>2, <2>3 DEF SameReply, IsMessage, Fields, IsPending
<1>3. ASSUME NEW others, ms # <<>>, Last(ms).from = "assistant", Owned(ms, others),
             Fits(ms, {r}, others)
      PROVE  Owns(m, others)
  <2>1. Owns(Last(ms), others) BY <1>3, LastMessage
  <2> QED BY <1>2, <1>3, <2>1 DEF Owns, Fits
<1> HIDE DEF m
<1> DEFINE new == UpdateLastAssistantMessage(ms, m)
<1>4. /\ IsChat(new) /\ Settled(new) /\ Carries(new, ms)
      /\ ms # <<>> => new # <<>> /\ Last(new).req = Last(ms).req
  BY <1>2, UpdateLastKeeps
<1>5. ASSUME NEW others, Owned(ms, others), Fits(ms, {r}, others) PROVE Owned(new, others)
  BY <1>2, <1>3, <1>5, UpdateLastKeeps
<1> HIDE DEF new
<1> QED BY <1>1, <1>4, <1>5 DEF new

-----------------------------------------------------------------------------
(* What is stored, and loaded                                              *)

\* A set of natural numbers has a least element.
LEMMA LeastNumber ==
  ASSUME NEW T \in SUBSET Nat, T # {}
  PROVE  \E x \in T : \A y \in T : x <= y
<1> DEFINE U == {0..n : n \in T}
<1>1. U \subseteq FiniteSubsetsOf(Nat)
  <2>1. ASSUME NEW n \in T PROVE 0..n \in FiniteSubsetsOf(Nat)
    BY FS_Interval DEF FiniteSubsetsOf
  <2> QED BY <2>1
<1>2. U # {} OBVIOUS
<1>3. PICK u \in U : \A y \in U : ~ (<<y, u>> \in StrictSubsetOrdering(Nat))
  <2> HIDE DEF U
  <2> QED BY <1>1, <1>2, WFMin, FS_StrictSubsetOrderingWellFounded
<1>4. PICK n \in T : u = 0..n OBVIOUS
<1>5. ASSUME NEW m \in T, m < n PROVE FALSE
  <2>1. <<0..m, u>> \in StrictSubsetOrdering(Nat)
    BY <1>4, <1>5 DEF StrictSubsetOrdering
  <2> QED BY <1>3, <2>1
<1> QED BY <1>5

\* What holds of 0, and of each number if of the one before, holds of all up to n.
LEMMA UpTo ==
  ASSUME NEW n \in Nat, NEW T \in SUBSET Nat, 0 \in T,
         \A i \in 1..n : i - 1 \in T => i \in T
  PROVE  0..n \subseteq T
<1> DEFINE Bad == (0..n) \ T
<1>1. CASE Bad # {}
  <2>1. Bad \in SUBSET Nat OBVIOUS
  <2>2. PICK k \in Bad : \A y \in Bad : k <= y
    <3> HIDE DEF Bad
    <3> QED BY <1>1, <2>1, LeastNumber
  <2>3. k \in 1..n /\ k - 1 \in 0..n /\ ~(k <= k - 1) /\ k \notin T
    BY <2>2
  <2>4. k - 1 \notin Bad
    <3> HIDE DEF Bad
    <3> QED BY <2>2, <2>3
  <2> QED BY <2>3, <2>4
<1> QED BY <1>1

Solves(w, n, S, e, F) ==
  w \in [0..n -> S] /\ w[0] = e /\ \A i \in 1..n : w[i] = F[<<i, w[i - 1]>>]

\* A recursion of a given step has a solution.
LEMMA RecursionExists ==
  ASSUME NEW n \in Nat, NEW S, NEW e \in S, NEW F \in [(1..n) \X S -> S]
  PROVE  \E w : Solves(w, n, S, e, F)
<1> DEFINE T == {k \in Nat : k <= n => \E w \in [0..k -> S] :
                   w[0] = e /\ \A i \in 1..k : w[i] = F[<<i, w[i - 1]>>]}
<1>1. 0 \in T
  <2> DEFINE w == [i \in 0..0 |-> e]
  <2>1. w \in [0..0 -> S] /\ w[0] = e /\ \A i \in 1..0 : w[i] = F[<<i, w[i - 1]>>]
    OBVIOUS
  <2> QED BY <2>1
<1>2. ASSUME NEW k \in 1..n, k - 1 \in T PROVE k \in T
  <2>1. PICK v \in [0..(k - 1) -> S] :
          v[0] = e /\ \A i \in 1..(k - 1) : v[i] = F[<<i, v[i - 1]>>]
    BY <1>2
  <2> DEFINE w == [i \in 0..k |-> IF i = k THEN F[<<k, v[k - 1]>>] ELSE v[i]]
  <2>2. k - 1 \in 0..(k - 1) /\ \A i \in 0..k : i # k => i \in 0..(k - 1)
    OBVIOUS
  <2>3. v[k - 1] \in S BY <2>2
  <2>4. w \in [0..k -> S]
    BY <2>2, <2>3
  <2>5. w[0] = e
    BY <2>1, <2>2
  <2>6. ASSUME NEW i \in 1..k PROVE w[i] = F[<<i, w[i - 1]>>]
    <3>1. i - 1 \in 0..k /\ i - 1 # k /\ w[i - 1] = v[i - 1] BY <2>2
    <3>2. CASE i = k BY <3>1, <3>2
    <3>3. CASE i # k
      <4>1. i \in 1..(k - 1) BY <3>3
      <4> QED BY <2>1, <3>1, <3>3, <4>1
    <3> QED BY <3>2, <3>3
  <2> HIDE DEF w
  <2> QED BY <2>4, <2>5, <2>6
<1>3. 0..n \subseteq T
  <2> HIDE DEF T
  <2> QED BY <1>1, <1>2, UpTo DEF T
<1>4. n \in T BY <1>3
<1> QED BY <1>4 DEF Solves

\* trimMessages keeps the latest messages, at most MaxStored of them.
LEMMA TrimKeeps ==
  ASSUME NEW ms, IsChat(ms)
  PROVE  LET kept == TrimMessages(ms) IN
         /\ IsChat(kept) /\ Len(kept) <= MaxStored
         /\ Settled(ms) => Settled(kept)
         /\ Inherits(kept, ms)
<1>1. Len(ms) \in Nat /\ MaxStored \in Nat /\ MaxStored > 0
  BY ChatLength, PlaygroundAssumption
<1>2. CASE Len(ms) <= MaxStored
  BY <1>2 DEF TrimMessages, Inherits
<1>3. CASE ~(Len(ms) <= MaxStored)
  <2> DEFINE k == Len(ms) - MaxStored + 1
  <2> DEFINE kept == SubSeq(ms, k, Len(ms))
  <2>1. k \in 1..Len(ms) /\ Len(ms) - k + 1 = MaxStored
    BY <1>1, <1>3
  <2>2. TrimMessages(ms) = kept
    BY <1>3 DEF TrimMessages
  <2>3. /\ IsChat(kept) /\ Len(kept) = Len(ms) - k + 1
        /\ Settled(ms) => Settled(kept)
        /\ Inherits(kept, ms)
    <3> HIDE DEF k
    <3> QED BY <2>1, ChatSuffix
  <2>4. Len(kept) = MaxStored
    <3> HIDE DEF k, kept
    <3> QED BY <2>1, <2>3
  <2> HIDE DEF kept
  <2> QED BY <1>1, <2>2, <2>3, <2>4
<1> QED BY <1>2, <1>3

\* trimMessagesByContentSize keeps the latest messages.
LEMMA TrimBySizeKeeps ==
  ASSUME NEW ms, IsChat(ms)
  PROVE  LET kept == TrimMessagesByContentSize(ms) IN
         /\ IsChat(kept)
         /\ Settled(ms) => Settled(kept)
         /\ Inherits(kept, ms)
<1> DEFINE fits == {i \in 1..Len(ms) : i = Len(ms) \/ SizeFrom(ms, i) <= MaxLoadedSize}
<1> DEFINE first == CHOOSE i \in fits : \A j \in fits : i <= j
<1>1. CASE ms = <<>>
  BY <1>1 DEF TrimMessagesByContentSize, Inherits
<1>2. CASE ms # <<>>
  <2>1. Len(ms) \in fits /\ fits \in SUBSET Nat
    BY <1>2, LastMessage, ChatLength
  <2>2. first \in 1..Len(ms)
    <3>1. \E i \in fits : \A j \in fits : i <= j
      <4> HIDE DEF fits
      <4> QED BY <2>1, LeastNumber
    <3>2. first \in fits
      <4> HIDE DEF fits
      <4> QED BY <3>1
    <3> HIDE DEF first
    <3> QED BY <3>2
  <2>3. TrimMessagesByContentSize(ms) = SubSeq(ms, first, Len(ms))
    BY <1>2 DEF TrimMessagesByContentSize
  <2> HIDE DEF first
  <2> QED BY <2>2, <2>3, ChatSuffix
<1> QED BY <1>1, <1>2

\* sanitizeMessagesOnLoad settles a conversation: only its last message can be stuck.
LEMMA SanitizeSettles ==
  ASSUME NEW ms, IsChat(ms)
  PROVE  LET shown == SanitizeMessagesOnLoad(ms) IN
         IsChat(shown) /\ Settled(shown) /\ Inherits(shown, ms)
<1> DEFINE stuck == {i \in 1..Len(ms) : ms[i].from = "assistant" /\ IsPending(ms[i])}
<1> DEFINE last == CHOOSE i \in stuck : \A j \in stuck : j <= i
<1>1. CASE stuck = {}
  <2>1. SanitizeMessagesOnLoad(ms) = ms
    BY <1>1 DEF SanitizeMessagesOnLoad
  <2>2. Settled(ms)
    BY <1>1, PendingIsAssistant DEF IsChat, Settled
  <2> QED BY <2>1, <2>2 DEF Inherits
<1>2. CASE stuck # {}
  <2>1. Len(ms) \in Nat /\ DOMAIN ms = 1..Len(ms)
    BY ChatLength
  <2>2. stuck = {Len(ms)}
    BY <1>2 DEF IsChat
  <2>3. last = Len(ms)
    <3> HIDE DEF stuck
    <3> QED BY <2>1, <2>2
  <2>4. Len(ms) \in 1..Len(ms) /\ IsMessage(ms[Len(ms)]) /\ ms[Len(ms)].from = "assistant"
    <3>1. Len(ms) \in stuck BY <2>2
    <3> QED BY <3>1 DEF IsChat
  <2> DEFINE n == Sanitized(ms[Len(ms)])
  <2>5. SanitizeMessagesOnLoad(ms) = [ms EXCEPT ![Len(ms)] = n]
    <3>1. SanitizeMessagesOnLoad(ms) = [ms EXCEPT ![last] = Sanitized(ms[last])]
      BY <1>2 DEF SanitizeMessagesOnLoad
    <3> HIDE DEF last
    <3> QED BY <2>3, <3>1
  <2>6. SameReply(ms[Len(ms)], n) /\ ~IsPending(n)
    BY <2>4, SanitizedKeeps
  <2>7. IsMessage(n) /\ (\A others : Owned(ms, others) => Owns(n, others))
    BY <2>4, <2>6 DEF SameReply, Owned, Owns
  <2> HIDE DEF n
  <2> DEFINE changed == [ms EXCEPT ![Len(ms)] = n]
  <2>8. IsChat(changed) /\ Settled(changed) /\ InheritsWith(changed, ms, n)
    BY <2>4, <2>6, <2>7, ChatExcept
  <2> HIDE DEF changed
  <2> QED BY <2>5, <2>7, <2>8 DEF changed, Inherits, InheritsWith
<1> QED BY <1>1, <1>2

\* What is loaded is settled, whatever was being generated when it was stored.
LEMMA LoadedIsSettled ==
  ASSUME IsChat(stored)
  PROVE  IsChat(LoadMessages) /\ Settled(LoadMessages) /\ Inherits(LoadMessages, stored)
<1> DEFINE normal == [i \in 1..Len(stored) |-> NormalizeStored(stored[i])]
<1>1. Len(stored) \in Nat
  BY ChatLength
<1>2. normal \in Seq({normal[i] : i \in DOMAIN normal}) /\ Len(normal) = Len(stored)
  BY <1>1
<1>3. \A i \in 1..Len(stored) : /\ normal[i] = NormalizeStored(stored[i])
                                /\ SameReply(stored[i], normal[i])
                                /\ IsPending(normal[i]) => IsPending(stored[i])
  BY NormalizeKeeps DEF IsChat
<1> HIDE DEF normal
<1>4. IsChat(normal)
  BY <1>2, <1>3 DEF IsChat, SameReply
<1>5. Inherits(normal, stored)
  BY <1>2, <1>3 DEF Owned, Owns, SameReply, Inherits
<1>6. LoadMessages = <<>> \/ LoadMessages
        = SanitizeMessagesOnLoad(TrimMessagesByContentSize(TrimMessages(normal)))
  BY DEF LoadMessages, normal
<1>7. LET trimmed == TrimMessagesByContentSize(TrimMessages(normal)) IN
      IsChat(trimmed) /\ Inherits(trimmed, normal)
  BY <1>4, TrimKeeps, TrimBySizeKeeps DEF Inherits
<1> QED BY <1>5, <1>6, <1>7, SanitizeSettles, NoMessages DEF Inherits

-----------------------------------------------------------------------------
(* Which connection stands behind the page                                 *)

LEMMA SendWires ==
  ASSUME Wired, mounted, UNCHANGED <<stream, mounted>>, NEW ms, NEW key, SendChat(ms, key)
  PROVE  Wired'
<1> DEFINE r == count + 1
<1>0. count \in Nat BY DEF Wired
<1>1. r \in Requests /\ r # 0 /\ count' = r /\ count' \in Nat /\ requesting' = TRUE
  BY PlaygroundAssumption DEF Wired, SendChat, Requests
<1>2. CASE stream
  <2>1. /\ source' = r /\ streaming' = TRUE /\ UNCHANGED <<lastId, controller>>
        /\ conn' = [i \in Requests |-> CASE i = r -> "open"
                                         [] i = source /\ i # r -> "closed"
                                         [] OTHER -> conn[i]]
    BY <1>2 DEF SendChat, SendStreamRequest
  <2> HIDE DEF r
  <2>2. conn' \in [Requests -> Connections] /\ conn'[r] = "open"
    BY <1>1, <2>1 DEF Wired, Connections
  <2>3. ASSUME NEW i \in Requests PROVE conn'[i] # "flight" /\ (conn'[i] = "open" => i = r)
    <3>1. CASE i = r BY <1>1, <2>1, <3>1
    <3>2. CASE i = source /\ i # r BY <2>1, <3>2
    <3>3. CASE i # source /\ i # r
      <4>1. conn'[i] = conn[i] BY <2>1, <3>3
      <4> QED BY <1>2, <3>3, <4>1 DEF Wired
    <3> QED BY <3>1, <3>2, <3>3
  <2>4. ASSUME NEW i \in Requests, i > r PROVE conn'[i] = "idle"
    <3>1. i > count /\ i # r BY <1>0, <2>4 DEF r, Requests
    <3>2. i # source BY <1>2, <3>1 DEF Wired
    <3> QED BY <2>1, <3>1, <3>2 DEF Wired
  <2> QED BY <1>1, <1>2, <2>1, <2>2, <2>3, <2>4 DEF Wired, Ends
<1>3. CASE ~stream
  <2>1. /\ conn' = [conn EXCEPT ![r] = "flight"] /\ lastId' = r /\ controller' = r
        /\ UNCHANGED <<source, streaming>>
    BY <1>3 DEF SendChat, SendNonStreamingChat
  <2>2. ASSUME NEW i \in Requests, i > r PROVE conn'[i] = "idle"
    <3>1. i > count /\ i # r BY <1>0, <2>2 DEF r, Requests
    <3> HIDE DEF r
    <3> QED BY <2>1, <3>1 DEF Wired
  <2> HIDE DEF r
  <2> QED BY <1>1, <1>3, <2>1, <2>2 DEF Wired, Ends, Connections
<1>4. stream \in BOOLEAN BY DEF Wired
<1> QED BY <1>2, <1>3, <1>4

LEMMA WiredStep ==
  ASSUME Wired, Parted, [Next]_vars
  PROVE  Wired'
<1>1. CASE UNCHANGED <<stream, mounted, streaming, requesting, source, lastId, controller,
                       conn, count>>
  BY <1>1 DEF Wired
<1>2. CASE UserStep
  <2>1. CASE HandleSendMessage
    BY <2>1, SendWires DEF HandleSendMessage
  <2>2. ASSUME NEW i \in DOMAIN messages, HandleRegenerateMessage(i) PROVE Wired'
    BY <2>2, SendWires DEF HandleRegenerateMessage
  <2>3. ASSUME NEW i \in DOMAIN messages, HandleEditMessage(i) PROVE Wired'
    BY <1>1, <2>3 DEF HandleEditMessage, chat
  <2>4. ASSUME NEW i \in DOMAIN messages, HandleDeleteMessage(i) PROVE Wired'
    BY <1>1, <2>4 DEF HandleDeleteMessage
  <2>5. ASSUME NEW i \in DOMAIN messages, NEW shouldSubmit \in BOOLEAN, ApplyEdit(i, shouldSubmit)
        PROVE  Wired'
    BY <1>1, <2>5, SendWires DEF ApplyEdit
  <2>6. CASE CancelEdit
    BY <1>1, <2>6 DEF CancelEdit, chat
  <2>7. CASE HandleClearMessages
    BY <1>1, <2>7 DEF HandleClearMessages
  <2>8. CASE StopGeneration
    <3>1. /\ source' = 0 /\ controller' = 0 /\ ~streaming' /\ ~requesting'
          /\ streaming' \in BOOLEAN /\ requesting' \in BOOLEAN
          /\ UNCHANGED <<stream, mounted, lastId, count>>
          /\ conn' = [i \in Requests |-> IF i \in {source, controller} THEN "closed" ELSE conn[i]]
      BY <2>8 DEF StopGeneration
    <3>2. conn' \in [Requests -> Connections]
      BY <3>1 DEF Wired, Connections
    <3>3. ASSUME NEW i \in Requests
          PROVE  /\ conn'[i] # "open" /\ (conn'[i] = "flight" => conn[i] = "flight")
                 /\ i > count => conn'[i] = "idle"
      <4>1. i > count => i \notin {source, controller}
        <5>1. conn[i] = "idle" => i # source BY DEF Wired, Requests
        <5>2. conn[i] = "idle" => i # controller
          BY <2>8 DEF StopGeneration, Wired, Generating, Requests
        <5> QED BY <5>1, <5>2 DEF Wired
      <4> QED BY <3>1, <4>1 DEF Wired
    <3> QED BY <3>1, <3>2, <3>3 DEF Wired, Ends
  <2> QED BY <1>2, <2>1, <2>2, <2>3, <2>4, <2>5, <2>6, <2>7, <2>8 DEF UserStep
<1>3. ASSUME NEW r \in Requests, Receive(r) \/ StreamCut(r) PROVE Wired'
  <2>1. CASE ReceiveChunk(r)
    BY <1>1, <2>1 DEF ReceiveChunk
  <2>2. CASE StreamDone(r)
    BY <2>2 DEF StreamDone, CloseActiveStream, Wired, Ends, Connections, Requests
  <2>3. CASE StreamError(r)
    BY <2>3 DEF StreamError, CloseActiveStream, Wired, Ends, Connections, Requests
  <2>4. CASE ReceiveResponse(r)
    BY <2>4 DEF ReceiveResponse, FinishRequest, Wired, Ends, Connections, Requests
  <2>5. CASE ReceiveFailure(r)
    BY <2>5 DEF ReceiveFailure, FinishRequest, Wired, Ends, Connections, Requests
  <2>6. CASE StreamCut(r)
    BY <2>6 DEF StreamCut, Wired, Ends, Connections, Requests
  <2> QED BY <1>3, <2>1, <2>2, <2>3, <2>4, <2>5, <2>6 DEF Receive
<1>4. CASE FlushStreamUpdates
  BY <1>1, <1>4 DEF FlushStreamUpdates
<1>5. CASE SaveMessages
  BY <1>1, <1>5 DEF SaveMessages
<1>6. ASSUME NEW cleanly \in BOOLEAN, Leave(cleanly) PROVE Wired'
  BY <1>6 DEF Leave, Wired, Ends, Connections
<1>7. CASE Mount
  BY <1>7 DEF Mount, Wired
<1>8. ASSUME NEW p \in left, LateSave(p) PROVE Wired'
  <2>1. /\ UNCHANGED <<stream, mounted, streaming, requesting, source, lastId, controller, count>>
        /\ conn' = [i \in Requests |-> IF i \in p.reqs THEN "closed" ELSE conn[i]]
    BY <1>8 DEF LateSave
  <2>2. \A i \in p.reqs : i \in Requests /\ conn[i] \in {"left", "closed"}
    BY DEF Parted, IsPage
  <2>3. conn' \in [Requests -> Connections]
    BY <2>1 DEF Wired, Connections
  <2>4. ASSUME NEW i \in Requests
        PROVE  \/ conn'[i] = conn[i]
               \/ conn'[i] = "closed" /\ conn[i] \in {"left", "closed"}
    BY <2>1, <2>2
  <2>5. source # 0 => source \in Requests BY DEF Wired, Ends
  <2>6. controller # 0 => controller \in Requests BY DEF Wired, Ends
  <2> QED BY <2>1, <2>3, <2>4, <2>5, <2>6 DEF Wired
<1>9. ASSUME NEW p \in left, NEW r \in p.reqs, LateChunk(p, r) PROVE Wired'
  BY <1>1, <1>9 DEF LateChunk
<1>10. CASE UNCHANGED vars
  BY <1>1, <1>10 DEF vars, chat
<1> QED BY <1>2, <1>3, <1>4, <1>5, <1>6, <1>7, <1>8, <1>9, <1>10 DEF Next

-----------------------------------------------------------------------------
(* What waits for the flush timer                                          *)

LEMMA SendBuffers ==
  ASSUME Wired, Buffered, UNCHANGED stream, NEW ms, NEW key, SendChat(ms, key)
  PROVE  Buffered'
<1>1. streaming => streaming'
  BY DEF SendChat, SendStreamRequest, SendNonStreamingChat, Wired
<1> QED BY <1>1 DEF SendChat, Buffered

LEMMA NothingBuffered ==
  ASSUME NothingPending, UNCHANGED <<script, pos>>, Buffered
  PROVE  Buffered'
<1>1. NoText \in [Kinds -> Seq(STRING)]
  BY DEF NoText
<1> QED BY <1>1 DEF NothingPending, Buffered

\* A chunk has some text, and so has what it is merged into.
LEMMA ChunkBuffers ==
  ASSUME Wired, Buffered, NEW r \in Requests, ReceiveChunk(r)
  PROVE  Buffered'
<1> DEFINE chunk == script[r][pos[r] + 1]
<1> DEFINE merged == MergePendingStreamChunk(pending[chunk.type], chunk.text)
<1>1. pos[r] \in Nat /\ pos[r] < Len(script[r]) /\ script \in Answers
  BY DEF Buffered, ReceiveChunk
<1>2. chunk \in [type : Kinds, text : Seq(STRING) \ {<<>>}]
  <2> DEFINE Chunk == [type : {"content", "reasoning"}, text : Seq(STRING) \ {<<>>}]
  <2>1. script[r] \in Seq(Chunk) BY <1>1, PlaygroundAssumption
  <2> HIDE DEF Chunk
  <2>2. pos[r] + 1 \in 1..Len(script[r]) BY <1>1, <2>1, LenProperties
  <2>3. chunk \in Chunk BY <2>1, <2>2, ElementOfSeq
  <2> QED BY <2>3 DEF Chunk, Kinds
<1>3. pending' = [pending EXCEPT ![chunk.type] = merged]
  BY <1>2 DEF ReceiveChunk, MergeNext, Buffered
<1> HIDE DEF chunk
<1>4. chunk.type \in Kinds /\ chunk.text \in Seq(STRING) /\ chunk.text # <<>>
  BY <1>2
<1>5. merged \in Seq(STRING) /\ merged # <<>>
  <2>1. pending[chunk.type] \in Seq(STRING)
    BY <1>4 DEF Buffered
  <2>2. merged = chunk.text \/ merged = pending[chunk.type] \o chunk.text
    BY DEF MergePendingStreamChunk
  <2>3. ASSUME NEW a \in Seq(STRING), NEW b \in Seq(STRING), b # <<>>
        PROVE  a \o b \in Seq(STRING) /\ a \o b # <<>>
    <3>1. a \o b \in Seq(STRING) BY ConcatProperties
    <3>2. a \o b # <<>> BY <2>3, ConcatEqualIffEmpty
    <3> QED BY <3>1, <3>2
  <2> HIDE DEF merged
  <2> QED BY <1>4, <2>1, <2>2, <2>3
<1> HIDE DEF merged
<1>6. pending' \in [Kinds -> Seq(STRING)] /\ pending'[chunk.type] # <<>>
  BY <1>3, <1>4, <1>5 DEF Buffered
<1>7. pending' # NoText
  BY <1>4, <1>6 DEF NoText
<1>8. streaming' /\ streaming' = streaming
  BY DEF ReceiveChunk, Wired, Requests
<1>9. /\ pendingFrom' = pendingFrom \cup {r} /\ flushTimer' = TRUE /\ script' = script
      /\ pos' = [pos EXCEPT ![r] = pos[r] + 1]
  BY DEF ReceiveChunk, Buffered
<1>10. pos' \in [Requests -> Nat]
  BY <1>1, <1>9 DEF Buffered
<1> QED BY <1>6, <1>7, <1>8, <1>9, <1>10 DEF Buffered

LEMMA BufferedStep ==
  ASSUME Wired, Buffered, Parted, [Next]_vars
  PROVE  Buffered'
<1>1. CASE UNCHANGED <<streaming, flushTimer, script, pos, pending, pendingFrom>>
  BY <1>1 DEF Buffered
<1>2. CASE UserStep
  <2>1. CASE HandleSendMessage
    BY <2>1, SendBuffers DEF HandleSendMessage
  <2>2. ASSUME NEW i \in DOMAIN messages, HandleRegenerateMessage(i) PROVE Buffered'
    BY <2>2, SendBuffers DEF HandleRegenerateMessage
  <2>3. ASSUME NEW i \in DOMAIN messages, HandleEditMessage(i) PROVE Buffered'
    BY <1>1, <2>3 DEF HandleEditMessage, chat
  <2>4. ASSUME NEW i \in DOMAIN messages, HandleDeleteMessage(i) PROVE Buffered'
    BY <1>1, <2>4 DEF HandleDeleteMessage
  <2>5. ASSUME NEW i \in DOMAIN messages, NEW shouldSubmit \in BOOLEAN, ApplyEdit(i, shouldSubmit)
        PROVE  Buffered'
    BY <1>1, <2>5, SendBuffers DEF ApplyEdit
  <2>6. CASE CancelEdit
    BY <1>1, <2>6 DEF CancelEdit, chat
  <2>7. CASE HandleClearMessages
    BY <1>1, <2>7 DEF HandleClearMessages
  <2>8. CASE StopGeneration
    BY <2>8, NothingBuffered DEF StopGeneration
  <2> QED BY <1>2, <2>1, <2>2, <2>3, <2>4, <2>5, <2>6, <2>7, <2>8 DEF UserStep
<1>3. ASSUME NEW r \in Requests, Receive(r) \/ StreamCut(r) PROVE Buffered'
  <2>1. CASE ReceiveChunk(r)
    BY <2>1, ChunkBuffers
  <2>2. CASE StreamDone(r)
    BY <2>2, NothingBuffered DEF StreamDone
  <2>3. CASE StreamError(r)
    BY <2>3, NothingBuffered DEF StreamError
  <2>4. CASE ReceiveResponse(r)
    BY <1>1, <2>4 DEF ReceiveResponse
  <2>5. CASE ReceiveFailure(r)
    BY <2>5, NothingBuffered DEF ReceiveFailure
  <2>6. CASE StreamCut(r)
    BY <1>1, <2>6 DEF StreamCut
  <2> QED BY <1>3, <2>1, <2>2, <2>3, <2>4, <2>5, <2>6 DEF Receive
<1>4. CASE FlushStreamUpdates
  BY <1>4, NothingBuffered DEF FlushStreamUpdates
<1>5. CASE SaveMessages
  BY <1>1, <1>5 DEF SaveMessages
<1>6. ASSUME NEW cleanly \in BOOLEAN, Leave(cleanly) PROVE Buffered'
  BY <1>6, NothingBuffered DEF Leave
<1>7. CASE Mount
  BY <1>1, <1>7 DEF Mount
<1>8. ASSUME NEW p \in left, LateSave(p) PROVE Buffered'
  BY <1>1, <1>8 DEF LateSave
<1>9. ASSUME NEW p \in left, NEW r \in p.reqs, LateChunk(p, r) PROVE Buffered'
  <2>1. r \in Requests BY DEF Parted, IsPage
  <2>2. pos' \in [Requests -> Nat] BY <1>9, <2>1 DEF LateChunk, Buffered
  <2> QED BY <1>9, <2>2 DEF LateChunk, Buffered
<1>10. CASE UNCHANGED vars
  BY <1>1, <1>10 DEF vars, chat
<1> QED BY <1>2, <1>3, <1>4, <1>5, <1>6, <1>7, <1>8, <1>9, <1>10 DEF Next

-----------------------------------------------------------------------------
(* The conversation and its copy                                           *)

\* What a new request leaves of the conversation is settled.
LEMMA RegenerationKeeps ==
  ASSUME IsChat(messages), Settled(messages), NEW i \in DOMAIN messages
  PROVE  LET kept == KeptForRegeneration(i) IN
         IsChat(kept) /\ Settled(kept) /\ Inherits(kept, messages)
<1> DEFINE n == IF messages[i].from = "user" THEN i ELSE i - 1
<1>1. Len(messages) \in Nat /\ i \in 1..Len(messages)
  BY ChatLength
<1>2. n \in 0..Len(messages) /\ (n # 0 => n \in 1..Len(messages))
  BY <1>1
<1>3. KeptForRegeneration(i) = SubSeq(messages, 1, n)
  BY DEF KeptForRegeneration
<1> HIDE DEF n
<1>4. n # 0 => ~IsPending(messages[n])
  BY <1>2 DEF Settled
<1> QED BY <1>2, <1>3, <1>4, ChatPrefix

\* An edit keeps every status; what it submits ends with a message of the user.
LEMMA EditKeeps ==
  ASSUME IsChat(messages), NEW i \in DOMAIN messages
  PROVE  LET updated == [messages EXCEPT ![i] = Edited(messages[i])]
             kept    == SubSeq(updated, 1, i)
         IN  /\ IsChat(updated) /\ (Settled(messages) => Settled(updated))
             /\ Inherits(updated, messages)
             /\ messages[i].from = "user" =>
                  IsChat(kept) /\ Settled(kept) /\ Inherits(kept, messages)
             /\ updated # <<>>
             /\ \/ Last(updated) = Last(messages)
                \/ Last(updated).req = 0 /\ (IsPending(Last(messages)) => IsPending(Last(updated)))
<1> DEFINE m == Edited(messages[i])
<1> DEFINE updated == [messages EXCEPT ![i] = m]
<1>1. Len(messages) \in Nat /\ i \in 1..Len(messages) /\ i \in 0..Len(messages) /\ i # 0
  BY ChatLength
<1>2. IsMessage(messages[i]) /\ (IsPending(messages[i]) => i = Len(messages))
  BY <1>1 DEF IsChat
<1>3. /\ IsMessage(m) /\ m.from = messages[i].from /\ m.req = 0
      /\ \A others : Owns(m, others)
      /\ IsPending(m) <=> IsPending(messages[i])
  BY <1>2, EditedKeeps DEF IsPending
<1>4. Settled(messages) => ~IsPending(m)
  BY <1>1, <1>3 DEF Settled
<1> HIDE DEF m
<1>5. /\ IsChat(updated) /\ Len(updated) = Len(messages)
      /\ \A j \in 1..Len(messages) : updated[j] = IF j = i THEN m ELSE messages[j]
      /\ ~IsPending(m) /\ (Settled(messages) \/ i = Len(messages)) => Settled(updated)
      /\ InheritsWith(updated, messages, m)
  BY <1>1, <1>2, <1>3, ChatExcept
<1> HIDE DEF updated
<1>6. ASSUME messages[i].from = "user" PROVE ~IsPending(updated[i])
  BY <1>1, <1>3, <1>5, <1>6, PendingIsAssistant
<1>7. ASSUME messages[i].from = "user"
      PROVE  LET kept == SubSeq(updated, 1, i) IN
             IsChat(kept) /\ Settled(kept) /\ Inherits(kept, updated)
  <2>1. i \in 0..Len(updated) BY <1>1, <1>5
  <2> QED BY <1>5, <1>6, <1>7, <2>1, ChatPrefix
<1>8. Inherits(updated, messages)
  BY <1>3, <1>5 DEF Inherits, InheritsWith
<1>9. ASSUME messages[i].from = "user" PROVE Inherits(SubSeq(updated, 1, i), messages)
  BY <1>7, <1>8, <1>9 DEF Inherits
<1>10. updated # <<>>
  BY <1>1, <1>5, NoMessages
<1>11. Last(updated) = IF i = Len(messages) THEN m ELSE Last(messages)
  <2>1. Len(messages) \in 1..Len(messages) BY <1>1
  <2> QED BY <1>5, <2>1 DEF Last
<1>12. \/ Last(updated) = Last(messages)
       \/ Last(updated).req = 0 /\ (IsPending(Last(messages)) => IsPending(Last(updated)))
  <2>1. CASE i = Len(messages) BY <1>3, <1>11, <2>1 DEF Last
  <2>2. CASE i # Len(messages) BY <1>11, <2>2
  <2> QED BY <2>1, <2>2
<1> QED BY <1>4, <1>5, <1>7, <1>8, <1>9, <1>10, <1>12 DEF updated, m

\* setMessages schedules a save, so the copy may be behind.
LEMMA SetConverses ==
  ASSUME Conversed, mounted, UNCHANGED <<mounted, stored, behind>>, NEW ms, SetMessages(ms),
         IsChat(ms), Generating' \/ Settled(ms)
  PROVE  Conversed'
BY DEF Conversed, SetMessages, StoredFollows

LEMMA StayConverses ==
  ASSUME Conversed, UNCHANGED <<mounted, saveTimer, messages, stored, behind>>,
         Generating => Generating'
  PROVE  Conversed'
BY DEF Conversed, StoredFollows

LEMMA SendConverses ==
  ASSUME Conversed, mounted, UNCHANGED <<mounted, stored, behind>>, NEW ms, NEW key,
         SendChat(ms, key), IsChat(ms), Settled(ms)
  PROVE  Conversed'
<1> DEFINE reply == LoadingAssistant(key, count + 1)
<1>1. SetMessages(Append(ms, reply)) /\ requesting' = TRUE
  BY DEF SendChat
<1>2. IsMessage(reply) BY NewMessages
<1> HIDE DEF reply
<1>3. IsChat(Append(ms, reply)) BY <1>2, ChatAppend
<1>4. Generating' BY <1>1 DEF Generating
<1> QED BY <1>1, <1>3, <1>4, SetConverses

LEMMA EndConverses ==
  ASSUME Conversed, mounted, UNCHANGED <<mounted, stored, behind>>,
         \/ SetMessages(ReadToEnd(CompleteLast(Flushed))) \/ SetMessages(WithError(Flushed))
         \/ SetMessages(Stopped(Flushed))
  PROVE  Conversed'
<1>1. IsChat(Flushed) BY FlushedKeeps DEF Conversed
<1>2. \A done \in {CompleteLast(Flushed), WithError(Flushed), Stopped(Flushed)} :
        IsChat(done) /\ Settled(done)
  BY <1>1, EndsSettle
<1>3. IsChat(ReadToEnd(CompleteLast(Flushed))) /\ Settled(ReadToEnd(CompleteLast(Flushed)))
  BY <1>2, ReadToEndKeeps
<1> QED BY <1>2, <1>3, SetConverses

\* A late update keeps the conversation of an old page.
LEMMA LateUpdatesKeep ==
  ASSUME Parted, NEW p \in left, NEW ms \in LateUpdates(p)
  PROVE  /\ IsChat(ms)
         /\ \A others : Owned(p.messages, others) /\ Fits(p.messages, p.from \cup p.reqs, others)
                         => Owned(ms, others)
         /\ Carries(ms, p.messages)
<1>1. IsChat(p.messages) BY DEF Parted, IsPage
<1> DEFINE old == p.messages
<1>2. \/ ms = Flush(old, p.pending, p.from)
      \/ ms = WithError(old) \/ ms = CompleteLast(old)
      \/ \E r \in p.reqs : ms = WithResponse(old, r)
  BY DEF LateUpdates
<1> HIDE DEF old
<1>3. ASSUME NEW others, Fits(old, p.from \cup p.reqs, others)
      PROVE  Fits(old, p.from, others) /\ \A r \in p.reqs : Fits(old, {r}, others)
  BY <1>3 DEF Fits
<1>4. CASE ms = Flush(old, p.pending, p.from)
  BY <1>1, <1>3, <1>4, FlushKeeps DEF old
<1>5. CASE ms = WithError(old) \/ ms = CompleteLast(old)
  BY <1>1, <1>5, EndsSettle DEF old, Inherits
<1>6. ASSUME NEW r \in p.reqs, ms = WithResponse(old, r)
      PROVE  /\ IsChat(ms)
             /\ \A others : Owned(old, others) /\ Fits(old, p.from \cup p.reqs, others)
                             => Owned(ms, others)
             /\ Carries(ms, old)
  BY <1>1, <1>3, <1>6, ResponseSettles DEF old
<1> QED BY <1>2, <1>4, <1>5, <1>6 DEF old

\* A late chunk is held by the same page.
LEMMA LateChunkPage ==
  ASSUME NEW p, IsPage(p), NEW r, LateChunk(p, r)
  PROVE  \E n : /\ left' = (left \ {p}) \cup {n} /\ IsPage(n)
                /\ n.messages = p.messages /\ n.reqs = p.reqs /\ n.from = p.from \cup {r}
<1> DEFINE x == MergeNext(p.pending, r)
           y == p.from \cup {r}
           n == [p EXCEPT !.pending = x, !.from = y]
<1>1. left' = (left \ {p}) \cup {n}
  BY DEF LateChunk, IsPage, PageFields
<1> HIDE DEF x, y
<1>2. /\ n = [f \in PageFields |-> n[f]]
      /\ n.messages = p.messages /\ n.reqs = p.reqs /\ n.from = y
  BY DEF IsPage, PageFields
<1>3. IsPage(n)
  <2> HIDE DEF n
  <2> QED BY <1>2 DEF IsPage
<1> HIDE DEF n
<1> QED BY <1>1, <1>2, <1>3 DEF y

LEMMA ConversedStep ==
  ASSUME Wired, Buffered, Conversed, Parted, [Next]_vars
  PROVE  Conversed'
<1>1. IsChat(messages) /\ IsChat(stored) /\ DOMAIN messages = 1..Len(messages)
  BY ChatLength DEF Conversed
<1>2. ~Generating => Settled(messages)
  BY DEF Conversed
<1>3. CASE UserStep
  <2>1. CASE HandleSendMessage
    <3> DEFINE asked == Append(messages, UserMessage(keys + 1))
    <3>1. IsChat(asked) /\ Settled(asked)
      BY <1>1, <1>2, <2>1, NewMessages, ChatAppend DEF HandleSendMessage
    <3>2. mounted /\ UNCHANGED <<mounted, stored, behind>> /\ SendChat(asked, keys + 2)
      BY <2>1 DEF HandleSendMessage
    <3> HIDE DEF asked
    <3> QED BY <3>1, <3>2, SendConverses
  <2>2. ASSUME NEW i \in DOMAIN messages, HandleRegenerateMessage(i) PROVE Conversed'
    BY <1>1, <1>2, <2>2, RegenerationKeeps, SendConverses DEF HandleRegenerateMessage
  <2>3. ASSUME NEW i \in DOMAIN messages, HandleEditMessage(i) PROVE Conversed'
    BY <2>3, StayConverses DEF HandleEditMessage, chat, Generating
  <2>4. ASSUME NEW i \in DOMAIN messages, HandleDeleteMessage(i) PROVE Conversed'
    BY <1>1, <1>2, <2>4, ChatRemove, SetConverses DEF HandleDeleteMessage
  <2>5. ASSUME NEW i \in DOMAIN messages, NEW shouldSubmit \in BOOLEAN, ApplyEdit(i, shouldSubmit)
        PROVE  Conversed'
    <3> DEFINE updated == [messages EXCEPT ![i] = Edited(messages[i])]
    <3> DEFINE kept == SubSeq(updated, 1, i)
    <3>1. /\ IsChat(updated) /\ (Settled(messages) => Settled(updated))
          /\ messages[i].from = "user" => IsChat(kept) /\ Settled(kept)
      BY <1>1, EditKeeps
    <3>2. /\ mounted /\ UNCHANGED <<mounted, stored, behind>>
          /\ \/ SetMessages(updated) /\ UNCHANGED <<streaming, requesting>>
             \/ messages[i].from = "user" /\ SendChat(kept, keys + 1)
      BY <2>5 DEF ApplyEdit
    <3> HIDE DEF updated, kept
    <3>3. CASE SetMessages(updated) /\ UNCHANGED <<streaming, requesting>>
      <4>1. Generating' \/ Settled(updated) BY <1>2, <3>1, <3>3 DEF Generating
      <4> QED BY <3>1, <3>2, <3>3, <4>1, SetConverses
    <3>4. CASE messages[i].from = "user" /\ SendChat(kept, keys + 1)
      BY <3>1, <3>2, <3>4, SendConverses
    <3> QED BY <3>2, <3>3, <3>4
  <2>6. CASE CancelEdit
    BY <2>6, StayConverses DEF CancelEdit, chat, Generating
  <2>7. CASE HandleClearMessages
    BY <2>7, NoMessages, SetConverses DEF HandleClearMessages
  <2>8. CASE StopGeneration
    BY <2>8, EndConverses DEF StopGeneration
  <2> QED BY <1>3, <2>1, <2>2, <2>3, <2>4, <2>5, <2>6, <2>7, <2>8 DEF UserStep
<1>4. ASSUME NEW r \in Requests, Receive(r) \/ StreamCut(r) PROVE Conversed'
  <2>1. CASE ReceiveChunk(r)
    BY <2>1, StayConverses DEF ReceiveChunk, Generating
  <2>2. CASE StreamDone(r)
    BY <2>2, EndConverses DEF StreamDone
  <2>3. CASE StreamError(r)
    BY <2>3, EndConverses DEF StreamError
  <2>4. CASE ReceiveResponse(r)
    BY <1>1, <2>4, ResponseSettles, SetConverses DEF ReceiveResponse
  <2>5. CASE ReceiveFailure(r)
    BY <2>5, EndConverses DEF ReceiveFailure
  <2>6. CASE StreamCut(r)
    BY <2>6, StayConverses DEF StreamCut, Generating
  <2> QED BY <1>4, <2>1, <2>2, <2>3, <2>4, <2>5, <2>6 DEF Receive
<1>5. CASE FlushStreamUpdates
  <2>1. Generating'
    BY <1>5 DEF FlushStreamUpdates, Buffered, Generating
  <2> QED BY <1>1, <1>5, <2>1, FlushedKeeps, SetConverses DEF FlushStreamUpdates
<1>6. CASE SaveMessages
  <2>1. IsChat(TrimMessages(messages)) /\ Len(TrimMessages(messages)) <= MaxStored
    BY <1>1, TrimKeeps
  <2>2. /\ saveTimer' = FALSE /\ UNCHANGED <<mounted, messages, streaming, requesting>>
        /\ \/ stored' = TrimMessages(messages) /\ behind' = FALSE
           \/ stored' = stored /\ behind' = TRUE
    BY <1>6 DEF SaveMessages, Write
  <2>3. StoredFollows' /\ Generating' = Generating
    BY <2>2 DEF StoredFollows, Generating
  <2>4. mounted /\ mounted' BY <1>6, <2>2 DEF SaveMessages
  <2> QED BY <2>1, <2>2, <2>3, <2>4 DEF Conversed
<1>7. ASSUME NEW cleanly \in BOOLEAN, Leave(cleanly) PROVE Conversed'
  <2>1. IsChat(TrimMessages(messages)) /\ Len(TrimMessages(messages)) <= MaxStored
    BY <1>1, TrimKeeps
  <2>2. stored' = TrimMessages(messages) \/ stored' = stored
    BY <1>7 DEF Leave, Write
  <2>3. mounted' = FALSE /\ messages' = <<>> /\ saveTimer' = FALSE /\ behind' = FALSE
    BY <1>7 DEF Leave
  <2> QED BY <1>1, <2>1, <2>2, <2>3, NoMessages DEF Conversed, StoredFollows
<1>8. CASE Mount
  <2>1. IsChat(LoadMessages) /\ Settled(LoadMessages)
    BY <1>1, LoadedIsSettled
  <2>2. IsChat(TrimMessages(LoadMessages)) /\ Len(TrimMessages(LoadMessages)) <= MaxStored
    BY <2>1, TrimKeeps
  <2>3. TrimMessages(stored) = stored
    BY DEF TrimMessages, Conversed
  <2>4. \/ stored' = stored /\ stored = LoadMessages /\ behind' = FALSE
        \/ stored' = TrimMessages(LoadMessages) /\ behind' = FALSE
        \/ stored' = stored /\ behind' = TRUE
    BY <1>8 DEF Mount, Write
  <2>5. /\ mounted' = TRUE /\ messages' = LoadMessages /\ saveTimer' = saveTimer
        /\ behind' \in BOOLEAN /\ IsChat(stored') /\ Len(stored') <= MaxStored
    BY <1>8, <2>2, <2>4 DEF Mount, Conversed
  <2>6. StoredFollows'
    BY <2>3, <2>4, <2>5 DEF StoredFollows
  <2> QED BY <2>1, <2>5, <2>6 DEF Conversed
<1>9. ASSUME NEW p \in left, LateSave(p) PROVE Conversed'
  <2>1. PICK ms \in LateUpdates(p) : stored' = TrimMessages(ms)
    BY <1>9 DEF LateSave, Write
  <2>2. IsChat(ms) BY <2>1, LateUpdatesKeep
  <2>3. IsChat(stored') /\ Len(stored') <= MaxStored BY <2>1, <2>2, TrimKeeps
  <2>4. behind' = mounted /\ UNCHANGED <<mounted, saveTimer, messages, streaming, requesting>>
    BY <1>9 DEF LateSave
  <2> QED BY <2>3, <2>4 DEF Conversed, StoredFollows, Generating
<1>10. ASSUME NEW p \in left, NEW r \in p.reqs, LateChunk(p, r) PROVE Conversed'
  BY <1>10, StayConverses DEF LateChunk, Generating
<1>11. CASE UNCHANGED vars
  BY <1>11, StayConverses DEF vars, chat, Generating
<1> QED BY <1>3, <1>4, <1>5, <1>6, <1>7, <1>8, <1>9, <1>10, <1>11 DEF Next

-----------------------------------------------------------------------------
(* The pages that were left                                                *)

\* Nothing happens to the old pages, and their requests stay away.
LEMMA StayParted ==
  ASSUME Parted, UNCHANGED left,
         \A r \in Requests : conn[r] \in {"left", "closed"} => conn'[r] \in {"left", "closed"}
  PROVE  Parted'
BY DEF Parted, IsPage

LEMMA SendParts ==
  ASSUME Wired, Parted, UNCHANGED left, NEW ms, NEW key, SendChat(ms, key)
  PROVE  Parted'
<1>1. count \in Nat /\ count + 1 \in Requests
  BY PlaygroundAssumption DEF Wired, SendChat, Requests
<1>2. conn[count + 1] = "idle" BY <1>1 DEF Wired
<1>3. ASSUME NEW i \in Requests, conn[i] \in {"left", "closed"} PROVE conn'[i] \in {"left", "closed"}
  <2>1. i # count + 1 BY <1>2, <1>3
  <2>2. conn'[i] = conn[i] \/ conn'[i] = "closed"
    BY <1>1, <2>1 DEF SendChat, SendStreamRequest, SendNonStreamingChat, Wired
  <2> QED BY <1>3, <2>2
<1> QED BY <1>3, StayParted

LEMMA PartedStep ==
  ASSUME Wired, Conversed, Parted, [Next]_vars
  PROVE  Parted'
<1>1. CASE UNCHANGED <<left, conn>>
  BY <1>1, StayParted
<1>2. CASE UserStep
  <2>1. CASE HandleSendMessage
    BY <2>1, SendParts DEF HandleSendMessage
  <2>2. ASSUME NEW i \in DOMAIN messages, HandleRegenerateMessage(i) PROVE Parted'
    BY <2>2, SendParts DEF HandleRegenerateMessage
  <2>3. ASSUME NEW i \in DOMAIN messages, HandleEditMessage(i) PROVE Parted'
    BY <1>1, <2>3 DEF HandleEditMessage, chat
  <2>4. ASSUME NEW i \in DOMAIN messages, HandleDeleteMessage(i) PROVE Parted'
    BY <1>1, <2>4 DEF HandleDeleteMessage
  <2>5. ASSUME NEW i \in DOMAIN messages, NEW shouldSubmit \in BOOLEAN, ApplyEdit(i, shouldSubmit)
        PROVE  Parted'
    BY <1>1, <2>5, SendParts DEF ApplyEdit
  <2>6. CASE CancelEdit
    BY <1>1, <2>6 DEF CancelEdit, chat
  <2>7. CASE HandleClearMessages
    BY <1>1, <2>7 DEF HandleClearMessages
  <2>8. CASE StopGeneration
    BY <2>8, StayParted DEF StopGeneration
  <2> QED BY <1>2, <2>1, <2>2, <2>3, <2>4, <2>5, <2>6, <2>7, <2>8 DEF UserStep
<1>3. ASSUME NEW r \in Requests, Receive(r) \/ StreamCut(r) PROVE Parted'
  <2>1. CASE ReceiveChunk(r)
    BY <1>1, <2>1 DEF ReceiveChunk
  <2>2. CASE StreamDone(r)
    BY <2>2, StayParted DEF StreamDone, CloseActiveStream, Wired
  <2>3. CASE StreamError(r)
    BY <2>3, StayParted DEF StreamError, CloseActiveStream, Wired
  <2>4. CASE ReceiveResponse(r)
    BY <2>4, StayParted DEF ReceiveResponse, FinishRequest, Wired
  <2>5. CASE ReceiveFailure(r)
    BY <2>5, StayParted DEF ReceiveFailure, FinishRequest, Wired
  <2>6. CASE StreamCut(r)
    BY <2>6, StayParted DEF StreamCut, Wired
  <2> QED BY <1>3, <2>1, <2>2, <2>3, <2>4, <2>5, <2>6 DEF Receive
<1>4. CASE FlushStreamUpdates
  BY <1>1, <1>4 DEF FlushStreamUpdates
<1>5. CASE SaveMessages
  BY <1>1, <1>5 DEF SaveMessages
<1>6. ASSUME NEW cleanly \in BOOLEAN, Leave(cleanly) PROVE Parted'
  <2>1. left' \subseteq IF cleanly THEN left \cup {OldPage} ELSE {}
    BY <1>6 DEF Leave
  <2>2. IsPage(OldPage)
    BY DEF IsPage, PageFields, OldPage, Conversed
  <2>3. ASSUME NEW i \in Requests, cleanly,
               conn[i] \in {"open", "flight", "left", "closed"}
        PROVE  conn'[i] \in {"left", "closed"}
    BY <1>6, <2>3 DEF Leave
  <2>4. \A i \in OldPage.reqs : i \in Requests /\ conn[i] \in {"open", "flight"}
    BY DEF OldPage
  <2> QED BY <2>1, <2>2, <2>3, <2>4 DEF Parted, IsPage
<1>7. CASE Mount
  BY <1>1, <1>7 DEF Mount
<1>8. ASSUME NEW p \in left, LateSave(p) PROVE Parted'
  <2>1. left' \subseteq left /\ conn' = [i \in Requests |-> IF i \in p.reqs THEN "closed" ELSE conn[i]]
    BY <1>8 DEF LateSave
  <2> QED BY <2>1 DEF Parted, IsPage
<1>9. ASSUME NEW p \in left, NEW r \in p.reqs, LateChunk(p, r) PROVE Parted'
  <2>1. PICK n : /\ left' = (left \ {p}) \cup {n} /\ IsPage(n)
                 /\ n.messages = p.messages /\ n.reqs = p.reqs
    BY <1>9, LateChunkPage DEF Parted
  <2>2. UNCHANGED conn BY <1>9 DEF LateChunk
  <2> QED BY <2>1, <2>2 DEF Parted
<1>10. CASE UNCHANGED vars
  BY <1>1, <1>10 DEF vars, chat
<1> QED BY <1>2, <1>3, <1>4, <1>5, <1>6, <1>7, <1>8, <1>9, <1>10 DEF Next

-----------------------------------------------------------------------------
(* Whose answer a reply shows                                              *)

\* With more stray requests, a reply may show more.
LEMMA OwnedGrows ==
  ASSUME NEW ms, NEW fewer, NEW more, fewer \subseteq more
  PROVE  /\ Owned(ms, fewer) => Owned(ms, more)
         /\ \A from : Fits(ms, from, fewer) => Fits(ms, from, more)
BY DEF Owned, Owns, Fits

\* With nothing generated, no chunk is held and only stray requests can still answer.
LEMMA IdleAnswersNothing ==
  ASSUME IInv, Answered, ~Generating
  PROVE  source = 0 /\ pendingFrom = {} /\ \A r \in Requests : conn[r] = "flight" => r \in stray
BY DEF IInv, Wired, Buffered, Answered, Generating

\* The old pages and the copy stay what they are.
Apart == /\ Owned(stored, stray)
         /\ \A p \in left : /\ Owned(p.messages, stray)
                             /\ Fits(p.messages, p.from \cup p.reqs, stray)

LEMMA ApartStays ==
  ASSUME Apart, UNCHANGED <<stored, left>>, stray \subseteq stray'
  PROVE  Apart'
BY OwnedGrows DEF Apart

LEMMA SendAnswers ==
  ASSUME IInv, Answered, UNCHANGED <<stream, stored, left>>, NEW ms, NEW key,
         SendChat(ms, key), IsChat(ms), Settled(ms), Owned(ms, stray)
  PROVE  Answered'
<1> DEFINE r == count + 1
<1> DEFINE reply == LoadingAssistant(key, r)
<1>1. /\ messages' = Append(ms, reply) /\ requesting' = TRUE /\ UNCHANGED pendingFrom
      /\ IF stream THEN SendStreamRequest(r) ELSE SendNonStreamingChat(r)
      /\ stray' = stray \cup UnderWay
  BY DEF SendChat, SetMessages
<1>2. r \in Requests
  BY PlaygroundAssumption DEF IInv, Wired, SendChat, Requests
<1>3. pendingFrom \subseteq stray' /\ \A i \in Requests : conn[i] = "flight" => i \in stray'
  BY <1>1 DEF UnderWay
<1>4. IsMessage(reply) /\ Owns(reply, stray') /\ reply.req = r
  BY NewMessages
<1> HIDE DEF reply, r
<1>5. Owned(messages', stray') /\ messages' # <<>> /\ Last(messages').req = r
  <2>1. Owned(ms, stray') BY <1>1, OwnedGrows
  <2>2. InheritsWith(messages', ms, reply) /\ messages' # <<>> /\ Last(messages') = reply
    BY <1>1, <1>4, ChatAppend
  <2> QED BY <1>4, <2>1, <2>2 DEF InheritsWith
<1>6. Apart' BY <1>1, ApartStays DEF Answered, Apart
<1>7. CASE stream
  <2>1. source' = r /\ conn' = [i \in Requests |-> CASE i = r -> "open"
                                                     [] i = source /\ i # r -> "closed"
                                                     [] OTHER -> conn[i]]
    BY <1>1, <1>7 DEF SendStreamRequest
  <2>2. ASSUME NEW i \in Requests, conn'[i] = "flight" PROVE i \in stray'
    BY <1>3, <2>1, <2>2
  <2> QED BY <1>1, <1>3, <1>5, <1>6, <2>1, <2>2 DEF Answered, Apart
<1>8. CASE ~stream
  <2>1. source' = source /\ lastId' = r /\ conn' = [conn EXCEPT ![r] = "flight"]
    BY <1>1, <1>8 DEF SendNonStreamingChat
  <2>2. ASSUME NEW i \in Requests, conn'[i] = "flight" PROVE i = r \/ i \in stray'
    BY <1>3, <2>1, <2>2 DEF IInv, Wired
  <2>3. source' = 0 BY <1>8, <2>1 DEF IInv, Wired
  <2> QED BY <1>1, <1>3, <1>5, <1>6, <2>1, <2>2, <2>3 DEF Answered, Apart
<1> QED BY <1>7, <1>8

\* A change of the conversation while nothing is generated.
LEMMA IdleAnswers ==
  ASSUME IInv, Answered, ~Generating, Owned(messages', stray),
         UNCHANGED <<stored, left, stray, source, pendingFrom, conn>>
  PROVE  Answered'
<1>1. source = 0 /\ pendingFrom = {} /\ \A r \in Requests : conn[r] = "flight" => r \in stray
  BY IdleAnswersNothing
<1> QED BY <1>1 DEF Answered

\* What is held belongs to the last reply, or is stray.
LEMMA PendingFits ==
  ASSUME IInv, Answered
  PROVE  Fits(messages, pendingFrom, stray)
<1>1. ASSUME NEW r \in pendingFrom, messages # <<>>, Last(messages).req # 0
      PROVE  r \in {Last(messages).req} \cup stray
  <2>1. r \in Requests /\ r # 0 /\ (r = source \/ r \in stray)
    BY DEF IInv, Buffered, Answered, Requests
  <2> QED BY <1>1, <2>1 DEF Answered
<1> QED BY <1>1 DEF Fits

LEMMA FlushedOwned ==
  ASSUME IInv, Answered
  PROVE  Owned(Flushed, stray)
BY PendingFits, FlushedKeeps DEF IInv, Conversed, Answered

\* A generation that ends leaves only stray requests that could still answer.
LEMMA EndAnswers ==
  ASSUME IInv, Answered, UNCHANGED <<stored, left>>, NothingPending, source' = 0,
         stray \subseteq stray',
         \A r \in Requests : conn'[r] = "flight" => r \in stray',
         \/ messages' = ReadToEnd(CompleteLast(Flushed)) \/ messages' = WithError(Flushed)
         \/ messages' = Stopped(Flushed)
  PROVE  Answered'
<1>1. IsChat(Flushed) BY FlushedKeeps DEF IInv, Conversed
<1>2. \A done \in {CompleteLast(Flushed), WithError(Flushed), Stopped(Flushed)} :
        IsChat(done) /\ Settled(done) /\ Owned(done, stray)
  BY <1>1, FlushedOwned, EndsSettle DEF Inherits
<1>3. Owned(ReadToEnd(CompleteLast(Flushed)), stray)
  BY <1>2, ReadToEndKeeps DEF Inherits
<1>4. Owned(messages', stray') BY <1>2, <1>3, OwnedGrows
<1>5. Apart' BY ApartStays DEF Answered, Apart
<1> QED BY <1>4, <1>5 DEF Answered, Apart, NothingPending

LEMMA AnsweredStep ==
  ASSUME IInv, Answered, [Next]_vars
  PROVE  Answered'
<1>1. IsChat(messages) /\ IsChat(stored) /\ DOMAIN messages = 1..Len(messages)
  BY ChatLength DEF IInv, Conversed
<1>2. ~Generating => Settled(messages)
  BY DEF IInv, Conversed
<1>3. Owned(messages, stray) /\ Owned(stored, stray)
  BY DEF Answered
<1>4. CASE UserStep
  <2>1. CASE HandleSendMessage
    <3> DEFINE asked == Append(messages, UserMessage(keys + 1))
    <3>1. IsChat(asked) /\ Settled(asked) /\ Owned(asked, stray)
      BY <1>1, <1>2, <1>3, <2>1, NewMessages, ChatAppend DEF HandleSendMessage, InheritsWith
    <3>2. UNCHANGED <<stream, stored, left>> /\ SendChat(asked, keys + 2)
      BY <2>1 DEF HandleSendMessage
    <3> HIDE DEF asked
    <3> QED BY <3>1, <3>2, SendAnswers
  <2>2. ASSUME NEW i \in DOMAIN messages, HandleRegenerateMessage(i) PROVE Answered'
    BY <1>1, <1>2, <1>3, <2>2, RegenerationKeeps, SendAnswers DEF HandleRegenerateMessage, Inherits
  <2>3. ASSUME NEW i \in DOMAIN messages, HandleEditMessage(i) PROVE Answered'
    BY <2>3 DEF HandleEditMessage, chat, Answered
  <2>4. ASSUME NEW i \in DOMAIN messages, HandleDeleteMessage(i) PROVE Answered'
    BY <1>1, <1>2, <1>3, <2>4, ChatRemove, IdleAnswers DEF HandleDeleteMessage, SetMessages, Inherits
  <2>5. ASSUME NEW i \in DOMAIN messages, NEW shouldSubmit \in BOOLEAN, ApplyEdit(i, shouldSubmit)
        PROVE  Answered'
    <3> DEFINE updated == [messages EXCEPT ![i] = Edited(messages[i])]
    <3> DEFINE kept == SubSeq(updated, 1, i)
    <3>1. /\ Owned(updated, stray)
          /\ messages[i].from = "user" => IsChat(kept) /\ Settled(kept) /\ Owned(kept, stray)
          /\ updated # <<>>
          /\ Last(updated) = Last(messages) \/ Last(updated).req = 0
      BY <1>1, <1>3, EditKeeps DEF Inherits
    <3>2. /\ UNCHANGED <<stream, stored, left>>
          /\ \/ /\ messages' = updated
                /\ UNCHANGED <<stray, source, pendingFrom, conn, requesting, lastId>>
             \/ messages[i].from = "user" /\ SendChat(kept, keys + 1)
      BY <2>5 DEF ApplyEdit, SetMessages
    <3> HIDE DEF updated, kept
    <3>3. CASE /\ messages' = updated
               /\ UNCHANGED <<stray, source, pendingFrom, conn, requesting, lastId>>
      BY <3>1, <3>2, <3>3 DEF Answered
    <3> QED BY <3>1, <3>2, <3>3, SendAnswers
  <2>6. CASE CancelEdit
    BY <2>6 DEF CancelEdit, chat, Answered
  <2>7. CASE HandleClearMessages
    BY <2>7, NoMessages, IdleAnswers DEF HandleClearMessages, SetMessages
  <2>8. CASE StopGeneration
    <3>1. ASSUME NEW r \in Requests, conn'[r] = "flight" PROVE r \in stray
      <4>1. conn[r] = "flight" /\ r # controller BY <2>8, <3>1 DEF StopGeneration
      <4>2. r \in stray \/ (requesting /\ lastId = r) BY <4>1 DEF Answered
      <4> QED BY <4>1, <4>2 DEF IInv, Wired
    <3> QED BY <2>8, <3>1, EndAnswers DEF StopGeneration, SetMessages
  <2> QED BY <1>4, <2>1, <2>2, <2>3, <2>4, <2>5, <2>6, <2>7, <2>8 DEF UserStep
<1>5. ASSUME NEW r \in Requests, Receive(r) \/ StreamCut(r) PROVE Answered'
  <2>1. CASE ReceiveChunk(r)
    BY <2>1 DEF ReceiveChunk, Answered, IInv, Wired
  <2>2. ASSUME conn[r] = "open", CloseActiveStream(r)
        PROVE  source' = 0 /\ \A i \in Requests : conn'[i] # "flight"
    <3>1. source = r /\ stream
      BY <2>2 DEF IInv, Wired, Requests
    <3> QED BY <2>2, <3>1 DEF CloseActiveStream, IInv, Wired
  <2>3. CASE StreamDone(r)
    BY <2>2, <2>3, EndAnswers DEF StreamDone, SetMessages
  <2>4. CASE StreamError(r)
    BY <2>2, <2>4, EndAnswers DEF StreamError, SetMessages
  <2>5. ASSUME conn[r] = "flight"
        PROVE  ~stream /\ source = 0 /\ pendingFrom = {}
    BY <2>5 DEF IInv, Wired, Buffered
  <2>6. CASE ReceiveResponse(r)
    <3>1. /\ conn[r] = "flight" /\ conn' = [conn EXCEPT ![r] = "closed"]
          /\ requesting' = (requesting /\ lastId # r) /\ messages' = WithResponse(messages, r)
          /\ UNCHANGED <<stored, left, stray, source, pendingFrom, lastId>>
      BY <2>6 DEF ReceiveResponse, FinishRequest, SetMessages
    <3>2. Fits(messages, {r}, stray)
      BY <3>1 DEF Answered, Fits
    <3>3. Owned(messages', stray)
      BY <1>1, <1>3, <3>1, <3>2, ResponseSettles
    <3>4. messages # <<>> => messages' # <<>> /\ Last(messages').req = Last(messages).req
      BY <1>1, <3>1, ResponseSettles
    <3>5. ASSUME NEW i \in Requests, conn'[i] = "flight" PROVE conn[i] = "flight" /\ i # r
      BY <3>1, <3>5 DEF IInv, Wired
    <3>6. ASSUME NEW i \in Requests, conn'[i] = "flight", i \notin stray
          PROVE  /\ requesting' /\ lastId' = i
                 /\ messages' # <<>> /\ Last(messages').req \in {i, 0}
      <4>1. /\ requesting /\ lastId = i /\ messages # <<>>
            /\ Last(messages).req \in {i, 0} /\ i # r
        BY <3>5, <3>6 DEF Answered
      <4> QED BY <3>1, <3>4, <4>1
    <3> QED BY <2>5, <3>1, <3>3, <3>6 DEF Answered
  <2>7. CASE ReceiveFailure(r)
    <3>1. /\ conn[r] = "flight" /\ conn' = [conn EXCEPT ![r] = "closed"]
          /\ stray' = stray \cup (UnderWay \ {r}) /\ messages' = WithError(Flushed)
          /\ NothingPending /\ UNCHANGED <<stored, left, source>>
      BY <2>7 DEF ReceiveFailure, FinishRequest, SetMessages
    <3>2. ASSUME NEW i \in Requests, conn'[i] = "flight" PROVE i \in stray'
      <4>1. conn[i] = "flight" /\ i # r BY <3>1, <3>2 DEF IInv, Wired
      <4> QED BY <3>1, <4>1 DEF UnderWay
    <3> QED BY <2>5, <3>1, <3>2, EndAnswers
  <2>8. CASE StreamCut(r)
    <3>1. \A i \in Requests : conn'[i] = "flight" => conn[i] = "flight"
      BY <2>8 DEF StreamCut, IInv, Wired
    <3> QED BY <2>8, <3>1 DEF StreamCut, Answered
  <2> QED BY <1>5, <2>1, <2>3, <2>4, <2>6, <2>7, <2>8 DEF Receive
<1>6. CASE FlushStreamUpdates
  <2>1. messages' = Flushed /\ pendingFrom' = {}
    BY <1>6 DEF FlushStreamUpdates, SetMessages, NothingPending
  <2>2. messages # <<>> => messages' # <<>> /\ Last(messages').req = Last(messages).req
    BY <1>1, <2>1, FlushedKeeps
  <2>3. Owned(messages', stray) BY <2>1, FlushedOwned
  <2> QED BY <1>6, <2>1, <2>2, <2>3 DEF FlushStreamUpdates, Answered
<1>7. CASE SaveMessages
  <2>1. Owned(TrimMessages(messages), stray) BY <1>1, <1>3, TrimKeeps DEF Inherits
  <2>2. stored' = TrimMessages(messages) \/ stored' = stored
    BY <1>7 DEF SaveMessages, Write
  <2> QED BY <1>3, <1>7, <2>1, <2>2 DEF SaveMessages, Answered
<1>8. ASSUME NEW cleanly \in BOOLEAN, Leave(cleanly) PROVE Answered'
  <2>1. Owned(stored', stray)
    BY <1>1, <1>3, <1>8, TrimKeeps DEF Leave, Write, Inherits
  <2>2. ASSUME NEW r \in Requests PROVE conn'[r] # "flight"
    BY <1>8 DEF Leave
  <2>3. Fits(messages, OldPage.from \cup OldPage.reqs, stray)
    <3>1. ASSUME NEW r \in OldPage.reqs, messages # <<>>, Last(messages).req # 0
          PROVE  r \in {Last(messages).req} \cup stray
      <4>1. r \in Requests /\ r # 0 /\ conn[r] \in {"open", "flight"}
        BY DEF OldPage, Requests
      <4>2. CASE conn[r] = "open"
        <5>1. source = r BY <4>1, <4>2 DEF IInv, Wired
        <5> QED BY <3>1, <4>1, <5>1 DEF Answered
      <4>3. CASE conn[r] = "flight"
        BY <3>1, <4>1, <4>3 DEF Answered
      <4> QED BY <4>1, <4>2, <4>3
    <3>2. OldPage.from = pendingFrom BY DEF OldPage
    <3> QED BY <3>1, <3>2, PendingFits DEF Fits
  <2>4. OldPage.messages = messages BY DEF OldPage
  <2>5. left' \subseteq left \cup {OldPage} BY <1>8 DEF Leave
  <2>6. ASSUME NEW p \in left'
        PROVE  Owned(p.messages, stray) /\ Fits(p.messages, p.from \cup p.reqs, stray)
    BY <1>3, <2>3, <2>4, <2>5 DEF Answered
  <2>7. /\ messages' = <<>> /\ pendingFrom' = {} /\ source' = 0 /\ UNCHANGED stray
    BY <1>8 DEF Leave, NothingPending
  <2> QED BY <2>1, <2>2, <2>6, <2>7, NoMessages DEF Answered
<1>9. CASE Mount
  <2>1. source = 0 /\ pendingFrom = {} /\ \A r \in Requests : conn[r] = "flight" => r \in stray
    BY <1>9, IdleAnswersNothing DEF Mount, IInv, Wired, Generating
  <2>2. Owned(LoadMessages, stray) /\ Owned(TrimMessages(LoadMessages), stray)
    BY <1>1, <1>3, LoadedIsSettled, TrimKeeps DEF Inherits
  <2>3. stored' = stored \/ stored' = TrimMessages(LoadMessages)
    BY <1>9 DEF Mount, Write
  <2> QED BY <1>3, <1>9, <2>1, <2>2, <2>3 DEF Mount, Answered
<1>10. ASSUME NEW p \in left, LateSave(p) PROVE Answered'
  <2>1. PICK ms \in LateUpdates(p) : stored' = TrimMessages(ms)
    BY <1>10 DEF LateSave, Write
  <2>2. IsChat(ms) /\ Owned(ms, stray)
    BY LateUpdatesKeep DEF IInv, Answered
  <2>3. Owned(stored', stray) BY <2>1, <2>2, TrimKeeps DEF Inherits
  <2>4. \A i \in Requests : conn'[i] = "flight" => conn[i] = "flight"
    BY <1>10 DEF LateSave
  <2>5. left' \subseteq left /\ UNCHANGED <<messages, stray, source, pendingFrom, requesting, lastId>>
    BY <1>10 DEF LateSave
  <2> QED BY <2>3, <2>4, <2>5 DEF Answered
<1>11. ASSUME NEW p \in left, NEW r \in p.reqs, LateChunk(p, r) PROVE Answered'
  <2>1. PICK n : /\ left' = (left \ {p}) \cup {n}
                 /\ n.messages = p.messages /\ n.reqs = p.reqs /\ n.from = p.from \cup {r}
    BY <1>11, LateChunkPage DEF IInv, Parted
  <2>2. n.from \cup n.reqs = p.from \cup p.reqs BY <2>1
  <2>3. UNCHANGED <<messages, stored, stray, source, pendingFrom, requesting, lastId, conn>>
    BY <1>11 DEF LateChunk
  <2> QED BY <2>1, <2>2, <2>3 DEF Answered
<1>12. CASE UNCHANGED vars
  BY <1>12 DEF vars, chat, Answered
<1> QED BY <1>4, <1>5, <1>6, <1>7, <1>8, <1>9, <1>10, <1>11, <1>12 DEF Next

-----------------------------------------------------------------------------
(* What the chunks say                                                     *)

Texts == Seq(STRING)
Chunk == [type : {"content", "reasoning"}, text : Texts \ {<<>>}]

Read(s, i, j) == Reading(s, "content", i, j)

ReadStep(s, i, w) ==
  [k \in 0..Len(s) |->
     IF k <= i THEN <<>>
     ELSE IF s[k].type # "content" THEN w[k - 1]
     ELSE IF Snapshots(s, "content") THEN s[k].text
     ELSE w[k - 1] \o s[k].text]

\* The recursion in Reading has a solution, whose values are texts.
LEMMA ReadingExists ==
  ASSUME NEW s \in Seq(Chunk), NEW i \in Nat
  PROVE  \E w \in [0..Len(s) -> Texts] : w = ReadStep(s, i, w) /\ \A j : Read(s, i, j) = w[j]
<1> DEFINE n == Len(s)
<1> DEFINE next(k, x) == IF k <= i THEN <<>>
                         ELSE IF s[k].type # "content" THEN x
                         ELSE IF Snapshots(s, "content") THEN s[k].text
                         ELSE x \o s[k].text
<1> DEFINE F == [p \in (1..n) \X Texts |-> next(p[1], p[2])]
<1> DEFINE w == CHOOSE w : w = ReadStep(s, i, w)
<1>1. n \in Nat BY LenProperties
<1>2. ASSUME NEW k \in 1..n PROVE s[k].text \in Texts
  <2>1. s[k] \in Chunk BY ElementOfSeq
  <2> QED BY <2>1 DEF Chunk
<1>3. <<>> \in Texts BY DEF Texts
<1>4. ASSUME NEW k \in 1..n, NEW x \in Texts PROVE next(k, x) \in Texts
  <2>1. x \o s[k].text \in Texts BY <1>2, ConcatProperties DEF Texts
  <2> HIDE DEF Texts
  <2> QED BY <1>2, <1>3, <2>1
<1>5. F \in [(1..n) \X Texts -> Texts]
  <2> HIDE DEF next, n
  <2> QED BY <1>4
<1>6. PICK v \in [0..n -> Texts] : v[0] = <<>> /\ \A k \in 1..n : v[k] = F[<<k, v[k - 1]>>]
  <2> DEFINE e == <<>>
  <2>1. e \in Texts BY <1>3
  <2> HIDE DEF n, F, e
  <2>2. \E v : Solves(v, n, Texts, e, F)
    BY <1>1, <1>5, <2>1, RecursionExists
  <2> QED BY <2>2 DEF e, Solves
<1>7. ASSUME NEW k \in 1..n PROVE v[k] = next(k, v[k - 1])
  <2>1. k - 1 \in 0..n /\ v[k - 1] \in Texts BY <1>1
  <2> HIDE DEF next, Texts
  <2> QED BY <1>6, <2>1
<1>8. v = ReadStep(s, i, v)
  <2>1. v = [k \in 0..n |-> v[k]] OBVIOUS
  <2>2. ASSUME NEW k \in 0..n
        PROVE  v[k] = IF k <= i THEN <<>>
                      ELSE IF s[k].type # "content" THEN v[k - 1]
                      ELSE IF Snapshots(s, "content") THEN s[k].text
                      ELSE v[k - 1] \o s[k].text
    <3>1. CASE k = 0
      <4>1. k <= i BY <3>1
      <4> QED BY <1>6, <3>1, <4>1
    <3>2. CASE k # 0
      <4>1. k \in 1..n BY <1>1, <3>2
      <4> QED BY <1>7, <4>1
    <3> QED BY <3>1, <3>2
  <2> HIDE DEF Texts, F, next
  <2> QED BY <2>1, <2>2 DEF ReadStep
<1>9. w = ReadStep(s, i, w)
  <2> HIDE DEF F, next
  <2> QED BY <1>8
<1>10. \A j : Read(s, i, j) = w[j]
  BY DEF Read, Reading, ReadStep
<1> HIDE DEF w, F
<1>11. w \in [0..n -> Texts]
  <2> DEFINE T == {k \in Nat : w[k] \in Texts}
  <2>1. w = [k \in 0..n |-> w[k]] BY <1>9 DEF ReadStep
  <2>2. w[0] = <<>>
    <3>1. 0 \in 0..n /\ 0 <= i BY <1>1
    <3> QED BY <1>9, <3>1 DEF ReadStep
  <2>3. 0 \in T BY <1>3, <2>2
  <2>4. ASSUME NEW k \in 1..n, k - 1 \in T PROVE k \in T
    <3>1. k \in 0..n /\ k \in Nat BY <1>1
    <3>2. w[k] = next(k, w[k - 1]) BY <1>9, <3>1 DEF ReadStep
    <3>3. w[k - 1] \in Texts BY <2>4
    <3>4. next(k, w[k - 1]) \in Texts
      <4> HIDE DEF next
      <4> QED BY <1>4, <3>3
    <3> HIDE DEF next, Texts
    <3> QED BY <3>1, <3>2, <3>4
  <2>5. 0..n \subseteq T
    <3>1. T \in SUBSET Nat OBVIOUS
    <3> HIDE DEF T, n, next
    <3> QED BY <1>1, <2>3, <2>4, <3>1, UpTo
  <2> HIDE DEF next
  <2> QED BY <2>1, <2>5
<1> HIDE DEF next
<1> QED BY <1>9, <1>10, <1>11

\* Nothing is read of no chunks; every further chunk adds what it says.
LEMMA ReadFacts ==
  ASSUME NEW s \in Seq(Chunk), NEW i \in Nat
  PROVE  /\ Len(s) \in Nat
         /\ \A j \in 0..Len(s) : Read(s, i, j) \in Texts /\ (j <= i => Read(s, i, j) = <<>>)
         /\ \A j \in 1..Len(s) :
              /\ s[j].text \in Texts /\ s[j].text # <<>>
              /\ j > i => Read(s, i, j) = IF s[j].type # "content" THEN Read(s, i, j - 1)
                                          ELSE IF Snapshots(s, "content") THEN s[j].text
                                          ELSE Read(s, i, j - 1) \o s[j].text
<1>1. PICK w \in [0..Len(s) -> Texts] : w = ReadStep(s, i, w) /\ \A j : Read(s, i, j) = w[j]
  BY ReadingExists
<1>2. Len(s) \in Nat BY LenProperties
<1>3. ASSUME NEW j \in 0..Len(s) PROVE w[j] \in Texts /\ (j <= i => w[j] = <<>>)
  <2>1. w[j] \in Texts BY <1>1
  <2>2. j <= i => w[j] = <<>> BY <1>1 DEF ReadStep
  <2> QED BY <2>1, <2>2
<1>4. ASSUME NEW j \in 1..Len(s)
      PROVE  /\ s[j].text \in Texts /\ s[j].text # <<>>
             /\ j > i => w[j] = IF s[j].type # "content" THEN w[j - 1]
                                ELSE IF Snapshots(s, "content") THEN s[j].text
                                ELSE w[j - 1] \o s[j].text
  <2>1. s[j] \in Chunk BY ElementOfSeq
  <2>2. s[j].text \in Texts /\ s[j].text # <<>> BY <2>1 DEF Chunk
  <2>3. j \in 0..Len(s) /\ (j > i => ~(j <= i)) BY <1>2
  <2>4. j > i => w[j] = IF s[j].type # "content" THEN w[j - 1]
                        ELSE IF Snapshots(s, "content") THEN s[j].text
                        ELSE w[j - 1] \o s[j].text
    BY <1>1, <2>3 DEF ReadStep
  <2> QED BY <2>2, <2>4
<1> QED BY <1>1, <1>2, <1>3, <1>4

\* A reading of snapshots is one of them.
LEMMA SnapshotRead ==
  ASSUME NEW s \in Seq(Chunk), Snapshots(s, "content"), NEW i \in 0..Len(s), NEW j \in i..Len(s)
  PROVE  \/ Read(s, i, j) = <<>>
         \/ \E l \in (i + 1)..j : s[l].type = "content" /\ Read(s, i, j) = s[l].text
<1> DEFINE Held(k) == \/ Read(s, i, k) = <<>>
                      \/ \E l \in (i + 1)..k : s[l].type = "content" /\ Read(s, i, k) = s[l].text
<1> DEFINE T == {k \in Nat : k <= Len(s) => Held(k)}
<1>1. Len(s) \in Nat /\ i \in Nat BY ReadFacts
<1>2. ASSUME NEW k \in 0..Len(s), k <= i PROVE Held(k)
  BY <1>1, <1>2, ReadFacts
<1>3. ASSUME NEW k \in 1..Len(s), k > i, Held(k - 1) PROVE Held(k)
  <2>1. Read(s, i, k) = IF s[k].type # "content" THEN Read(s, i, k - 1) ELSE s[k].text
    BY <1>1, <1>3, ReadFacts
  <2>2. k \in (i + 1)..k /\ \A l \in (i + 1)..(k - 1) : l \in (i + 1)..k
    BY <1>1, <1>3
  <2> QED BY <1>3, <2>1, <2>2
<1>4. 0 \in T
  <2>1. 0 \in 0..Len(s) /\ 0 <= i BY <1>1
  <2>2. Held(0) BY <1>2, <2>1
  <2> HIDE DEF Held
  <2> QED BY <2>2
<1>5. ASSUME NEW k \in 1..Len(s), k - 1 \in T PROVE k \in T
  <2> HIDE DEF Held
  <2>1. k \in Nat /\ k \in 0..Len(s) /\ k - 1 <= Len(s) BY <1>1
  <2>2. Held(k - 1) BY <1>5, <2>1
  <2>3. k <= i \/ k > i BY <1>1
  <2> QED BY <1>2, <1>3, <2>1, <2>2, <2>3
<1>6. 0..Len(s) \subseteq T
  <2> HIDE DEF T
  <2>1. T \in SUBSET Nat BY DEF T
  <2> QED BY <1>1, <1>4, <1>5, <2>1, UpTo
<1>7. j \in 0..Len(s) /\ j <= Len(s) BY <1>1
<1> HIDE DEF Held
<1>8. Held(j) BY <1>6, <1>7
<1> QED BY <1>8 DEF Held

\* A text that was read in two parts.
LEMMA ReadInParts ==
  ASSUME NEW s \in Seq(Chunk), NEW i \in 0..Len(s), NEW j \in i..Len(s)
  PROVE  Read(s, 0, j) = IF Read(s, i, j) = <<>> THEN Read(s, 0, i)
                         ELSE IF Snapshots(s, "content") THEN Read(s, i, j)
                         ELSE Read(s, 0, i) \o Read(s, i, j)
<1> DEFINE Held(k) == Read(s, 0, k) = IF Read(s, i, k) = <<>> THEN Read(s, 0, i)
                                      ELSE IF Snapshots(s, "content") THEN Read(s, i, k)
                                      ELSE Read(s, 0, i) \o Read(s, i, k)
<1> DEFINE T == {k \in Nat : k <= Len(s) /\ k >= i => Held(k)}
<1>1. Len(s) \in Nat /\ i \in Nat /\ 0 \in Nat BY ReadFacts
<1>2. Held(i)
  <2>1. i \in 0..Len(s) /\ i <= i BY <1>1
  <2>2. Read(s, i, i) = <<>> BY <1>1, <2>1, ReadFacts
  <2> QED BY <2>2
<1>3. ASSUME NEW k \in 1..Len(s), k > i, Held(k - 1) PROVE Held(k)
  <2> DEFINE a == Read(s, 0, i)
             b == Read(s, 0, k - 1)
             c == Read(s, i, k - 1)
             t == s[k].text
  <2>0. k - 1 \in 0..Len(s) /\ k > 0 BY <1>1, <1>3
  <2>1. a \in Texts /\ b \in Texts /\ c \in Texts /\ t \in Texts /\ t # <<>>
    BY <1>1, <2>0, ReadFacts
  <2>2. Read(s, i, k) = IF s[k].type # "content" THEN c
                        ELSE IF Snapshots(s, "content") THEN t ELSE c \o t
    BY <1>1, <1>3, ReadFacts
  <2>3. Read(s, 0, k) = IF s[k].type # "content" THEN b
                        ELSE IF Snapshots(s, "content") THEN t ELSE b \o t
    BY <1>1, <2>0, ReadFacts
  <2>4. b = IF c = <<>> THEN a ELSE IF Snapshots(s, "content") THEN c ELSE a \o c
    BY <1>3
  <2> HIDE DEF a, b, c, t
  <2>5. (a \o c) \o t = a \o (c \o t) /\ <<>> \o t = t /\ c \o t # <<>>
    <3> USE DEF Texts
    <3>1. (a \o c) \o t = a \o (c \o t) BY <2>1, ConcatAssociative, SMTT(30)
    <3>2. <<>> \o t = t BY <2>1, ConcatEmptySeq
    <3>3. c \o t # <<>> BY <2>1, ConcatEqualIffEmpty
    <3> QED BY <3>1, <3>2, <3>3
  <2>6. CASE s[k].type # "content" BY <2>2, <2>3, <2>4, <2>6 DEF a
  <2>7. CASE s[k].type = "content" /\ Snapshots(s, "content") BY <2>1, <2>2, <2>3, <2>7
  <2>8. CASE s[k].type = "content" /\ ~Snapshots(s, "content")
    <3>1. Read(s, i, k) = c \o t /\ Read(s, 0, k) = b \o t BY <2>2, <2>3, <2>8
    <3>2. b \o t = a \o (c \o t) BY <2>4, <2>5, <2>8
    <3> QED BY <2>5, <2>8, <3>1, <3>2 DEF a
  <2> QED BY <2>6, <2>7, <2>8
<1> HIDE DEF Held
<1>4. 0 \in T
  <2>1. 0 >= i => i = 0 BY <1>1
  <2> QED BY <1>2, <2>1
<1>5. ASSUME NEW k \in 1..Len(s), k - 1 \in T PROVE k \in T
  <2>1. k \in Nat /\ k - 1 \in Nat /\ k - 1 <= Len(s) BY <1>1
  <2>2. k < i \/ k = i \/ (k > i /\ k - 1 >= i) BY <1>1
  <2>3. k > i => Held(k) BY <1>3, <1>5, <2>1, <2>2
  <2>4. k < i => ~(k >= i) BY <1>1
  <2> QED BY <1>2, <2>1, <2>2, <2>3, <2>4
<1>6. 0..Len(s) \subseteq T
  <2> HIDE DEF T
  <2>1. T \in SUBSET Nat BY DEF T
  <2> QED BY <1>1, <1>4, <1>5, <2>1, UpTo
<1>7. j \in 0..Len(s) /\ j <= Len(s) /\ j >= i BY <1>1
<1>8. Held(j) BY <1>6, <1>7
<1> QED BY <1>8 DEF Held

\* mergePendingStreamChunk reads on.
LEMMA MergeReadsOn ==
  ASSUME NEW s \in Seq(Chunk), Legible(s, "content"), NEW i \in 0..Len(s), NEW j \in i..Len(s),
         j < Len(s), s[j + 1].type = "content"
  PROVE  MergePendingStreamChunk(Read(s, i, j), s[j + 1].text) = Read(s, i, j + 1)
<1> DEFINE p == Read(s, i, j)
           t == s[j + 1].text
<1>1. Len(s) \in Nat /\ i \in Nat /\ j \in Nat /\ j \in 0..Len(s) /\ j + 1 \in 1..Len(s)
      /\ j + 1 > i /\ (j + 1) - 1 = j /\ j + 1 > j /\ j <= j /\ j + 1 \in 0..Len(s)
  BY ReadFacts
<1>2. p \in Texts /\ t \in Texts /\ t # <<>> BY <1>1, ReadFacts
<1>3. Read(s, i, j + 1) = IF Snapshots(s, "content") THEN t ELSE p \o t
  BY <1>1, ReadFacts
<1>4. Read(s, j, j + 1) = IF Snapshots(s, "content") THEN t ELSE Read(s, j, j) \o t
  BY <1>1, ReadFacts
<1>5. Read(s, j, j) = <<>> BY <1>1, ReadFacts
<1>6. <<>> \o t = t BY <1>2, ConcatEmptySeq DEF Texts
<1>7. CASE p = <<>> BY <1>3, <1>6, <1>7 DEF MergePendingStreamChunk
<1>8. CASE p # <<>> /\ Snapshots(s, "content")
  <2>1. PICK l \in (i + 1)..j : s[l].type = "content" /\ p = s[l].text
    BY <1>8, SnapshotRead
  <2>2. l \in 1..Len(s) /\ l < j + 1 BY <1>1
  <2>3. IsPrefix(p, t) BY <1>1, <1>8, <2>1, <2>2 DEF Snapshots
  <2> QED BY <1>3, <1>8, <2>3 DEF MergePendingStreamChunk
<1>9. CASE p # <<>> /\ ~Snapshots(s, "content")
  <2>1. Read(s, j, j + 1) = t BY <1>4, <1>5, <1>6, <1>9
  <2>2. i <= j /\ j <= j + 1 BY <1>1
  <2>3. ~IsPrefix(p, t) BY <1>1, <1>2, <1>9, <2>1, <2>2 DEF Legible, Increments, Read
  <2> QED BY <1>3, <1>9, <2>3 DEF MergePendingStreamChunk
<1> QED BY <1>7, <1>8, <1>9

\* A prefix and what follows it.
LEMMA PrefixAndRest ==
  ASSUME NEW c \in Texts, NEW p \in Texts, IsPrefix(c, p)
  PROVE  c \o SubSeq(p, Len(c) + 1, Len(p)) = p
<1>1. Len(c) \in Nat /\ Len(p) \in Nat /\ Len(c) <= Len(p)
  BY LenProperties DEF Texts, IsPrefix
<1>2. c = SubSeq(p, 1, Len(c))
  BY SubSeqFull DEF Texts, IsPrefix
<1>3. 1 \in 1..(Len(p) + 1) /\ Len(c) \in (1 - 1)..Len(p) /\ Len(p) \in Len(c)..Len(p)
  BY <1>1
<1>4. SubSeq(p, 1, Len(c)) \o SubSeq(p, Len(c) + 1, Len(p)) = SubSeq(p, 1, Len(p))
  BY <1>3, ConcatAdjacentSubSeq DEF Texts
<1>5. SubSeq(p, 1, Len(p)) = p BY SubSeqFull DEF Texts
<1> QED BY <1>2, <1>4, <1>5

\* getAppendableChunk adds to the text that is shown what it lacks.
LEMMA FlushReadsOn ==
  ASSUME NEW s \in Seq(Chunk), Legible(s, "content"), NEW i \in 0..Len(s), NEW j \in i..Len(s)
  PROVE  LET c == Read(s, 0, i)
             p == Read(s, i, j)
         IN  Read(s, 0, j) = IF p = <<>> THEN c ELSE c \o AppendableChunk(c, p)
<1> DEFINE c == Read(s, 0, i)
           p == Read(s, i, j)
<1>1. Len(s) \in Nat /\ i \in Nat /\ j \in Nat /\ 0 \in Nat /\ j \in 0..Len(s) /\ i <= j
      /\ 0 <= i /\ 0 \in 0..Len(s) /\ i \in 0..Len(s)
  BY ReadFacts
<1>2. p \in Texts /\ c \in Texts BY <1>1, ReadFacts
<1>3. Read(s, 0, j) = IF p = <<>> THEN c ELSE IF Snapshots(s, "content") THEN p ELSE c \o p
  BY ReadInParts
<1>4. <<>> \o p = p BY <1>2, ConcatEmptySeq DEF Texts
<1>5. ASSUME p # <<>>, c # <<>>, Snapshots(s, "content") PROVE IsPrefix(c, p)
  <2>1. PICK l \in (0 + 1)..i : s[l].type = "content" /\ c = s[l].text
    <3>1. 0 \in 0..Len(s) /\ i \in 0..Len(s) BY <1>1
    <3> QED BY <1>5, <3>1, SnapshotRead
  <2>2. PICK m \in (i + 1)..j : s[m].type = "content" /\ p = s[m].text
    BY <1>5, SnapshotRead
  <2>3. l \in 1..Len(s) /\ m \in 1..Len(s) /\ l < m BY <1>1
  <2> QED BY <1>5, <2>1, <2>2, <2>3 DEF Snapshots
<1>6. ASSUME p # <<>>, c # <<>>, ~Snapshots(s, "content") PROVE ~IsPrefix(c, p)
  BY <1>1, <1>6 DEF Legible, Increments, Read
<1>7. CASE p = <<>> BY <1>3, <1>7
<1>8. CASE p # <<>> /\ c = <<>>
  BY <1>3, <1>4, <1>8 DEF AppendableChunk
<1>9. CASE p # <<>> /\ c # <<>> /\ Snapshots(s, "content")
  <2>1. IsPrefix(c, p) BY <1>5, <1>9
  <2>2. c \o SubSeq(p, Len(c) + 1, Len(p)) = p BY <1>2, <2>1, PrefixAndRest
  <2> QED BY <1>3, <1>9, <2>1, <2>2 DEF AppendableChunk
<1>10. CASE p # <<>> /\ c # <<>> /\ ~Snapshots(s, "content")
  BY <1>3, <1>6, <1>10 DEF AppendableChunk
<1> QED BY <1>7, <1>8, <1>9, <1>10

-----------------------------------------------------------------------------
(* Which messages a conversation has                                       *)

LEMMA HasOfSeq ==
  ASSUME NEW S, NEW ms \in Seq(S)
  PROVE  Has(ms) \subseteq S
BY ElementOfSeq DEF Has

LEMMA ChatOverHas ==
  ASSUME NEW ms, IsChat(ms)
  PROVE  ms \in Seq(Has(ms))
<1>1. DOMAIN ms = 1..Len(ms) BY ChatLength
<1> QED BY <1>1 DEF IsChat, Has

\* A part of a conversation has no other messages.
LEMMA PartHas ==
  ASSUME NEW ms, IsChat(ms), NEW a \in Nat \ {0}, NEW b \in Int, b <= Len(ms)
  PROVE  SubSeq(ms, a, b) \in Seq(Has(ms)) /\ Has(SubSeq(ms, a, b)) \subseteq Has(ms)
<1>1. Len(ms) \in Nat BY ChatLength
<1>2. ASSUME NEW i \in a..b PROVE ms[i] \in Has(ms)
  <2>1. i \in 1..Len(ms) BY <1>1
  <2> QED BY <2>1 DEF Has
<1>3. a \in Int OBVIOUS
<1>4. SubSeq(ms, a, b) \in Seq(Has(ms)) BY <1>2, <1>3, SubSeqProperties
<1> QED BY <1>4, HasOfSeq

LEMMA RemoveHas ==
  ASSUME NEW ms, IsChat(ms), NEW i \in 1..Len(ms)
  PROVE  Has(RemoveAt(ms, i)) \subseteq Has(ms)
<1> DEFINE before == SubSeq(ms, 1, i - 1)
           after == SubSeq(ms, i + 1, Len(ms))
<1>1. Len(ms) \in Nat BY ChatLength
<1>2. /\ 1 \in Nat \ {0} /\ i - 1 \in Int /\ i - 1 <= Len(ms)
      /\ i + 1 \in Nat \ {0} /\ Len(ms) \in Int /\ Len(ms) <= Len(ms)
  BY <1>1
<1>3. before \in Seq(Has(ms)) /\ after \in Seq(Has(ms)) BY <1>2, PartHas
<1> HIDE DEF before, after
<1>4. before \o after \in Seq(Has(ms)) BY <1>3, ConcatProperties
<1>5. RemoveAt(ms, i) = before \o after BY DEF RemoveAt, before, after
<1> QED BY <1>4, <1>5, HasOfSeq

LEMMA AppendHas ==
  ASSUME NEW ms, IsChat(ms), NEW m
  PROVE  Has(Append(ms, m)) \subseteq Has(ms) \cup {m}
<1> DEFINE longer == Append(ms, m)
<1> DEFINE S == Has(ms) \cup {m}
<1>1. ms \in Seq(Has(ms)) BY ChatOverHas
<1>2. ms \in Seq(S) /\ m \in S BY <1>1
<1>3. longer \in Seq(S)
  <2> HIDE DEF S
  <2> QED BY <1>2, AppendProperties
<1> HIDE DEF S, longer
<1>4. Has(longer) \subseteq S BY <1>3, HasOfSeq
<1> QED BY <1>4 DEF S, longer

LEMMA LastHas ==
  ASSUME NEW ms, IsChat(ms), ms # <<>>
  PROVE  Last(ms) \in Has(ms)
<1>1. Len(ms) \in 1..Len(ms) BY LastMessage
<1> QED BY <1>1 DEF Last, Has

\* A message replaced by another: only the new one was not there.
LEMMA ExceptHas ==
  ASSUME NEW ms, IsChat(ms), NEW i \in 1..Len(ms), NEW m
  PROVE  LET changed == [ms EXCEPT ![i] = m] IN
         /\ changed \in Seq(Has(ms) \cup {m}) /\ Has(changed) \subseteq Has(ms) \cup {m}
         /\ Len(changed) = Len(ms)
         /\ \A j \in 1..Len(ms) : changed[j] = IF j = i THEN m ELSE ms[j]
<1> DEFINE changed == [ms EXCEPT ![i] = m]
<1> DEFINE S == Has(ms) \cup {m}
<1>1. ms \in Seq(Has(ms)) BY ChatOverHas
<1>2. ms \in Seq(S) /\ m \in S BY <1>1
<1>3. /\ changed \in Seq(S) /\ Len(changed) = Len(ms)
      /\ \A j \in 1..Len(ms) : changed[j] = IF j = i THEN m ELSE ms[j]
  <2> HIDE DEF S
  <2> QED BY <1>2, ExceptSeq
<1> HIDE DEF S, changed
<1>4. Has(changed) \subseteq S BY <1>3, HasOfSeq
<1> QED BY <1>3, <1>4 DEF S, changed

LEMMA TrimHas ==
  ASSUME NEW ms, IsChat(ms)
  PROVE  Has(TrimMessages(ms)) \subseteq Has(ms)
<1>1. Len(ms) \in Nat /\ MaxStored \in Nat BY ChatLength, PlaygroundAssumption
<1>2. CASE Len(ms) <= MaxStored BY <1>2 DEF TrimMessages
<1>3. CASE ~(Len(ms) <= MaxStored)
  <2> DEFINE k == Len(ms) - MaxStored + 1
  <2>1. k \in Nat \ {0} /\ Len(ms) \in Int /\ Len(ms) <= Len(ms) BY <1>1, <1>3
  <2>2. TrimMessages(ms) = SubSeq(ms, k, Len(ms)) BY <1>3 DEF TrimMessages
  <2> HIDE DEF k
  <2> QED BY <2>1, <2>2, PartHas
<1> QED BY <1>2, <1>3

LEMMA TrimBySizeHas ==
  ASSUME NEW ms, IsChat(ms)
  PROVE  Has(TrimMessagesByContentSize(ms)) \subseteq Has(ms)
<1> DEFINE fits == {i \in 1..Len(ms) : i = Len(ms) \/ SizeFrom(ms, i) <= MaxLoadedSize}
<1> DEFINE first == CHOOSE i \in fits : \A j \in fits : i <= j
<1>1. CASE ms = <<>>
  BY <1>1 DEF TrimMessagesByContentSize
<1>2. CASE ms # <<>>
  <2>1. Len(ms) \in fits /\ fits \in SUBSET Nat
    BY <1>2, LastMessage, ChatLength
  <2>2. first \in 1..Len(ms)
    <3>1. \E i \in fits : \A j \in fits : i <= j
      <4> HIDE DEF fits
      <4> QED BY <2>1, LeastNumber
    <3>2. first \in fits
      <4> HIDE DEF fits
      <4> QED BY <3>1
    <3> HIDE DEF first
    <3> QED BY <3>2
  <2>3. TrimMessagesByContentSize(ms) = SubSeq(ms, first, Len(ms))
    BY <1>2 DEF TrimMessagesByContentSize
  <2> HIDE DEF first
  <2>4. first \in Nat \ {0} /\ Len(ms) \in Int /\ Len(ms) <= Len(ms) BY <2>2, ChatLength
  <2> QED BY <2>3, <2>4, PartHas
<1> QED BY <1>1, <1>2

\* A message with the text of another, or an end made of a pending one.
Ended(m, n) == m = n \/ (IsPending(n) /\ m.done = n.done)

LEMMA SanitizeHas ==
  ASSUME NEW ms, IsChat(ms), NEW m \in Has(SanitizeMessagesOnLoad(ms))
  PROVE  \E n \in Has(ms) : Ended(m, n)
<1> DEFINE stuck == {i \in 1..Len(ms) : ms[i].from = "assistant" /\ IsPending(ms[i])}
<1> DEFINE last == CHOOSE i \in stuck : \A j \in stuck : j <= i
<1>1. CASE stuck = {}
  BY <1>1 DEF SanitizeMessagesOnLoad, Ended
<1>2. CASE stuck # {}
  <2>1. Len(ms) \in Nat /\ DOMAIN ms = 1..Len(ms)
    BY ChatLength
  <2>2. stuck = {Len(ms)}
    BY <1>2 DEF IsChat
  <2>3. last = Len(ms)
    <3> HIDE DEF stuck
    <3> QED BY <2>1, <2>2
  <2>4. /\ Len(ms) \in 1..Len(ms) /\ IsMessage(ms[Len(ms)]) /\ ms[Len(ms)].from = "assistant"
        /\ IsPending(ms[Len(ms)])
    <3>1. Len(ms) \in stuck BY <2>2
    <3> QED BY <3>1 DEF IsChat
  <2> DEFINE n == Sanitized(ms[Len(ms)])
  <2>5. SanitizeMessagesOnLoad(ms) = [ms EXCEPT ![Len(ms)] = n]
    <3>1. SanitizeMessagesOnLoad(ms) = [ms EXCEPT ![last] = Sanitized(ms[last])]
      BY <1>2 DEF SanitizeMessagesOnLoad
    <3> HIDE DEF last
    <3> QED BY <2>3, <3>1
  <2>6. n.done = ms[Len(ms)].done
    BY <2>4, SanitizedKeeps DEF SameReply
  <2>7. ms[Len(ms)] \in Has(ms) BY <2>4 DEF Has
  <2> HIDE DEF n
  <2>8. m \in Has(ms) \cup {n} BY <2>4, <2>5, ExceptHas
  <2> QED BY <2>4, <2>6, <2>7, <2>8 DEF Ended
<1> QED BY <1>1, <1>2

\* What is loaded was stored, or ends a message that was stored while it was pending.
LEMMA LoadedHas ==
  ASSUME IsChat(stored), NEW m \in Has(LoadMessages)
  PROVE  \E n \in Has(stored) : Ended(m, n)
<1> DEFINE normal == [i \in 1..Len(stored) |-> NormalizeStored(stored[i])]
<1>1. Len(stored) \in Nat
  BY ChatLength
<1>2. normal \in Seq({normal[i] : i \in DOMAIN normal}) /\ Len(normal) = Len(stored)
  BY <1>1
<1>3. \A i \in 1..Len(stored) : /\ normal[i] = NormalizeStored(stored[i])
                                /\ SameReply(stored[i], normal[i])
                                /\ IsPending(normal[i]) => IsPending(stored[i])
                                /\ normal[i] = stored[i] \/ IsPending(stored[i])
  BY NormalizeKeeps DEF IsChat, NormalizeStored
<1> HIDE DEF normal
<1>4. IsChat(normal)
  BY <1>2, <1>3 DEF IsChat, SameReply
<1>5. LoadMessages = <<>> \/ LoadMessages
        = SanitizeMessagesOnLoad(TrimMessagesByContentSize(TrimMessages(normal)))
  BY DEF LoadMessages, normal
<1> DEFINE trimmed == TrimMessagesByContentSize(TrimMessages(normal))
<1>6. IsChat(trimmed) /\ Has(trimmed) \subseteq Has(normal)
  BY <1>4, TrimKeeps, TrimBySizeKeeps, TrimHas, TrimBySizeHas
<1> HIDE DEF trimmed
<1>7. LoadMessages # <<>>
  <2>1. Has(<<>>) = {} BY NoMessages DEF Has
  <2> QED BY <2>1
<1>8. PICK l \in Has(trimmed) : Ended(m, l)
  BY <1>5, <1>6, <1>7, SanitizeHas DEF trimmed
<1>9. PICK i \in 1..Len(stored) : l = normal[i] BY <1>2, <1>6, <1>8 DEF Has
<1>10. stored[i] \in Has(stored) BY DEF Has
<1> QED BY <1>3, <1>8, <1>9, <1>10 DEF Ended, SameReply

-----------------------------------------------------------------------------
(* The text of a reply                                                     *)

\* What a flush adds to a pending reply.
LEMMA ApplyPendingReads ==
  ASSUME NEW m, IsMessage(m), IsPending(m), NEW texts, NEW from
  PROVE  LET shown == ApplyPending(m, texts, from) IN
         /\ IsPending(shown) /\ shown.srcs = m.srcs \cup from
         /\ shown.content = IF texts["content"] = <<>> THEN m.content
                            ELSE m.content \o AppendableChunk(m.content, texts["content"])
<1> DEFINE a == IF texts["reasoning"] = <<>> THEN m
                ELSE ApplyReasoningChunk(m, texts["reasoning"])
<1> DEFINE full == m.content \o AppendableChunk(m.content, texts["content"])
<1> DEFINE b == IF texts["content"] = <<>> THEN a
                ELSE ApplyContentChunk(a, texts["content"])
<1>0. m.from = "assistant" BY PendingIsAssistant
<1>1. SameReply(m, a) /\ IsPending(a) /\ a.content = m.content
  <2> DEFINE text == m.reasoning \o AppendableChunk(m.reasoning, texts["reasoning"])
  <2>1. a = m \/ a = [m EXCEPT !.reasoning = text, !.status = "streaming"]
    BY DEF ApplyReasoningChunk, IsMessage, Fields
  <2> HIDE DEF text, a
  <2> QED BY <1>0, <2>1 DEF SameReply, IsMessage, Fields, IsPending
<1> HIDE DEF a
<1>2. SameReply(m, b) /\ IsPending(b)
      /\ b.content = IF texts["content"] = <<>> THEN m.content ELSE full
  <2> DEFINE parsed == ParseThinkTags(full).reasoning
  <2> DEFINE why == IF parsed # <<>> THEN parsed ELSE a.reasoning
  <2>1. CASE texts["content"] = <<>> BY <1>1, <2>1
  <2>2. CASE texts["content"] # <<>>
    <3>1. b = [a EXCEPT !.content = full, !.status = "streaming", !.reasoning = why]
      BY <1>1, <2>2 DEF ApplyContentChunk, SameReply, IsMessage, Fields
    <3> HIDE DEF full, parsed, why, b
    <3> QED BY <1>0, <1>1, <2>2, <3>1 DEF SameReply, IsMessage, Fields, IsPending
  <2> QED BY <2>1, <2>2
<1> HIDE DEF b, full
<1>3. m.status # "error" BY DEF IsPending
<1>4. ApplyPending(m, texts, from) = [b EXCEPT !.srcs = b.srcs \cup from]
  BY <1>2, <1>3 DEF ApplyPending, a, b, SameReply, IsMessage, Fields
<1> QED BY <1>2, <1>4 DEF SameReply, IsMessage, Fields, IsPending, full

LEMMA FlushedReads ==
  ASSUME IInv, messages # <<>>, IsPending(Last(messages))
  PROVE  /\ IsChat(Flushed) /\ Flushed # <<>> /\ IsPending(Last(Flushed))
         /\ Last(Flushed).req = Last(messages).req
         /\ Last(Flushed).srcs = Last(messages).srcs \cup pendingFrom
         /\ LET c == Last(messages).content
                p == pending["content"]
            IN  Last(Flushed).content = IF p = <<>> THEN c ELSE c \o AppendableChunk(c, p)
<1> DEFINE l == Last(messages)
<1> DEFINE m == ApplyPending(l, pending, pendingFrom)
<1>0. IsChat(messages) BY DEF IInv, Conversed
<1>1. IsMessage(l) /\ l.from = "assistant" BY <1>0, LastMessage, PendingIsAssistant
<1>2. IsChat(Flushed) /\ Flushed # <<>> /\ Last(Flushed).req = l.req BY <1>0, FlushedKeeps
<1>3. CASE pending = NoText
  <2>1. Flushed = messages BY <1>3 DEF Flushed, Flush
  <2>2. pending["content"] = <<>> BY <1>3 DEF NoText, Kinds
  <2>3. pendingFrom = {} BY <1>3 DEF IInv, Buffered
  <2> QED BY <1>2, <2>1, <2>2, <2>3
<1>4. CASE pending # NoText
  <2>1. Flushed = UpdateLastAssistantMessage(messages, m) BY <1>4 DEF Flushed, Flush
  <2>2. /\ IsPending(m) /\ m.srcs = l.srcs \cup pendingFrom
        /\ m.content = IF pending["content"] = <<>> THEN l.content
                       ELSE l.content \o AppendableChunk(l.content, pending["content"])
    BY <1>1, ApplyPendingReads
  <2>3. IsMessage(m) /\ m.req = l.req BY <1>1, ApplyPendingKeeps
  <2> HIDE DEF m
  <2>4. Last(Flushed) = m BY <1>0, <1>1, <2>1, <2>3, UpdateLastKeeps
  <2> QED BY <1>2, <2>2, <2>4
<1> QED BY <1>3, <1>4

LEMMA CompleteReads ==
  ASSUME NEW m, IsMessage(m)
  PROVE  /\ CompleteAssistantMessage(m).content = ParseThinkTags(m.content).visible
         /\ CompleteAssistantMessage(m).status = "complete"
<1> DEFINE f == FinalizeMessage(m, <<>>)
<1> DEFINE text == ParseThinkTags(m.content)
<1> DEFINE why == CASE <<>> # <<>> -> <<>>
                    [] <<>> = <<>> /\ m.reasoning # <<>> -> m.reasoning
                    [] OTHER -> text.reasoning
<1>1. SameReply(m, f) BY FinalizeMessageKeeps
<1>2. f = [m EXCEPT !.content = text.visible, !.reasoning = why]
  BY DEF FinalizeMessage, IsMessage, Fields
<1>3. f.content = text.visible
  <2> HIDE DEF why, text, f
  <2> QED BY <1>2 DEF IsMessage, Fields
<1>4. CompleteAssistantMessage(m) = [f EXCEPT !.status = "complete"]
  BY DEF CompleteAssistantMessage
<1> HIDE DEF f, text
<1> QED BY <1>1, <1>3, <1>4 DEF SameReply, IsMessage, Fields, text

-----------------------------------------------------------------------------
(* What was said is what is shown                                          *)

\* A reply that was read up to [DONE] is complete, and shows what the server said if
\* its chunks are its own and can be told apart.
IsRight(m, streamed, scripts) ==
  m.done => /\ streamed /\ m.status = "complete"
            /\ m.req # 0 /\ m.srcs \subseteq {m.req} /\ Legible(scripts[m.req], "content")
                 => m.content = ParseThinkTags(Read(scripts[m.req], 0, Len(scripts[m.req]))).visible

Right(m) == IsRight(m, stream, script)

Counted ==
  /\ count \in 0..MaxRequests
  /\ \A r \in Requests : pos[r] \in 0..Len(script[r]) /\ (r > count => pos[r] = 0)
  /\ \A r \in pendingFrom : r <= count

Shown == /\ \A m \in Has(messages) \cup Has(stored) : Right(m)
         /\ \A p \in left : Unread(p.messages) /\ \A m \in Has(p.messages) : Right(m)

\* The reply of the stream behind the page is pending.
Growing == source # 0 => messages # <<>> /\ IsPending(Last(messages))

\* A reply with no chunks but its own has read some of them, and those that are held
\* are the others.
ReadsOn ==
  \A r \in Requests :
    /\ conn[r] = "open" /\ Legible(script[r], "content")
    /\ Last(messages).req = r /\ Last(messages).srcs \cup pendingFrom \subseteq {r}
    => \E k \in 0..pos[r] : /\ Last(messages).content = Read(script[r], 0, k)
                            /\ pending["content"] = Read(script[r], k, pos[r])

Told == Counted /\ Shown /\ Growing /\ ReadsOn

LEMMA ScriptFacts ==
  ASSUME IInv, NEW r \in Requests
  PROVE  script[r] \in Seq(Chunk) /\ Len(script[r]) \in Nat
<1>1. script \in [Requests -> Seq(Chunk)]
  BY PlaygroundAssumption DEF IInv, Buffered, Chunk, Texts
<1>2. script[r] \in Seq(Chunk) BY <1>1
<1> QED BY <1>2, LenProperties

LEMMA UndoneRight ==
  ASSUME NEW m, ~m.done
  PROVE  Right(m)
BY DEF Right, IsRight

\* Nothing that is pending, or that answers a plain request, was read up to [DONE].
LEMMA RightUndone ==
  ASSUME NEW m, Right(m), IsPending(m) \/ ~stream
  PROVE  ~m.done
BY DEF Right, IsRight, IsPending

\* What keeps the messages right, wherever they are.
LEMMA ShownStays ==
  ASSUME Told, UNCHANGED <<stream, script>>,
         \A m \in Has(messages') : m \in Has(messages) \/ Right(m),
         \A m \in Has(stored') : m \in Has(messages) \cup Has(stored) \/ Right(m),
         \A p \in left' : \/ p \in left
                          \/ Unread(p.messages) /\ \A m \in Has(p.messages) : Right(m)
  PROVE  Shown'
<1>1. ASSUME NEW m, Right(m) PROVE Right(m)' BY <1>1 DEF Right
<1> QED BY <1>1 DEF Told, Shown

\* The last message was not read up to [DONE] while a generation is under way.
LEMMA LastUnread ==
  ASSUME IInv, Told, source # 0 \/ ~stream
  PROVE  Unread(messages)
<1> SUFFICES ASSUME messages # <<>> PROVE ~Last(messages).done
  BY DEF Unread
<1>1. Last(messages) \in Has(messages) BY LastHas DEF IInv, Conversed
<1>2. Right(Last(messages)) BY <1>1 DEF Told, Shown
<1>3. IsPending(Last(messages)) \/ ~stream BY DEF Told, Growing
<1> QED BY <1>2, <1>3, RightUndone

\* What no step of the conversation touches.
LEMMA RestTold ==
  ASSUME Told, UNCHANGED <<stream, messages, stored, left, source, pending, pendingFrom, conn,
                           script, pos, count>>
  PROVE  Told'
<1>1. Shown' BY ShownStays
<1>2. Counted' /\ Growing' /\ ReadsOn' BY DEF Told, Counted, Growing, ReadsOn
<1> QED BY <1>1, <1>2 DEF Told

\* A change of the conversation with no stream behind it.
LEMMA IdleTold ==
  ASSUME IInv, Told, source' = 0, \A r \in Requests : conn'[r] # "open",
         UNCHANGED <<stream, stored, left, script, pos, count>>, pendingFrom' \subseteq pendingFrom,
         \A m \in Has(messages') : m \in Has(messages) \/ ~m.done
  PROVE  Told'
<1>1. Shown' BY UndoneRight, ShownStays
<1>2. Counted' BY DEF Told, Counted
<1>3. Growing' /\ ReadsOn' BY DEF Growing, ReadsOn
<1> QED BY <1>1, <1>2, <1>3 DEF Told

LEMMA NoStream ==
  ASSUME IInv, ~Generating \/ ~stream
  PROVE  source = 0 /\ \A r \in Requests : conn[r] # "open"
<1>1. source = 0 BY DEF IInv, Wired, Generating
<1>2. \A r \in Requests : r # 0 BY DEF Requests
<1> QED BY <1>1, <1>2 DEF IInv, Wired

\* A new request: its reply has read nothing yet.
LEMMA SendTold ==
  ASSUME IInv, Told, UNCHANGED <<stream, stored, left>>, NEW ms, NEW key, SendChat(ms, key),
         IsChat(ms), Settled(ms), \A m \in Has(ms) : m \in Has(messages) \/ ~m.done
  PROVE  Told'
<1> DEFINE r == count + 1
<1> DEFINE reply == LoadingAssistant(key, r)
<1>1. /\ messages' = Append(ms, reply) /\ count' = r
      /\ UNCHANGED <<pending, pendingFrom, script, pos>>
      /\ IF stream THEN SendStreamRequest(r) ELSE SendNonStreamingChat(r)
  BY DEF SendChat, SetMessages
<1>2. count \in Nat /\ r \in Requests /\ MaxRequests \in Nat /\ r \in 0..MaxRequests /\ r > count
  BY PlaygroundAssumption DEF IInv, Wired, SendChat, Requests
<1>3. /\ IsMessage(reply) /\ reply.content = <<>> /\ IsPending(reply) /\ ~reply.done
      /\ reply.srcs = {}
  BY NewMessages DEF LoadingAssistant, IsPending
<1>4. pos[r] = 0 BY <1>2 DEF Told, Counted
<1> HIDE DEF reply
<1>5. /\ messages' # <<>> /\ Last(messages') = reply
      /\ Has(messages') \subseteq Has(ms) \cup {reply}
  BY <1>1, <1>3, ChatAppend, AppendHas
<1>6. Shown'
  <2>1. \A m \in Has(messages') : m \in Has(messages) \/ Right(m)
    BY <1>3, <1>5, UndoneRight
  <2> QED BY <1>1, <2>1, ShownStays
<1>7. Counted'
  <2>1. ASSUME NEW i \in Requests, i > r PROVE i > count
    BY <1>2, <2>1 DEF Requests
  <2>2. ASSUME NEW i \in pendingFrom PROVE i <= r
    <3>1. i \in Nat /\ i <= count BY DEF IInv, Buffered, Requests, Told, Counted
    <3> QED BY <1>2, <3>1
  <2> HIDE DEF r
  <2> QED BY <1>1, <1>2, <2>1, <2>2 DEF Told, Counted
<1>8. CASE stream
  <2>1. source' = r /\ conn' = [i \in Requests |-> CASE i = r -> "open"
                                                     [] i = source /\ i # r -> "closed"
                                                     [] OTHER -> conn[i]]
    BY <1>1, <1>8 DEF SendStreamRequest
  <2>2. Growing' BY <1>3, <1>5 DEF Growing
  <2>3. ASSUME NEW i \in Requests, conn'[i] = "open" PROVE i = r
    <3>1. conn[i] = "open" => source = i BY DEF IInv, Wired
    <3> HIDE DEF r
    <3> QED BY <2>1, <2>3, <3>1
  <2>4. ASSUME pendingFrom \subseteq {r} PROVE pending["content"] = <<>>
    <3>1. pendingFrom = {}
      <4>1. \A i \in pendingFrom : i <= count BY DEF Told, Counted
      <4>2. ~(r <= count) BY <1>2
      <4> QED BY <2>4, <4>1, <4>2
    <3>2. pending = NoText BY <3>1 DEF IInv, Buffered
    <3> QED BY <3>2 DEF NoText, Kinds
  <2>5. Read(script[r], 0, 0) = <<>>
    <3>1. script[r] \in Seq(Chunk) /\ Len(script[r]) \in Nat BY <1>2, ScriptFacts
    <3>2. 0 \in Nat /\ 0 \in 0..Len(script[r]) /\ 0 <= 0 BY <3>1
    <3> HIDE DEF r
    <3> QED BY <3>1, <3>2, ReadFacts
  <2> HIDE DEF r
  <2>6. ReadsOn'
    <3> SUFFICES ASSUME pendingFrom \subseteq {r}
                 PROVE  \E k \in 0..pos[r] : /\ reply.content = Read(script[r], 0, k)
                                             /\ pending["content"] = Read(script[r], k, pos[r])
      BY <1>1, <1>3, <1>5, <2>3 DEF ReadsOn
    <3>1. 0 \in 0..pos[r] BY <1>4
    <3>2. /\ reply.content = Read(script[r], 0, 0)
          /\ pending["content"] = Read(script[r], 0, pos[r])
      BY <1>3, <1>4, <2>4, <2>5
    <3> QED BY <3>1, <3>2
  <2> QED BY <1>6, <1>7, <2>2, <2>6 DEF Told
<1>9. CASE ~stream
  <2>1. source' = source /\ conn' = [conn EXCEPT ![r] = "flight"]
    BY <1>1, <1>9 DEF SendNonStreamingChat
  <2>2. source = 0 /\ \A i \in Requests : conn[i] # "open" BY <1>9, NoStream
  <2>3. \A i \in Requests : conn'[i] # "open" BY <2>1, <2>2 DEF IInv, Wired
  <2>4. Growing' /\ ReadsOn' BY <2>1, <2>2, <2>3 DEF Growing, ReadsOn
  <2> QED BY <1>6, <1>7, <2>4 DEF Told
<1> QED BY <1>8, <1>9

\* A generation ends with an error or a stop.
LEMMA EndTold ==
  ASSUME IInv, Told, source # 0 \/ ~stream, source' = 0, \A i \in Requests : conn'[i] # "open",
         UNCHANGED <<stream, stored, left, script, pos, count>>, pendingFrom' = {},
         messages' \in {WithError(Flushed), Stopped(Flushed)}
  PROVE  Told'
<1>1. IsChat(messages) BY DEF IInv, Conversed
<1>2. IsChat(Flushed) /\ Carries(Flushed, messages) BY <1>1, FlushedKeeps
<1>3. Carries(messages', Flushed) BY <1>2, EndsSettle
<1>4. Unread(messages) BY LastUnread
<1>5. \A m \in Has(messages') : m \in Has(messages) \/ ~m.done
  BY <1>2, <1>3, <1>4 DEF Carries
<1> QED BY <1>5, IdleTold

\* The last message of the conversation, once it was read up to [DONE].
LEMMA DoneRight ==
  ASSUME IInv, Answered, Told, NEW r \in Requests, conn[r] = "open", source = r, stream,
         pos[r] = Len(script[r]),
         NEW d, d.status = "complete", d.req = Last(messages).req,
         d.srcs = Last(messages).srcs \cup pendingFrom,
         d.content = ParseThinkTags(Last(Flushed).content).visible
  PROVE  Right(d)
<1> SUFFICES ASSUME d.req # 0, d.srcs \subseteq {d.req}, Legible(script[d.req], "content")
             PROVE  d.content = ParseThinkTags(Read(script[d.req], 0, Len(script[d.req]))).visible
  BY DEF Right, IsRight
<1> DEFINE s == script[r]
           n == Len(s)
<1>1. d.req = r /\ Last(messages).req = r /\ Last(messages).srcs \cup pendingFrom \subseteq {r}
  BY DEF Answered, Requests
<1>2. messages # <<>> /\ IsPending(Last(messages)) BY DEF Told, Growing, Requests
<1>3. LET c == Last(messages).content
          p == pending["content"]
      IN  Last(Flushed).content = IF p = <<>> THEN c ELSE c \o AppendableChunk(c, p)
  BY <1>2, FlushedReads
<1>4. s \in Seq(Chunk) /\ n \in Nat /\ Legible(s, "content") BY <1>1, ScriptFacts
<1>5. PICK k \in 0..pos[r] : /\ Last(messages).content = Read(s, 0, k)
                             /\ pending["content"] = Read(s, k, pos[r])
  BY <1>1, <1>4 DEF Told, ReadsOn
<1>6. k \in 0..n /\ n \in k..n /\ pos[r] = n BY <1>4
<1> HIDE DEF s, n
<1>7. Read(s, 0, n) = IF Read(s, k, n) = <<>> THEN Read(s, 0, k)
                      ELSE Read(s, 0, k) \o AppendableChunk(Read(s, 0, k), Read(s, k, n))
  BY <1>4, <1>6, FlushReadsOn DEF n
<1>8. Last(Flushed).content = Read(s, 0, n) BY <1>3, <1>5, <1>6, <1>7
<1> QED BY <1>1, <1>8 DEF s, n

\* [DONE] arrives.
LEMMA DoneTold ==
  ASSUME IInv, Answered, Told, NEW r \in Requests, StreamDone(r)
  PROVE  Told'
<1>1. /\ conn[r] = "open" /\ pos[r] = Len(script[r]) /\ CloseActiveStream(r)
      /\ messages' = ReadToEnd(CompleteLast(Flushed)) /\ pendingFrom' = {}
      /\ UNCHANGED <<stream, stored, left, script, pos, count>>
  BY DEF StreamDone, SetMessages, NothingPending
<1>2. source = r /\ source # 0 /\ stream
  <2>1. source = r /\ source # 0 BY <1>1 DEF IInv, Wired, Requests
  <2> QED BY <2>1 DEF IInv, Wired
<1>3. source' = 0 /\ \A i \in Requests : conn'[i] # "open"
  <2>1. \A i \in Requests : conn[i] = "open" => i = r BY <1>2 DEF IInv, Wired
  <2> QED BY <1>1, <1>2, <2>1 DEF CloseActiveStream, IInv, Wired
<1>4. messages # <<>> /\ IsPending(Last(messages)) BY <1>2 DEF Told, Growing
<1> DEFINE l == Last(Flushed)
           c == CompleteAssistantMessage(l)
           done == UpdateLastAssistantMessage(Flushed, c)
           d == [c EXCEPT !.done = TRUE]
<1>5. /\ IsChat(Flushed) /\ Flushed # <<>> /\ IsPending(l) /\ l.req = Last(messages).req
      /\ l.srcs = Last(messages).srcs \cup pendingFrom
  BY <1>4, FlushedReads
<1>6. IsMessage(l) /\ l.from = "assistant" BY <1>5, LastMessage, PendingIsAssistant
<1>7. SameReply(l, c) /\ c.content = ParseThinkTags(l.content).visible /\ c.status = "complete"
  BY <1>6, CompleteKeeps, CompleteReads
<1>8. CompleteLast(Flushed) = done
  BY <1>5 DEF CompleteLast, IsFinal, IsPending
<1> HIDE DEF l, c
<1>9. IsChat(done) /\ done # <<>> /\ Last(done) = c /\ Has(done) \subseteq Has(Flushed) \cup {c}
  BY <1>5, <1>6, <1>7, UpdateLastKeeps DEF SameReply, l
<1>10. messages' = UpdateLastAssistantMessage(done, d)
  BY <1>1, <1>8, <1>9 DEF ReadToEnd
<1>11. /\ IsMessage(d) /\ d.req = c.req /\ d.srcs = c.srcs /\ d.content = c.content
       /\ d.status = c.status
  BY <1>7 DEF SameReply, IsMessage, Fields
<1> HIDE DEF d, done
<1>12. Has(messages') \subseteq Has(done) \cup {d} BY <1>9, <1>10, <1>11, UpdateLastKeeps
<1>13. Right(d)
  BY <1>1, <1>2, <1>5, <1>7, <1>11, DoneRight DEF SameReply, l
<1>14. Unread(messages) BY <1>2, LastUnread
<1>15. Carries(Flushed, messages) BY FlushedKeeps DEF IInv, Conversed
<1>16. ~c.done
  BY <1>5, <1>7, <1>14, <1>15 DEF Carries, Unread, SameReply, l
<1>17. \A m \in Has(messages') : m \in Has(messages) \/ Right(m)
  BY <1>9, <1>12, <1>13, <1>14, <1>15, <1>16, UndoneRight DEF Carries
<1>18. Shown' BY <1>1, <1>17, ShownStays
<1>19. Counted' BY <1>1 DEF Told, Counted
<1>20. Growing' /\ ReadsOn' BY <1>3 DEF Growing, ReadsOn
<1> QED BY <1>18, <1>19, <1>20 DEF Told

\* A chunk arrives.
LEMMA ChunkTold ==
  ASSUME IInv, Told, NEW r \in Requests, ReceiveChunk(r)
  PROVE  Told'
<1> DEFINE s == script[r]
           p == pos[r]
<1>1. /\ conn[r] = "open" /\ p < Len(s) /\ pos' = [pos EXCEPT ![r] = p + 1]
      /\ pending' = [pending EXCEPT ![s[p + 1].type] =
                       MergePendingStreamChunk(pending[s[p + 1].type], s[p + 1].text)]
      /\ pendingFrom' = pendingFrom \cup {r}
      /\ UNCHANGED <<stream, stored, left, messages, source, conn, script, count>>
  BY DEF ReceiveChunk, MergeNext
<1>2. r \in Nat /\ count \in Nat /\ r <= count
  <2>1. r \in Nat /\ count \in Nat BY DEF IInv, Wired, Requests
  <2>2. ~(r > count) BY <1>1 DEF IInv, Wired
  <2> QED BY <2>1, <2>2
<1>3. s \in Seq(Chunk) /\ Len(s) \in Nat BY ScriptFacts
<1>4. pos \in [Requests -> Nat] /\ pending \in [Kinds -> Seq(STRING)] BY DEF IInv, Buffered
<1>5. p \in Nat /\ p + 1 \in 1..Len(s) /\ p + 1 \in 0..Len(s) /\ (p + 1) - 1 = p
  <2>1. p \in Nat /\ p < Len(s) /\ Len(s) \in Nat BY <1>1, <1>3, <1>4
  <2> HIDE DEF p, s
  <2> QED BY <2>1
<1>6. pos'[r] = p + 1 /\ \A i \in Requests : i # r => pos'[i] = pos[i]
  BY <1>1, <1>4
<1>7. s[p + 1] \in Chunk /\ s[p + 1].type \in Kinds
  <2>1. s[p + 1] \in Chunk BY <1>3, <1>5, ElementOfSeq
  <2> QED BY <2>1 DEF Chunk, Kinds
<1>8. pending'["content"] = IF s[p + 1].type = "content"
                            THEN MergePendingStreamChunk(pending["content"], s[p + 1].text)
                            ELSE pending["content"]
  BY <1>1, <1>4, <1>7 DEF Kinds
<1>9. Counted'
  <2>1. ~(r > count) BY <1>2
  <2>2. ASSUME NEW i \in Requests
        PROVE  pos'[i] \in 0..Len(script[i]) /\ (i > count => pos'[i] = 0)
    <3>1. CASE i = r BY <1>5, <1>6, <2>1, <3>1
    <3>2. CASE i # r BY <1>6, <3>2 DEF Told, Counted
    <3> QED BY <3>1, <3>2
  <2> QED BY <1>1, <1>2, <2>2 DEF Told, Counted
<1>10. Shown' BY <1>1, ShownStays
<1>11. Growing' BY <1>1 DEF Told, Growing
<1>12. ReadsOn'
  <2>1. ASSUME NEW i \in Requests, conn'[i] = "open" PROVE i = r
    BY <1>1, <2>1 DEF IInv, Wired
  <2> SUFFICES ASSUME Legible(s, "content"), Last(messages).req = r,
                      Last(messages).srcs \cup pendingFrom \subseteq {r}
               PROVE  \E k \in 0..pos'[r] : /\ Last(messages).content = Read(s, 0, k)
                                            /\ pending'["content"] = Read(s, k, pos'[r])
    BY <1>1, <2>1 DEF ReadsOn
  <2>2. PICK k \in 0..p : Last(messages).content = Read(s, 0, k) /\ pending["content"] = Read(s, k, p)
    BY <1>1 DEF Told, ReadsOn
  <2>3. k \in Nat /\ k \in 0..Len(s) /\ p \in k..Len(s) /\ p + 1 > k /\ k \in 0..(p + 1)
    BY <1>1, <1>3, <1>5
  <2>4. s[p + 1].type = "content" =>
          MergePendingStreamChunk(Read(s, k, p), s[p + 1].text) = Read(s, k, p + 1)
    BY <1>1, <1>3, <2>3, MergeReadsOn
  <2>5. s[p + 1].type # "content" => Read(s, k, p) = Read(s, k, p + 1)
    <3>1. \A j \in 1..Len(s) : j > k /\ s[j].type # "content" => Read(s, k, j) = Read(s, k, j - 1)
      BY <1>3, <2>3, ReadFacts
    <3> HIDE DEF s, p
    <3> QED BY <1>5, <2>3, <3>1
  <2> HIDE DEF s, p
  <2>6. pending'["content"] = Read(s, k, p + 1) BY <1>8, <2>2, <2>4, <2>5
  <2> QED BY <1>6, <2>2, <2>3, <2>6
<1> QED BY <1>9, <1>10, <1>11, <1>12 DEF Told

\* The flush timer fires.
LEMMA FlushTold ==
  ASSUME IInv, Told, FlushStreamUpdates
  PROVE  Told'
<1>1. /\ messages' = Flushed /\ pending' = NoText /\ pendingFrom' = {}
      /\ UNCHANGED <<stream, stored, left, source, conn, script, pos, count>>
  BY DEF FlushStreamUpdates, SetMessages, NothingPending
<1>2. source # 0 BY DEF FlushStreamUpdates, IInv, Wired, Buffered
<1>3. messages # <<>> /\ IsPending(Last(messages)) BY <1>2 DEF Told, Growing
<1> DEFINE l == Last(Flushed)
<1>4. /\ Flushed # <<>> /\ IsPending(l) /\ l.req = Last(messages).req
      /\ l.srcs = Last(messages).srcs \cup pendingFrom
      /\ LET c == Last(messages).content
             p == pending["content"]
         IN  l.content = IF p = <<>> THEN c ELSE c \o AppendableChunk(c, p)
  BY <1>3, FlushedReads
<1> HIDE DEF l
<1>5. Counted' BY <1>1 DEF Told, Counted
<1>6. Shown'
  <2>1. Unread(messages) BY <1>2, LastUnread
  <2>2. Carries(Flushed, messages) BY FlushedKeeps DEF IInv, Conversed
  <2>3. \A m \in Has(messages') : m \in Has(messages) \/ Right(m)
    BY <1>1, <2>1, <2>2, UndoneRight DEF Carries
  <2> QED BY <1>1, <2>3, ShownStays
<1>7. Growing' BY <1>1, <1>4 DEF Growing, l
<1>8. ReadsOn'
  <2> SUFFICES ASSUME NEW r \in Requests, conn[r] = "open", Legible(script[r], "content"),
                      l.req = r, l.srcs \subseteq {r}
               PROVE  \E k \in 0..pos[r] : /\ l.content = Read(script[r], 0, k)
                                           /\ NoText["content"] = Read(script[r], k, pos[r])
    BY <1>1 DEF ReadsOn, l
  <2> DEFINE s == script[r]
             p == pos[r]
  <2>1. s \in Seq(Chunk) /\ Len(s) \in Nat BY ScriptFacts
  <2>2. p \in 0..Len(s) BY DEF Told, Counted
  <2>3. PICK k \in 0..p : Last(messages).content = Read(s, 0, k) /\ pending["content"] = Read(s, k, p)
    BY <1>4 DEF Told, ReadsOn
  <2>4. k \in 0..Len(s) /\ p \in k..Len(s) /\ p \in 0..p /\ p \in Nat /\ p <= p BY <2>1, <2>2
  <2>5. Read(s, 0, p) = IF Read(s, k, p) = <<>> THEN Read(s, 0, k)
                        ELSE Read(s, 0, k) \o AppendableChunk(Read(s, 0, k), Read(s, k, p))
    BY <2>1, <2>4, FlushReadsOn
  <2>6. Read(s, p, p) = <<>> BY <2>1, <2>2, <2>4, ReadFacts
  <2>7. NoText["content"] = <<>> BY DEF NoText, Kinds
  <2> HIDE DEF s, p
  <2>8. l.content = Read(s, 0, p) BY <1>4, <2>3, <2>5
  <2> QED BY <2>4, <2>6, <2>7, <2>8 DEF s, p
<1> QED BY <1>5, <1>6, <1>7, <1>8 DEF Told

\* The page goes, and what its connections can still reach was not read to the end.
LEMMA LeaveTold ==
  ASSUME IInv, Told, NEW cleanly \in BOOLEAN, Leave(cleanly)
  PROVE  Told'
<1>1. /\ messages' = <<>> /\ source' = 0 /\ pendingFrom' = {}
      /\ stored' \in {stored, TrimMessages(messages)}
      /\ left' \subseteq left \/ (OldPage.reqs # {} /\ left' \subseteq left \cup {OldPage})
      /\ UNCHANGED <<stream, script, pos, count>>
      /\ \A i \in Requests : conn'[i] # "open"
  BY DEF Leave, Write, NothingPending
<1>2. IsChat(messages) /\ Has(TrimMessages(messages)) \subseteq Has(messages)
  BY TrimHas DEF IInv, Conversed
<1>3. Has(messages') = {} BY <1>1, NoMessages DEF Has
<1>4. ASSUME OldPage.reqs # {} PROVE Unread(messages)
  <2>1. PICK i \in Requests : conn[i] \in {"open", "flight"} BY <1>4 DEF OldPage
  <2>2. source # 0 \/ ~stream BY <2>1 DEF IInv, Wired, Requests
  <2> QED BY <2>2, LastUnread
<1>5. OldPage.messages = messages BY DEF OldPage
<1>6. ASSUME NEW p \in left'
      PROVE  p \in left \/ (Unread(p.messages) /\ \A m \in Has(p.messages) : Right(m))
  BY <1>1, <1>4, <1>5 DEF Told, Shown
<1>7. Shown' BY <1>1, <1>2, <1>3, <1>6, ShownStays
<1>8. Counted' BY <1>1 DEF Told, Counted
<1>9. Growing' /\ ReadsOn' BY <1>1 DEF Growing, ReadsOn
<1> QED BY <1>7, <1>8, <1>9 DEF Told

\* The page comes back; a reply that was stored while pending is ended, and was not
\* read up to [DONE].
LEMMA MountTold ==
  ASSUME IInv, Told, Mount
  PROVE  Told'
<1>1. /\ ~mounted /\ messages' = LoadMessages
      /\ stored' \in {stored, TrimMessages(LoadMessages)}
      /\ UNCHANGED <<stream, left, source, pending, pendingFrom, conn, script, pos, count>>
  BY DEF Mount, Write
<1>2. source = 0 /\ \A r \in Requests : conn[r] # "open"
  BY <1>1, NoStream DEF IInv, Wired, Generating
<1>3. IsChat(stored) /\ IsChat(LoadMessages) BY LoadedIsSettled DEF IInv, Conversed
<1>4. Has(TrimMessages(LoadMessages)) \subseteq Has(LoadMessages) BY <1>3, TrimHas
<1>5. ASSUME NEW m \in Has(LoadMessages) PROVE Right(m)
  <2>1. PICK n \in Has(stored) : Ended(m, n) BY <1>3, LoadedHas
  <2>2. Right(n) BY DEF Told, Shown
  <2>3. CASE m = n BY <2>2, <2>3
  <2>4. CASE IsPending(n) /\ m.done = n.done
    <3>1. ~n.done BY <2>2, <2>4, RightUndone
    <3> QED BY <2>4, <3>1, UndoneRight
  <2> QED BY <2>1, <2>3, <2>4 DEF Ended
<1>6. Shown' BY <1>1, <1>4, <1>5, ShownStays
<1>7. Counted' BY <1>1 DEF Told, Counted
<1>8. Growing' /\ ReadsOn' BY <1>1, <1>2 DEF Growing, ReadsOn
<1> QED BY <1>6, <1>7, <1>8 DEF Told

\* An old page saves what it made of its messages.
LEMMA LateSaveTold ==
  ASSUME IInv, Told, NEW p \in left, LateSave(p)
  PROVE  Told'
<1>1. /\ left' \subseteq left
      /\ conn' = [i \in Requests |-> IF i \in p.reqs THEN "closed" ELSE conn[i]]
      /\ UNCHANGED <<stream, messages, source, pending, pendingFrom, script, pos, count>>
  BY DEF LateSave
<1>2. PICK ms \in LateUpdates(p) : stored' = TrimMessages(ms)
  BY DEF LateSave, Write
<1>3. IsChat(ms) /\ Carries(ms, p.messages) BY LateUpdatesKeep DEF IInv
<1>4. Has(stored') \subseteq Has(ms) BY <1>2, <1>3, TrimHas
<1>5. ASSUME NEW m \in Has(ms) PROVE Right(m)
  <2>1. Unread(p.messages) /\ \A n \in Has(p.messages) : Right(n) BY DEF Told, Shown
  <2>2. m \in Has(p.messages) \/ ~m.done BY <1>3, <2>1 DEF Carries
  <2> QED BY <2>1, <2>2, UndoneRight
<1>6. Shown' BY <1>1, <1>4, <1>5, ShownStays
<1>7. Counted' /\ Growing' BY <1>1 DEF Told, Counted, Growing
<1>8. \A i \in Requests : conn'[i] = "open" => conn[i] = "open" BY <1>1
<1>9. ReadsOn' BY <1>1, <1>8 DEF Told, ReadsOn
<1> QED BY <1>6, <1>7, <1>9 DEF Told

\* A chunk arrives for an old page, whose requests are not behind the page that is shown.
LEMMA LateChunkTold ==
  ASSUME IInv, Told, NEW p \in left, NEW r \in p.reqs, LateChunk(p, r)
  PROVE  Told'
<1>1. /\ pos[r] < Len(script[r]) /\ pos' = [pos EXCEPT ![r] = pos[r] + 1]
      /\ UNCHANGED <<stream, stored, messages, source, pending, pendingFrom, conn, script, count>>
  BY DEF LateChunk
<1>2. PICK n : left' = (left \ {p}) \cup {n} /\ n.messages = p.messages
  BY LateChunkPage DEF IInv, Parted
<1>3. r \in Requests /\ conn[r] \in {"left", "closed"} BY DEF IInv, Parted, IsPage
<1>4. ~(r > count) BY <1>3 DEF IInv, Wired
<1>5. pos \in [Requests -> Nat] /\ Len(script[r]) \in Nat BY <1>3, ScriptFacts DEF IInv, Buffered
<1>6. pos'[r] = pos[r] + 1 /\ \A i \in Requests : i # r => pos'[i] = pos[i]
  BY <1>1, <1>3, <1>5
<1>7. pos[r] + 1 \in 0..Len(script[r])
  <2>1. pos[r] \in Nat BY <1>3, <1>5
  <2> QED BY <1>1, <1>5, <2>1
<1>8. Counted'
  <2>1. ASSUME NEW i \in Requests
        PROVE  pos'[i] \in 0..Len(script[i]) /\ (i > count => pos'[i] = 0)
    <3>1. CASE i = r BY <1>4, <1>6, <1>7, <3>1
    <3>2. CASE i # r BY <1>6, <3>2 DEF Told, Counted
    <3> QED BY <3>1, <3>2
  <2> QED BY <1>1, <2>1 DEF Told, Counted
<1>9. ASSUME NEW q \in left'
      PROVE  q \in left \/ (Unread(q.messages) /\ \A m \in Has(q.messages) : Right(m))
  BY <1>2 DEF Told, Shown
<1>10. Shown' BY <1>1, <1>9, ShownStays
<1>11. Growing' BY <1>1 DEF Told, Growing
<1>12. \A i \in Requests : conn[i] = "open" => pos'[i] = pos[i] BY <1>3, <1>6
<1>13. ReadsOn' BY <1>1, <1>12 DEF Told, ReadsOn
<1> QED BY <1>8, <1>10, <1>11, <1>13 DEF Told

LEMMA ToldStep ==
  ASSUME IInv, Answered, Told, [Next]_vars
  PROVE  Told'
<1>1. IsChat(messages) /\ DOMAIN messages = 1..Len(messages) /\ Len(messages) \in Nat
  BY ChatLength DEF IInv, Conversed
<1>2. ~Generating => Settled(messages)
  BY DEF IInv, Conversed
<1>3. CASE UserStep
  <2>1. CASE HandleSendMessage
    <3> DEFINE question == UserMessage(keys + 1)
    <3> DEFINE asked == Append(messages, question)
    <3>1. /\ ~Generating /\ UNCHANGED <<stream, stored, left>> /\ SendChat(asked, keys + 2)
      BY <2>1 DEF HandleSendMessage
    <3>2. IsMessage(question) /\ ~IsPending(question) /\ ~question.done
      BY NewMessages DEF UserMessage
    <3> HIDE DEF question
    <3>3. IsChat(asked) /\ Settled(asked)
      BY <1>1, <1>2, <3>1, <3>2, ChatAppend
    <3>4. \A m \in Has(asked) : m \in Has(messages) \/ ~m.done
      BY <1>1, <3>2, AppendHas
    <3> HIDE DEF asked
    <3> QED BY <3>1, <3>3, <3>4, SendTold
  <2>2. ASSUME NEW i \in DOMAIN messages, HandleRegenerateMessage(i) PROVE Told'
    <3> DEFINE kept == KeptForRegeneration(i)
    <3>1. /\ ~Generating /\ UNCHANGED <<stream, stored, left>> /\ SendChat(kept, keys + 1)
      BY <2>2 DEF HandleRegenerateMessage
    <3>2. IsChat(kept) /\ Settled(kept) BY <1>1, <1>2, <3>1, RegenerationKeeps
    <3>3. Has(kept) \subseteq Has(messages)
      <4> DEFINE n == IF messages[i].from = "user" THEN i ELSE i - 1
      <4>1. n \in Int /\ n <= Len(messages) /\ 1 \in Nat \ {0} BY <1>1
      <4>2. kept = SubSeq(messages, 1, n) BY DEF KeptForRegeneration
      <4> HIDE DEF n, kept
      <4> QED BY <1>1, <4>1, <4>2, PartHas
    <3> HIDE DEF kept
    <3> QED BY <3>1, <3>2, <3>3, SendTold
  <2>3. ASSUME NEW i \in DOMAIN messages, HandleEditMessage(i) PROVE Told'
    BY <2>3, RestTold DEF HandleEditMessage, chat
  <2>4. ASSUME NEW i \in DOMAIN messages, HandleDeleteMessage(i) PROVE Told'
    <3>1. /\ ~Generating /\ messages' = RemoveAt(messages, i)
          /\ UNCHANGED <<stream, stored, left, source, pendingFrom, conn, script, pos, count>>
      BY <2>4 DEF HandleDeleteMessage, SetMessages
    <3>2. Has(messages') \subseteq Has(messages) BY <1>1, <3>1, RemoveHas
    <3>3. source' = 0 /\ \A r \in Requests : conn'[r] # "open" BY <3>1, NoStream
    <3> QED BY <3>1, <3>2, <3>3, IdleTold
  <2>5. ASSUME NEW i \in DOMAIN messages, NEW shouldSubmit \in BOOLEAN, ApplyEdit(i, shouldSubmit)
        PROVE  Told'
    <3> DEFINE edited == Edited(messages[i])
    <3> DEFINE updated == [messages EXCEPT ![i] = edited]
    <3> DEFINE kept == SubSeq(updated, 1, i)
    <3>1. /\ UNCHANGED <<stream, stored, left>>
          /\ \/ /\ messages' = updated
                /\ UNCHANGED <<source, pending, pendingFrom, conn, script, pos, count>>
             \/ messages[i].from = "user" /\ SendChat(kept, keys + 1)
      BY <2>5 DEF ApplyEdit, SetMessages
    <3>2. /\ IsChat(updated) /\ updated # <<>>
          /\ messages[i].from = "user" => IsChat(kept) /\ Settled(kept)
          /\ \/ Last(updated) = Last(messages)
             \/ Last(updated).req = 0 /\ (IsPending(Last(messages)) => IsPending(Last(updated)))
      BY <1>1, EditKeeps
    <3>3. ~edited.done
      <4>1. IsMessage(messages[i]) BY <1>1 DEF IsChat
      <4> QED BY <4>1, EditedKeeps
    <3> HIDE DEF edited
    <3>4. Has(updated) \subseteq Has(messages) \cup {edited} /\ Len(updated) = Len(messages)
      BY <1>1, ExceptHas
    <3> HIDE DEF updated
    <3>5. Has(kept) \subseteq Has(updated)
      <4>1. i \in Int /\ i <= Len(updated) /\ 1 \in Nat \ {0} BY <1>1, <3>4
      <4> QED BY <3>2, <4>1, PartHas
    <3> HIDE DEF kept
    <3>6. CASE /\ messages' = updated
               /\ UNCHANGED <<source, pending, pendingFrom, conn, script, pos, count>>
      <4>1. Shown' BY <3>1, <3>3, <3>4, <3>6, UndoneRight, ShownStays
      <4>2. Counted' BY <3>6 DEF Told, Counted
      <4>3. Growing' BY <3>2, <3>6 DEF Told, Growing
      <4>4. \A r \in Requests : r # 0 BY DEF Requests
      <4>5. ReadsOn' BY <3>2, <3>6, <4>4 DEF Told, ReadsOn
      <4> QED BY <4>1, <4>2, <4>3, <4>5 DEF Told
    <3>7. CASE messages[i].from = "user" /\ SendChat(kept, keys + 1)
      BY <3>1, <3>2, <3>3, <3>4, <3>5, <3>7, SendTold
    <3> QED BY <3>1, <3>6, <3>7
  <2>6. CASE CancelEdit
    BY <2>6, RestTold DEF CancelEdit, chat
  <2>7. CASE HandleClearMessages
    <3>1. /\ ~Generating /\ messages' = <<>>
          /\ UNCHANGED <<stream, stored, left, source, pendingFrom, conn, script, pos, count>>
      BY <2>7 DEF HandleClearMessages, SetMessages
    <3>2. Has(messages') = {} BY <3>1, NoMessages DEF Has
    <3>3. source' = 0 /\ \A r \in Requests : conn'[r] # "open" BY <3>1, NoStream
    <3> QED BY <3>1, <3>2, <3>3, IdleTold
  <2>8. CASE StopGeneration
    <3>1. /\ Generating /\ source' = 0 /\ messages' = Stopped(Flushed) /\ pendingFrom' = {}
          /\ UNCHANGED <<stream, stored, left, script, pos, count>>
          /\ conn' = [i \in Requests |-> IF i \in {source, controller} THEN "closed" ELSE conn[i]]
      BY <2>8 DEF StopGeneration, SetMessages, NothingPending
    <3>2. source # 0 \/ ~stream BY <3>1 DEF Generating, IInv, Wired
    <3>3. \A i \in Requests : conn'[i] # "open" BY <3>1 DEF IInv, Wired
    <3> QED BY <3>1, <3>2, <3>3, EndTold
  <2> QED BY <1>3, <2>1, <2>2, <2>3, <2>4, <2>5, <2>6, <2>7, <2>8 DEF UserStep
<1>4. ASSUME NEW r \in Requests, Receive(r) \/ StreamCut(r) PROVE Told'
  <2>1. CASE ReceiveChunk(r)
    BY <2>1, ChunkTold
  <2>2. CASE StreamDone(r)
    BY <2>2, DoneTold
  <2>3. CASE StreamError(r)
    <3>1. /\ conn[r] = "open" /\ CloseActiveStream(r) /\ messages' = WithError(Flushed)
          /\ pendingFrom' = {} /\ UNCHANGED <<stream, stored, left, script, pos, count>>
      BY <2>3 DEF StreamError, SetMessages, NothingPending
    <3>2. source = r /\ source # 0 BY <3>1 DEF IInv, Wired, Requests
    <3>3. source' = 0 /\ \A i \in Requests : conn'[i] # "open"
      <4>1. \A i \in Requests : conn[i] = "open" => i = r BY <3>2 DEF IInv, Wired
      <4> QED BY <3>1, <3>2, <4>1 DEF CloseActiveStream, IInv, Wired
    <3> QED BY <3>1, <3>2, <3>3, EndTold
  <2>4. ASSUME conn[r] = "flight", FinishRequest(r)
        PROVE  ~stream /\ source = 0 /\ \A i \in Requests : conn'[i] # "open"
    <3>1. ~stream BY <2>4 DEF IInv, Wired
    <3>2. source = 0 /\ \A i \in Requests : conn[i] # "open" BY <3>1, NoStream
    <3> QED BY <2>4, <3>1, <3>2 DEF FinishRequest, IInv, Wired
  <2>5. CASE ReceiveResponse(r)
    <3>1. /\ conn[r] = "flight" /\ FinishRequest(r) /\ messages' = WithResponse(messages, r)
          /\ UNCHANGED <<stream, stored, left, source, pendingFrom, script, pos, count>>
      BY <2>5 DEF ReceiveResponse, SetMessages
    <3>2. ~stream /\ source = 0 /\ \A i \in Requests : conn'[i] # "open" BY <2>4, <3>1
    <3>3. Unread(messages) BY <3>2, LastUnread
    <3>4. Carries(messages', messages) BY <1>1, <3>1, ResponseSettles
    <3>5. \A m \in Has(messages') : m \in Has(messages) \/ ~m.done BY <3>3, <3>4 DEF Carries
    <3> QED BY <3>1, <3>2, <3>5, IdleTold
  <2>6. CASE ReceiveFailure(r)
    <3>1. /\ conn[r] = "flight" /\ FinishRequest(r) /\ messages' = WithError(Flushed)
          /\ pendingFrom' = {} /\ UNCHANGED <<stream, stored, left, source, script, pos, count>>
      BY <2>6 DEF ReceiveFailure, SetMessages, NothingPending
    <3>2. ~stream /\ source = 0 /\ \A i \in Requests : conn'[i] # "open" BY <2>4, <3>1
    <3> QED BY <3>1, <3>2, EndTold
  <2>7. CASE StreamCut(r)
    <3>1. /\ conn' = [conn EXCEPT ![r] = "cut"]
          /\ UNCHANGED <<stream, messages, stored, left, source, pending, pendingFrom, script,
                         pos, count>>
      BY <2>7 DEF StreamCut
    <3>2. \A i \in Requests : conn'[i] = "open" => conn[i] = "open" BY <3>1 DEF IInv, Wired
    <3>3. Shown' BY <3>1, ShownStays
    <3>4. Counted' /\ Growing' BY <3>1 DEF Told, Counted, Growing
    <3>5. ReadsOn' BY <3>1, <3>2 DEF Told, ReadsOn
    <3> QED BY <3>3, <3>4, <3>5 DEF Told
  <2> QED BY <1>4, <2>1, <2>2, <2>3, <2>5, <2>6, <2>7 DEF Receive
<1>5. CASE FlushStreamUpdates
  BY <1>5, FlushTold
<1>6. CASE SaveMessages
  <2>1. /\ stored' \in {stored, TrimMessages(messages)}
        /\ UNCHANGED <<stream, messages, left, source, pending, pendingFrom, conn, script, pos,
                       count>>
    BY <1>6 DEF SaveMessages, Write
  <2>2. Has(TrimMessages(messages)) \subseteq Has(messages) BY <1>1, TrimHas
  <2>3. Shown' BY <2>1, <2>2, ShownStays
  <2>4. Counted' /\ Growing' /\ ReadsOn' BY <2>1 DEF Told, Counted, Growing, ReadsOn
  <2> QED BY <2>3, <2>4 DEF Told
<1>7. ASSUME NEW cleanly \in BOOLEAN, Leave(cleanly) PROVE Told'
  BY <1>7, LeaveTold
<1>8. CASE Mount
  BY <1>8, MountTold
<1>9. ASSUME NEW p \in left, LateSave(p) PROVE Told'
  BY <1>9, LateSaveTold
<1>10. ASSUME NEW p \in left, NEW r \in p.reqs, LateChunk(p, r) PROVE Told'
  BY <1>10, LateChunkTold
<1>11. CASE UNCHANGED vars
  BY <1>11, RestTold DEF vars, chat
<1> QED BY <1>3, <1>4, <1>5, <1>6, <1>7, <1>8, <1>9, <1>10, <1>11 DEF Next

LEMMA InitTold == Init => Told
<1> SUFFICES ASSUME Init PROVE Told
  OBVIOUS
<1>1. Has(messages) = {} /\ Has(stored) = {} BY NoMessages DEF Init, Has
<1>2. Counted
  <2>1. 0 \in 0..MaxRequests BY PlaygroundAssumption
  <2>2. script \in [Requests -> Seq(Chunk)] BY PlaygroundAssumption DEF Init, Chunk, Texts
  <2>3. ASSUME NEW r \in Requests PROVE pos[r] = 0 /\ 0 \in 0..Len(script[r])
    <3>1. Len(script[r]) \in Nat BY <2>2, LenProperties
    <3> QED BY <3>1 DEF Init
  <2> QED BY <2>1, <2>3 DEF Init, Counted
<1>3. Shown BY <1>1 DEF Init, Shown
<1>4. Growing /\ ReadsOn BY DEF Init, Growing, ReadsOn
<1> QED BY <1>2, <1>3, <1>4 DEF Told

-----------------------------------------------------------------------------
(* The theorems                                                            *)

LEMMA InitInv == Init => IInv /\ Answered
<1> SUFFICES ASSUME Init PROVE IInv /\ Answered
  OBVIOUS
<1>1. Wired
  BY DEF Init, Wired, Ends, Connections, Requests
<1>2. Buffered
  <2>1. NoText \in [Kinds -> Seq(STRING)] BY DEF NoText
  <2>2. pos \in [Requests -> Nat] BY DEF Init
  <2> QED BY <2>1, <2>2 DEF Init, Buffered
<1>3. TrimMessages(<<>>) = <<>>
  BY NoMessages, PlaygroundAssumption DEF TrimMessages
<1>4. Conversed
  <2>1. /\ messages = <<>> /\ stored = <<>> /\ mounted = TRUE /\ saveTimer = FALSE
        /\ behind = FALSE
    BY DEF Init
  <2>2. Len(<<>>) <= MaxStored BY NoMessages, PlaygroundAssumption
  <2>3. StoredFollows BY <1>3, <2>1 DEF StoredFollows
  <2> QED BY <2>1, <2>2, <2>3, NoMessages DEF Conversed
<1>5. Parted BY DEF Init, Parted
<1>6. Answered
  BY NoMessages DEF Init, Answered
<1> QED BY <1>1, <1>2, <1>4, <1>5, <1>6 DEF IInv

LEMMA IInvStep == IInv /\ [Next]_vars => IInv'
BY WiredStep, BufferedStep, ConversedStep, PartedStep DEF IInv

LEMMA Invariant == Spec => []IInv
<1>1. Init => IInv BY InitInv
<1> QED BY <1>1, IInvStep, PTL DEF Spec

\* The timers, the source and the storage fit together: chunks are held exactly while
\* the flush timer runs, isStreaming holds exactly while there is a source, at most one
\* source is open, and the copy never exceeds the limit (TypeOK).
THEOREM PlaygroundTypeCorrect == Spec => []TypeOK
<1>1. IInv => TypeOK
  <2> SUFFICES ASSUME IInv PROVE TypeOK
    OBVIOUS
  <2>1. \A i \in DOMAIN messages : messages[i].status \in {"none", "loading", "streaming",
                                                           "complete", "error"}
    BY ChatLength DEF IInv, Conversed, IsChat, IsMessage
  <2> QED BY <2>1 DEF IInv, Wired, Buffered, Conversed, TypeOK, Ends
<1> QED BY <1>1, Invariant, PTL

\* No message is left loading or streaming once nothing is generated, on any path:
\* completion, error, stop, reload, a late answer.
THEOREM PlaygroundPending == Spec => []PendingOnlyWhileGenerating
<1>1. IInv => PendingOnlyWhileGenerating
  BY ChatLength DEF IInv, Conversed, IsChat, Settled, PendingOnlyWhileGenerating
<1> QED BY <1>1, Invariant, PTL

\* Every change of the conversation reaches its copy, or a save of it is due, or the
\* last save was lost: it failed, or a page that had been left wrote over it.
THEOREM PlaygroundStored == Spec => []StoredFollows
<1>1. IInv => StoredFollows
  BY DEF IInv, Conversed
<1> QED BY <1>1, Invariant, PTL

\* A page that shows a generation has a connection that can still end it, or one that
\* the server cut.
THEOREM PlaygroundCanEnd == Spec => []GenerationCanEnd
<1>1. IInv => GenerationCanEnd
  BY DEF IInv, Wired, Generating, GenerationCanEnd
<1> QED BY <1>1, Invariant, PTL

\* No reply ever shows the answer to another request, unless that request was under way
\* when an open editor was submitted or when another one's failure ended the generation,
\* however the flush timer, the stops, the edits, the reloads and the pages that were
\* left fall.
THEOREM PlaygroundReplies == Spec => []ReplyBelongs
<1>1. IInv /\ Answered => ReplyBelongs
  BY ChatLength DEF IInv, Conversed, Answered, Owned, Owns, ReplyBelongs
<1>2. IInv /\ Answered /\ [Next]_vars => (IInv /\ Answered)'
  BY IInvStep, AnsweredStep
<1> QED BY <1>1, <1>2, InitInv, PTL DEF Spec

\* A reply that was read up to [DONE] shows what the server said, however its chunks fell
\* between the flushes and whatever else the server sent, if its own chunks are snapshots
\* or increments that cannot be taken for snapshots and nobody else's went into it:
\* mergePendingStreamChunk and getAppendableChunk then always read on where it stands.
THEOREM PlaygroundTexts == Spec => []TextIntact
<1> DEFINE Inv == IInv /\ Answered /\ Told
<1>1. Inv => TextIntact
  <2> SUFFICES ASSUME Inv, NEW i \in DOMAIN messages, messages[i].done
               PROVE  LET m == messages[i] IN
                      /\ m.status = "complete"
                      /\ m.req # 0 /\ m.srcs \subseteq {m.req} /\ Legible(script[m.req], "content")
                           => m.content = ParseThinkTags(Said(m.req, "content")).visible
    BY DEF TextIntact
  <2>1. i \in 1..Len(messages) BY ChatLength DEF IInv, Conversed
  <2>2. Right(messages[i]) BY <2>1 DEF Told, Shown, Has
  <2> QED BY <2>2 DEF Right, IsRight, Said, Read
<1>2. Init => Inv BY InitInv, InitTold
<1>3. Inv /\ [Next]_vars => Inv' BY IInvStep, AnsweredStep, ToldStep
<1> HIDE DEF Inv
<1> QED BY <1>1, <1>2, <1>3, PTL DEF Spec
=============================================================================
