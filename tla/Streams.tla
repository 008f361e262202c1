------------------------------ MODULE Streams ------------------------------
(***************************************************************************)
(* A streamed answer on its way from the provider to the client            *)
(* (internal/inference/providers and httpapi).                             *)
(*                                                                         *)
(* The provider speaks one of three dialects.  A translator goroutine      *)
(* turns its events into OpenAI chunks and keeps the usage tap             *)
(* (anthropic_stream.go, openai_responses_stream.go; an OpenAI stream is   *)
(* passed on and metered by stream_usage.go).  The client asked on one of  *)
(* three surfaces: /v1/chat/completions forwards the chunks                *)
(* (chat_completions.go); for /v1/messages and /v1/responses a second      *)
(* goroutine renders them as native frames (messages_client.go,            *)
(* responses_client.go).  The handler writes to the client, decides how    *)
(* the stream ended and settles from the tap (gateway/service.go).         *)
(*                                                                         *)
(* The pipes between them are unbuffered: a writer waits for its reader.   *)
(* A chunk is [t, ix, v]: its type, a tool call's index, a usage count.    *)
(***************************************************************************)
EXTENDS Naturals, Sequences, SequencesExt, FiniteSets

CONSTANTS
    Dialects,    \* among "anthropic", "responses", "openai"
    Surfaces,    \* among "chat", "messages", "responses"
    Calls,       \* tool-call indexes of the provider
    MaxEvents    \* bound on the provider's events

VARIABLES
    dialect, surface,
    up,       \* the provider: events sent, calls announced, phase, how it ended
    tap,      \* TapResult, as the translator's goroutine keeps it
    chunks,   \* what the translator has still to write to its pipe
    rd,       \* the renderer
    frames,   \* what the renderer has still to write to its pipe
    client,   \* "there" or "gone"
    seen,     \* what the client has: blocks open and closed, how it ended, a frame out of order
    fenced,   \* the lease keeper lost a lease
    final     \* the handler: how the stream ended, the settlement, the stored turn

streamvars == <<dialect, surface, up, tap, chunks, rd, frames, client, seen, fenced, final>>

Chunk(t, ix, v) == [t |-> t, ix |-> ix, v |-> v]
Plain(t) == Chunk(t, 0, 0)

Init ==
    /\ dialect \in Dialects /\ surface \in Surfaces
    /\ up = [n |-> 0, calls |-> {}, phase |-> "open", ended |-> "no"]
    /\ tap = [saw |-> FALSE, usage |-> 0, terminal |-> FALSE]
    /\ chunks = <<>>
    /\ rd = [started |-> FALSE, kind |-> "", cur |-> 0, next |-> 0, tools |-> [i \in Calls |-> 0],
             open |-> {}, usage |-> FALSE, err |-> FALSE, done |-> FALSE, completed |-> FALSE,
             items |-> <<>>, turn |-> <<>>, think |-> {}, frames |-> <<>>]
    /\ frames = <<>>
    /\ client = "there"
    /\ seen = [open |-> {}, closed |-> {}, end |-> "no", bad |-> FALSE]
    /\ fenced = FALSE
    /\ final = [end |-> "no", settled |-> "no", stored |-> <<>>]

-----------------------------------------------------------------------------
(* Translation and metering *)

recordUsage(v) == [tap EXCEPT !.saw = TRUE, !.usage = v]
Usage(t) == IF t.saw THEN <<Chunk("usage", 0, t.usage)>> ELSE <<>>

\* What an Anthropic event does to the tap, and the chunks written for it.
\* The tap is kept before anything is written.
translateAnthropicEvents(e) ==
    CASE e.t = "start" -> [tap |-> IF e.v # 0 THEN recordUsage(e.v) ELSE tap, out |-> <<Plain("role")>>]
      [] e.t = "finish" -> [tap |-> IF e.v # 0 THEN recordUsage(e.v) ELSE tap, out |-> <<Plain("finish")>>]
      [] e.t = "stop" -> [tap |-> [tap EXCEPT !.terminal = TRUE], out |-> Usage(tap) \o <<Plain("done")>>]
      [] OTHER -> [tap |-> tap, out |-> <<e>>]

\* The same for a Responses event: the last one carries all there is.
translateResponsesEvents(e) ==
    CASE e.t = "start" -> [tap |-> tap, out |-> <<Plain("role")>>]
      [] e.t = "stop" ->
            LET t == [(IF e.v # 0 THEN recordUsage(e.v) ELSE tap) EXCEPT !.terminal = TRUE]
            IN  [tap |-> t, out |-> <<Plain("finish")>> \o Usage(t) \o <<Plain("done")>>]
      [] e.t = "error" -> [tap |-> IF e.v # 0 THEN recordUsage(e.v) ELSE tap, out |-> <<Plain("error")>>]
      [] OTHER -> [tap |-> tap, out |-> <<e>>]

\* The tracker of an OpenAI stream reads the lines as they pass; an
\* overlong one is not read.
scanLine(e) ==
    CASE e.t = "start" -> [tap |-> tap, out |-> <<Plain("role")>>]
      [] e.t = "usage" -> [tap |-> recordUsage(e.v), out |-> <<e>>]
      [] e.t = "stop" -> [tap |-> [tap EXCEPT !.terminal = TRUE], out |-> <<Plain("done")>>]
      [] OTHER -> [tap |-> tap, out |-> <<e>>]

Translated(e) ==
    CASE dialect = "anthropic" -> translateAnthropicEvents(e)
      [] dialect = "responses" -> translateResponsesEvents(e)
      [] dialect = "openai" -> scanLine(e)

\* The events a provider may send next: content, then the finish, the usage
\* (with the finish for Anthropic, with the end for Responses) and the end.
\* It may report an error instead at any time.
ProviderEvents ==
    LET n == up.n + 1
        counts(d) == IF dialect = d THEN {0, n} ELSE {0}
    IN  CASE up.phase = "open" /\ up.n = 0 -> {Chunk("start", 0, v) : v \in counts("anthropic")}
          [] up.phase = "open" ->
                {Plain("text"), Plain("think")}
                \cup {Chunk("call", i, 0) : i \in Calls \ up.calls} \cup {Chunk("args", i, 0) : i \in up.calls}
                \cup (IF dialect = "responses" THEN {Chunk("stop", 0, v) : v \in {0, n}}
                      ELSE {Chunk("finish", 0, v) : v \in counts("anthropic")})
                \cup (IF dialect = "openai" THEN {Plain("long")} ELSE {})
                \cup {Chunk("error", 0, v) : v \in counts("responses")}
          [] up.phase = "finished" ->
                {Plain("stop")} \cup (IF dialect = "openai" THEN {Chunk("usage", 0, n)} ELSE {})
          [] OTHER -> {}

\* The translator reads an event once its pipe has taken the last one.
Translate ==
    /\ up.ended = "no" /\ up.n < MaxEvents /\ chunks = <<>> /\ final.end = "no"
    /\ \E e \in ProviderEvents :
        /\ up' = [up EXCEPT !.n = @ + 1, !.calls = IF e.t = "call" THEN @ \cup {e.ix} ELSE @,
                            !.phase = CASE e.t = "finish" -> "finished"
                                        [] e.t \in {"stop", "error"} -> "over"
                                        [] OTHER -> @]
        /\ tap' = Translated(e).tap
        /\ chunks' = Translated(e).out
    /\ UNCHANGED <<dialect, surface, rd, frames, client, seen, fenced, final>>

\* The provider's connection ends, with or without its last event.  A
\* translator that saw no end flushes the usage it has, without [DONE].
UpstreamEnds ==
    /\ up.ended = "no" /\ chunks = <<>>
    /\ \E how \in {"eof", "error"} : up' = [up EXCEPT !.ended = how]
    /\ chunks' = IF tap.terminal \/ dialect = "openai" THEN <<>> ELSE Usage(tap)
    /\ UNCHANGED <<dialect, surface, tap, rd, frames, client, seen, fenced, final>>

-----------------------------------------------------------------------------
(* Rendering.  A frame is [t, at]: "start", "delta" or "stop" of the block *)
(* or output item at an index, "end" or "error".                           *)

Frame(t, at) == [t |-> t, at |-> at]
Emit(r, f) == [r EXCEPT !.frames = Append(@, f)]

\* message_start; response.created and response.in_progress.
emitStart(r) == IF r.started THEN r ELSE [r EXCEPT !.started = TRUE]

\* /v1/messages: blocks.
closeBlock(r, at) ==
    Emit([r EXCEPT !.open = @ \ {at}, !.kind = IF r.cur = at THEN "" ELSE @], Frame("stop", at))
closeTextBlock(r) == IF r.kind = "" THEN r ELSE closeBlock(r, r.cur)

\* MUTANT: opening a block closes every other one.
OpenOneOnly(r, k) ==
    IF r.kind = k THEN r
    ELSE LET c == FoldLeft(closeBlock, r, SetToSortSeq(r.open, <))
         IN  Emit([c EXCEPT !.kind = k, !.cur = c.next, !.next = @ + 1, !.open = {c.next}],
                  Frame("start", c.next))

openTextualBlock(r, k) ==
    IF r.kind = k THEN r
    ELSE LET c == closeTextBlock(r)
         IN  Emit([c EXCEPT !.kind = k, !.cur = c.next, !.next = @ + 1, !.open = @ \cup {c.next}],
                  Frame("start", c.next))

\* A call keeps its own block, 1 + its index in tools, for as long as it lasts.
renderToolCallDelta(r, ix, args) ==
    LET c == closeTextBlock(r)
        o == IF r.tools[ix] # 0 THEN r
             ELSE Emit([c EXCEPT !.tools[ix] = c.next + 1, !.next = @ + 1, !.open = @ \cup {c.next}],
                       Frame("start", c.next))
    IN  IF args THEN Emit(o, Frame("delta", o.tools[ix] - 1)) ELSE o

\* Every open block is closed, by index.
closeOpenBlock(r) == FoldLeft(closeBlock, r, SetToSortSeq(r.open, <))

\* [DONE]: the open blocks, message_delta unless the usage brought one, message_stop.
RenderMessages(r, c) ==
    LET s == emitStart(r) IN
    CASE c.t = "done" -> Emit([closeOpenBlock(s) EXCEPT !.done = TRUE], Frame("end", 0))
      [] c.t = "error" -> Emit([s EXCEPT !.err = TRUE], Frame("error", 0))
      [] c.t = "usage" -> [s EXCEPT !.usage = TRUE]
      [] c.t \in {"text", "think"} -> LET o == openTextualBlock(s, c.t) IN Emit(o, Frame("delta", o.cur))
      [] c.t \in {"call", "args"} -> renderToolCallDelta(s, c.ix, c.t = "args")
      [] c.t = "finish" -> closeOpenBlock(s)
      [] OTHER -> s

\* /v1/responses: output items, kept when they are closed; a turn is stored
\* without its reasoning.
closeTextualItem(r) ==
    IF r.kind = "" THEN r
    ELSE Emit([r EXCEPT !.kind = "", !.open = @ \ {r.cur}, !.items = Append(@, r.cur),
                        !.turn = IF r.kind = "think" THEN @ ELSE Append(@, r.cur)], Frame("stop", r.cur))

openTextualItem(r, k) ==
    IF r.kind = k THEN r
    ELSE LET c == closeTextualItem(r)
         IN  Emit([c EXCEPT !.kind = k, !.cur = c.next, !.next = @ + 1, !.open = @ \cup {c.next},
                            !.think = IF k = "think" THEN @ \cup {c.next} ELSE @], Frame("start", c.next))

renderToolDelta(r, ix, args) ==
    LET c == closeTextualItem(r)
        o == IF r.tools[ix] # 0 THEN r
             ELSE Emit([c EXCEPT !.tools[ix] = c.next + 1, !.next = @ + 1, !.open = @ \cup {c.next}],
                       Frame("start", c.next))
    IN  IF args THEN Emit(o, Frame("delta", o.tools[ix] - 1)) ELSE o

closeToolItem(r, at) ==
    Emit([r EXCEPT !.open = @ \ {at}, !.items = Append(@, at), !.turn = Append(@, at)], Frame("stop", at))

\* MUTANT: only the text is closed.
CloseText(r) == closeTextualItem(r)

closeOpenItem(r) ==
    FoldLeft(LAMBDA s, at : IF s.kind # "" /\ at = s.cur THEN closeTextualItem(s) ELSE closeToolItem(s, at),
             r, SetToSortSeq(r.open, <))

\* response.completed: the items are closed first, then the turn is complete.
finishClean(r) == Emit([closeOpenItem(r) EXCEPT !.done = TRUE, !.completed = TRUE], Frame("end", 0))

\* An error is relayed without response.created.
RenderResponses(r, c) ==
    LET s == emitStart(r) IN
    CASE c.t = "done" -> finishClean(s)
      [] c.t = "error" -> Emit([r EXCEPT !.err = TRUE], Frame("error", 0))
      [] c.t \in {"text", "think"} -> LET o == openTextualItem(s, c.t) IN Emit(o, Frame("delta", o.cur))
      [] c.t \in {"call", "args"} -> renderToolDelta(s, c.ix, c.t = "args")
      [] c.t = "finish" -> closeOpenItem(s)
      [] OTHER -> s

\* /v1/chat/completions: the bytes are forwarded.
Forward(r, c) ==
    CASE c.t = "done" -> Emit([r EXCEPT !.done = TRUE], Frame("end", 0))
      [] c.t = "error" -> Emit([r EXCEPT !.err = TRUE], Frame("error", 0))
      [] OTHER -> r

\* The pump of the native surfaces drops an overlong line.
Rendered(r, c) ==
    IF surface = "chat" THEN Forward(r, c)
    ELSE IF c.t = "long" THEN r
    ELSE IF surface = "messages" THEN RenderMessages(r, c) ELSE RenderResponses(r, c)

Reading == final.end = "no" /\ frames = <<>>

Render ==
    /\ Reading /\ ~fenced /\ chunks # <<>>
    /\ LET r == Rendered(rd, Head(chunks)) IN
        /\ rd' = [r EXCEPT !.frames = <<>>]
        /\ frames' = r.frames
    /\ chunks' = Tail(chunks)
    /\ UNCHANGED <<dialect, surface, up, tap, client, seen, fenced, final>>

-----------------------------------------------------------------------------
(* The client and the handler *)

\* What a frame means to a client that keeps the protocol.
Got(s, f) ==
    CASE f.t = "start" -> [s EXCEPT !.open = @ \cup {f.at},
                                    !.bad = @ \/ f.at \in s.open \cup s.closed \/ s.end # "no"
                                              \/ f.at # Cardinality(s.open \cup s.closed)]
      [] f.t = "delta" -> [s EXCEPT !.bad = @ \/ f.at \notin s.open \/ s.end # "no"]
      [] f.t = "stop" -> [s EXCEPT !.open = @ \ {f.at}, !.closed = @ \cup {f.at},
                                   !.bad = @ \/ f.at \notin s.open \/ s.end # "no"]
      [] f.t = "end" -> [s EXCEPT !.end = "clean", !.bad = @ \/ s.open # {} \/ s.end # "no"]
      [] f.t = "error" -> [s EXCEPT !.end = "error"]

\* finalize: the settlement goes by the tap, whatever the end.
Settlement ==
    IF ~tap.saw /\ ~tap.terminal THEN "parked"
    ELSE IF tap.saw /\ tap.terminal THEN "reported" ELSE "estimated"

\* Finish, and the turn stored for the next one when it is complete.
\* A lost lease makes a completed stream a broken one.
Finish(end, whole) ==
    final' = [end |-> IF fenced /\ end = "completed" THEN "broke" ELSE end,
              settled |-> Settlement,
              stored |-> IF surface = "responses" /\ whole THEN rd.turn ELSE <<>>]

\* A write fails once the client has left: the handler stops there.  The
\* renderer sets completed before it writes its last frame, and it runs on
\* while the handler looks: one frame before that, either may be first.
RelayStream ==
    /\ final.end = "no" /\ frames # <<>>
    /\ \/ /\ client = "gone"
          /\ \E whole \in BOOLEAN :
                /\ whole => rd.completed /\ Len(frames) <= 2
                /\ rd.completed /\ Len(frames) = 1 => whole
                /\ Finish("gone", whole)
          /\ frames' = <<>> /\ chunks' = <<>> /\ UNCHANGED seen
       \/ /\ client = "there"
          /\ seen' = Got(seen, Head(frames)) /\ frames' = Tail(frames)
          /\ UNCHANGED <<chunks, final>>
    /\ UNCHANGED <<dialect, surface, up, tap, rd, client, fenced>>

\* MUTANT: a stream that broke off is closed like one that ended.
BrokenAsClean(r) == Emit([r EXCEPT !.started = TRUE], Frame("end", 0))

\* A stream that ended without [DONE] closes with an error, once.
BrokenEnd(r) == IF r.err THEN r ELSE Emit([r EXCEPT !.started = TRUE], Frame("error", 0))

\* The reader of the native surfaces ends without an error, and the tap
\* tells whether the stream was whole; the chat surface sees how the
\* provider's connection ended, and adds an error of its own.
StreamEnds ==
    /\ Reading /\ (fenced \/ (up.ended # "no" /\ chunks = <<>>))
    /\ LET failed == fenced \/ up.ended = "error"
           r == IF surface = "chat" \/ rd.done THEN rd ELSE BrokenEnd(rd)
           end == IF surface = "chat" /\ failed /\ client = "gone" THEN "gone"
                  ELSE IF (surface = "chat" /\ failed) \/ ~tap.terminal THEN "broke" ELSE "completed"
           last == IF surface = "chat" /\ end = "broke" THEN <<Frame("error", 0)>> ELSE r.frames
       IN  /\ rd' = [r EXCEPT !.frames = <<>>]
           /\ seen' = IF client = "gone" THEN seen ELSE FoldLeft(Got, seen, last)
           /\ Finish(IF last # <<>> /\ surface # "chat" /\ client = "gone" THEN "gone" ELSE end, rd.completed)
    /\ chunks' = <<>>
    /\ UNCHANGED <<dialect, surface, up, tap, frames, client, fenced>>

\* The translator sees the provider's connection cancelled.
ClientLeaves ==
    /\ client = "there" /\ final.end = "no"
    /\ client' = "gone"
    /\ UNCHANGED <<dialect, surface, up, tap, chunks, rd, frames, seen, fenced, final>>

LeaseLost ==
    /\ ~fenced /\ final.end = "no"
    /\ fenced' = TRUE
    /\ UNCHANGED <<dialect, surface, up, tap, chunks, rd, frames, client, seen, final>>

Next == Translate \/ UpstreamEnds \/ Render \/ RelayStream \/ StreamEnds \/ ClientLeaves \/ LeaseLost

Spec == Init /\ [][Next]_streamvars

-----------------------------------------------------------------------------
\* Native frames keep the protocol: a block starts once at the next index,
\* its deltas and its stop come while it is open, whatever way calls and
\* text interleave, and a clean end leaves no block open.
FramesInOrder == surface # "chat" => ~seen.bad

\* The client is told the answer is complete only if the provider said so,
\* and a stream that counts as completed was shown as complete to a client
\* that stayed: the tap and the renderer read the same end from two
\* goroutines, with a lease that may be lost in between.
CleanEndIsReal ==
    /\ seen.end = "clean" => tap.terminal
    /\ final.end = "completed" /\ client = "there" => seen.end = "clean"

\* A turn stored for the next request has every message and call of the
\* answer, and the provider ended it, although the handler may look at the
\* renderer's state while that is still running.
StoredIsWhole ==
    final.stored # <<>> => tap.terminal /\ ToSet(final.stored) = (0..(rd.next - 1)) \ rd.think

\* A translated answer is whole: its frames keep the client's protocol, it is shown as
\* complete only when the provider completed it, and what is stored of it is all of it.
AnswerIsWhole == FramesInOrder /\ CleanEndIsReal /\ StoredIsWhole

\* The items of a completed response are in the order of their output index.
OutputInIndexOrder == rd.completed => \A i, j \in DOMAIN rd.items : i < j => rd.items[i] < rd.items[j]

\* A stream is settled as broken off only if its end marker was not seen.
BrokeIsUnfinished == final.end = "broke" /\ ~fenced => ~tap.terminal
=============================================================================
