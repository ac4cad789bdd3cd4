------------------------------ MODULE BookFeed ------------------------------
(***************************************************************************)
(* The order books of the Bybit collector: the exchange's stream, the      *)
(* WebSocket thread that applies it, and the main loop that samples the    *)
(* books, reacts to clock jumps and applies a new symbol list              *)
(* (src/src/mrs3/bybit_collector/websocket.py, core.py, runtime.py and     *)
(* cli.py).                                                                *)
(*                                                                         *)
(* The levels of a book are abstracted to a version: the exchange's book   *)
(* after u updates is u, and a delta u applied to anything but u - 1 gives *)
(* Mixed.  The two threads share the books and take no lock around their   *)
(* fields, so reading and writing a book is one step per field.  One       *)
(* subscription batch is modelled (20 to 30 symbols fit in one).           *)
(***************************************************************************)
EXTENDS Naturals, Sequences, FiniteSets, Functions, SequencesExt

CONSTANTS
    Symbols,        \* the symbols the configuration may name
    Sampled,        \* bound: the symbols whose samples are modelled
    MaxUpdates,     \* bound: the exchange's version of a book
    MaxEdits,       \* bound: edits of the symbol list
    MaxFeedFaults,  \* bound: the faults that happen
    FeedFaults      \* the kinds of fault that may happen, a subset of FeedKinds

\* A broken connection, a clock jump, a failed reload, a frame that its book cannot take, and
\* one that decode_orderbook_frame does not take.
FeedKinds == {"break", "jump", "reload", "bad", "garbled"}

ASSUME FeedAssumption ==
    /\ Symbols # {} /\ IsFiniteSet(Symbols) /\ Sampled \subseteq Symbols
    /\ MaxUpdates \in Nat \ {0} /\ MaxEdits \in Nat /\ MaxFeedFaults \in Nat
    /\ FeedFaults \subseteq FeedKinds

Mixed == MaxUpdates + 1
Levels == 0..Mixed              \* 0: no level was ever applied
Causes == {"none", "disconnect", "reconnect", "clock", "rejected", "early"}
Books == [gen : 0..MaxEdits, valid : BOOLEAN, has : BOOLEAN,
          bids : Levels, asks : Levels, last : Levels, cause : Causes]
Frames == [sym : Symbols, kind : {"snapshot", "delta", "bad"}, u : 1..MaxUpdates]

\* A frame being applied: the book object it was found for, and the next field to write.
InHand == [sym : Symbols, gen : 0..MaxEdits, kind : {"snapshot", "delta"},
           u : 1..MaxUpdates, at : {"bids", "asks", "valid"}]
Nothing == [at |-> "none"]

VARIABLES
    exchange,   \* the exchange's version of each book
    link,       \* the connection: its state, the symbols subscribed, the frames under way
    ws, hand,   \* the WebSocket thread: its point in run_once and the frame in hand
    wanted, requested,      \* the session's subscription list and reconnect request
    connected,  \* the runtime's view of the connection
    books,      \* the book of every symbol that has one
    named, config,          \* the symbols in the configuration file, and those accepted
    main,       \* the main loop: its point and what it has read of a book
    torn,       \* history: a valid sample was taken that is not the state of a valid book
    edits, feedFaults       \* how many there were

feedVars == <<exchange, link, ws, hand, wanted, requested, connected, books, named, config,
              main, torn, edits, feedFaults>>
session == <<wanted, requested>>
operator == <<named, edits>>

NoLink == [state |-> "none", subs |-> {}, pipe |-> <<>>]
Idle == [pc |-> "idle"]
Fresh(gen) == [gen |-> gen, valid |-> FALSE, has |-> FALSE,
               bids |-> 0, asks |-> 0, last |-> 0, cause |-> "none"]

FeedInit ==
    /\ exchange = [s \in Symbols |-> 1]
    /\ link = NoLink /\ ws = "idle" /\ hand = Nothing
    /\ named \in SUBSET Symbols \ {{}}
    /\ config = named /\ wanted = named /\ requested = FALSE
    /\ connected = FALSE
    /\ books = [s \in named |-> Fresh(0)]
    /\ main = Idle /\ torn = FALSE
    /\ edits = 0 /\ feedFaults = 0

FeedFault(kind) == kind \in FeedFaults /\ feedFaults < MaxFeedFaults /\ feedFaults' = feedFaults + 1

\* OrderBook.invalidate: the book is unusable until a snapshot is accepted.
Invalid(book, cause) == [book EXCEPT !.valid = FALSE, !.cause = cause]
AllInvalid(cause) == [s \in DOMAIN books |-> Invalid(books[s], cause)]

\* Mutant: an update that cannot be applied is only refused.
RefusedOnly(book) == book

\* _reject: an update the book cannot take invalidates it.
Rejected(book) == Invalid(book, "rejected")

-----------------------------------------------------------------------------
(* The exchange and the network.                                           *)

\* A book changes; the subscriber is sent the delta, or one that cannot be applied.
Update(s) ==
    /\ exchange[s] < MaxUpdates
    /\ exchange' = [exchange EXCEPT ![s] = @ + 1]
    /\ \E kind \in {"delta", "bad"} :
        /\ IF kind = "delta" THEN UNCHANGED feedFaults ELSE s \in link.subs /\ FeedFault(kind)
        /\ link' = IF s \in link.subs /\ link.state = "up"
                   THEN [link EXCEPT !.pipe = Append(@, [sym |-> s, kind |-> kind, u |-> exchange'[s]])]
                   ELSE link
    /\ UNCHANGED <<ws, hand, session, connected, books, config, main, torn, operator>>

\* The connection breaks and what was under way is lost.
Break ==
    /\ link.state = "up" /\ FeedFault("break")
    /\ link' = [NoLink EXCEPT !.state = "broken"]
    /\ UNCHANGED <<exchange, ws, hand, session, connected, books, config, main, torn, operator>>

-----------------------------------------------------------------------------
(* The WebSocket thread: BybitWebSocketSession.run_once and run_forever.   *)

wsRest == <<config, main, torn, operator, feedFaults, exchange>>

\* run_forever calls run_once: the transport is created.
Open ==
    /\ ws = "idle" /\ ws' = "open"
    /\ link' = [NoLink EXCEPT !.state = "up"]
    /\ UNCHANGED <<hand, session, connected, books, wsRest>>

\* Mutant: the transport is reported live only after the subscription's acknowledgement.
OnConnectLate ==
    /\ \/ ws = "open" /\ ws' = "connected" /\ UNCHANGED <<connected, books>>
       \/ /\ ws = "reading" /\ ~connected /\ hand = Nothing /\ UNCHANGED ws
          /\ connected' = TRUE /\ books' = AllInvalid("reconnect")
    /\ UNCHANGED <<link, hand, session, wsRest>>

\* on_connect, before anything is read: set_connected(TRUE) invalidates every book.
OnConnect ==
    /\ ws = "open" /\ ws' = "connected"
    /\ connected' = TRUE
    /\ books' = IF connected THEN books ELSE AllInvalid("reconnect")
    /\ UNCHANGED <<link, hand, session, wsRest>>

\* The subscription list is read and the request cleared under one lock, and the
\* subscription sent; the exchange answers with a snapshot of every book, in any order.
Subscribe ==
    /\ ws = "connected" /\ link.state = "up" /\ ws' = "acking"
    /\ requested' = FALSE
    /\ \E order \in SetToSeqs(wanted) :
        link' = [link EXCEPT !.subs = wanted,
                    !.pipe = [i \in DOMAIN order |->
                                [sym |-> order[i], kind |-> "snapshot", u |-> exchange[order[i]]]]]
    /\ UNCHANGED <<hand, wanted, connected, books, wsRest>>

\* Mutant: the request is cleared when the subscription is acknowledged.
AckClears ==
    /\ ws = "acking" /\ link.state = "up" /\ hand = Nothing
    /\ ws' = "reading" /\ requested' = FALSE
    /\ UNCHANGED <<link, hand, wanted, connected, books, wsRest>>

\* The acknowledgement arrives; frames may have been applied before it.
Ack ==
    /\ ws = "acking" /\ link.state = "up" /\ hand = Nothing
    /\ ws' = "reading"
    /\ UNCHANGED <<link, hand, session, connected, books, wsRest>>

\* handle_ws_message and the first test of apply_delta: a frame of a symbol without a
\* book is dropped, a delta is rejected unless the book is valid and the id greater.  A frame
\* that does not decode ends run_once before the acknowledgement, and is nothing after it.
StartFrame ==
    /\ ws \in {"acking", "reading"} /\ hand = Nothing /\ link.pipe # <<>>
    /\ \E decodes \in BOOLEAN :
        /\ IF decodes THEN UNCHANGED feedFaults ELSE FeedFault("garbled")
        /\ link' = IF decodes \/ ws = "reading" THEN [link EXCEPT !.pipe = Tail(@)]
                   ELSE [NoLink EXCEPT !.state = "broken"]
        /\ LET frame == Head(link.pipe)
               s == frame.sym
               take == [sym |-> s, gen |-> books[s].gen, kind |-> frame.kind, u |-> frame.u, at |-> "bids"]
               applies == \/ frame.kind = "snapshot"
                          \/ books[s].valid /\ frame.kind = "delta" /\ frame.u > books[s].last
           IN  IF ~decodes \/ s \notin DOMAIN books THEN UNCHANGED <<hand, books>>
               ELSE IF applies THEN hand' = take /\ UNCHANGED books
               ELSE /\ UNCHANGED hand
                    /\ books' = IF books[s].valid THEN [books EXCEPT ![s] = Rejected(@)]
                                ELSE IF books[s].has THEN books
                                ELSE [books EXCEPT ![s] = Invalid(@, "early")]
    /\ UNCHANGED <<exchange, ws, session, connected, config, main, torn, operator>>

\* The fields are written one by one; a book removed meanwhile is nobody's any more.
Mine == hand.sym \in DOMAIN books /\ books[hand.sym].gen = hand.gen
Write(field, value, next) ==
    /\ hand.at = field
    /\ books' = IF Mine THEN [books EXCEPT ![hand.sym] = value] ELSE books
    /\ hand' = next
    /\ UNCHANGED <<link, ws, session, connected, wsRest>>

Applied(levels) ==
    IF hand.kind = "snapshot" \/ levels + 1 = hand.u THEN hand.u ELSE Mixed
WriteBids == Write("bids", [books[hand.sym] EXCEPT !.bids = Applied(@)], [hand EXCEPT !.at = "asks"])
WriteAsks == Write("asks", [books[hand.sym] EXCEPT !.asks = Applied(@)], [hand EXCEPT !.at = "valid"])
WriteValid ==
    Write("valid",
          IF hand.kind = "snapshot"
          THEN [books[hand.sym] EXCEPT !.last = hand.u, !.valid = TRUE, !.has = TRUE, !.cause = "none"]
          ELSE [books[hand.sym] EXCEPT !.last = hand.u],
          Nothing)

\* An exception ends run_once: a broken transport, a reconnect request (looked at only
\* once the subscription is acknowledged).  on_disconnect, then close.
Leave ==
    /\ ws # "idle" /\ hand = Nothing
    /\ \/ link.state = "broken" /\ ws # "open"
       \/ ws = "reading" /\ requested
    /\ ws' = "idle" /\ link' = NoLink
    /\ connected' = FALSE
    /\ books' = IF connected THEN AllInvalid("disconnect") ELSE books
    /\ UNCHANGED <<hand, session, wsRest>>

-----------------------------------------------------------------------------
(* The main loop.                                                          *)

mainRest == <<exchange, link, ws, hand, connected, named, edits>>

\* One sample of a book, OrderBook.state(): its bids, then its asks, then whether it is
\* valid.
ReadBids(s) ==
    /\ main = Idle /\ s \in Sampled \cap DOMAIN books
    /\ main' = [pc |-> "asks", sym |-> s, bids |-> books[s].bids, valid |-> books[s].valid]
    /\ UNCHANGED <<mainRest, session, books, config, torn, feedFaults>>

ReadAsks ==
    /\ main.pc = "asks"
    /\ main' = [pc |-> "valid", sym |-> main.sym,
                same |-> main.bids = books[main.sym].asks
                            /\ (main.valid \/ main.bids = books[main.sym].last)]
    /\ UNCHANGED <<mainRest, session, books, config, torn, feedFaults>>

ReadValid ==
    /\ main.pc = "valid"
    /\ torn' = (torn \/ (books[main.sym].valid /\ ~main.same))
    /\ main' = Idle
    /\ UNCHANGED <<mainRest, session, books, config, feedFaults>>

\* The scheduler sees a clock discontinuity: every book is invalidated.
ClockJump ==
    /\ main = Idle /\ FeedFault("jump")
    /\ books' = AllInvalid("clock")
    /\ UNCHANGED <<mainRest, session, config, main, torn>>

\* The operator edits the symbol list.
Edit ==
    /\ edits < MaxEdits /\ edits' = edits + 1
    /\ named' \in SUBSET Symbols \ {{}, named}
    /\ UNCHANGED <<exchange, link, ws, hand, session, connected, books, config, main, torn, feedFaults>>

\* CollectorRuntime.update_config: removed books go, added ones are new and empty.
Changed(new) ==
    [s \in new |-> IF s \in DOMAIN books THEN books[s] ELSE Fresh(edits)]

\* A new list is accepted and applied.
Reload ==
    /\ main = Idle /\ named # config
    /\ config' = named
    /\ books' = Changed(named)
    /\ main' = [pc |-> "update"]
    /\ UNCHANGED <<mainRest, session, torn, feedFaults>>

\* Recording a symbol event fails part-way, removals first: the accepted configuration
\* is restored, the books already removed or added stay so.
ReloadFails ==
    /\ main = Idle /\ named # config /\ FeedFault("reload")
    /\ \E removed \in SUBSET (DOMAIN books \ named), added \in SUBSET (named \ DOMAIN books) :
        /\ added # {} => removed = DOMAIN books \ named
        /\ books' = Changed((DOMAIN books \ removed) \cup added)
    /\ UNCHANGED <<mainRest, session, config, main, torn>>

\* session.update_symbols, then session.request_reconnect.
UpdateSymbols ==
    /\ main.pc = "update" /\ main' = [pc |-> "request"]
    /\ wanted' = config
    /\ UNCHANGED <<mainRest, requested, books, config, torn, feedFaults>>

RequestReconnect ==
    /\ main.pc = "request" /\ main' = Idle
    /\ requested' = TRUE
    /\ UNCHANGED <<mainRest, wanted, books, config, torn, feedFaults>>

-----------------------------------------------------------------------------
WsStep ==
    \/ Open \/ OnConnect \/ Subscribe \/ Ack \/ StartFrame
    \/ WriteBids \/ WriteAsks \/ WriteValid \/ Leave

Sampling == (\E s \in Symbols : ReadBids(s)) \/ ReadAsks \/ ReadValid
Reloading == Reload \/ UpdateSymbols \/ RequestReconnect

FeedNext ==
    \/ WsStep \/ Sampling \/ Reloading
    \/ (\E s \in Symbols : Update(s)) \/ Break
    \/ ClockJump \/ Edit \/ ReloadFails

FeedSpec == FeedInit /\ [][FeedNext]_feedVars

\* The WebSocket thread runs, and so does the main loop: a sample ends, and a new list
\* is picked up within 30 seconds although samples are taken all the time.
FairFeed ==
    /\ FeedSpec
    /\ WF_feedVars(WsStep)
    /\ WF_feedVars(ReadAsks) /\ WF_feedVars(ReadValid)
    /\ SF_feedVars(Reload) /\ WF_feedVars(UpdateSymbols) /\ WF_feedVars(RequestReconnect)
-----------------------------------------------------------------------------
(* Properties.                                                             *)

FeedTypeOK ==
    /\ exchange \in [Symbols -> 1..MaxUpdates]
    /\ link.state \in {"none", "up", "broken"} /\ link.subs \subseteq Symbols
    /\ Range(link.pipe) \subseteq Frames
    /\ ws \in {"idle", "open", "connected", "acking", "reading"}
    /\ hand = Nothing \/ hand \in InHand
    /\ wanted \subseteq Symbols /\ named \subseteq Symbols /\ config \subseteq Symbols
    /\ {requested, connected, torn} \subseteq BOOLEAN
    /\ DOMAIN books \subseteq Symbols /\ Range(books) \subseteq Books
    /\ main.pc \in {"idle", "asks", "valid", "update", "request"}
    /\ edits \in 0..MaxEdits /\ feedFaults \in 0..MaxFeedFaults

\* The frames of s that are still to be applied to its book, the one in hand included.
Held(s) == hand # Nothing /\ Mine /\ hand.sym = s
Pending(s) == Cardinality({i \in DOMAIN link.pipe : link.pipe[i].sym = s}) + (IF Held(s) THEN 1 ELSE 0)

\* A book that says it is valid belongs to the present connection and has missed nothing
\* of the exchange's stream: its version and the frames still under way make up the
\* exchange's book, and its levels are of one version.  Reconnects, frames that do not
\* apply, symbols removed and added again within a connection and clock jumps must all
\* invalidate it (core.py apply_delta, runtime.py set_connected and update_config).  Not so
\* a frame that does not decode ("garbled", websocket.py:118).
ValidFollowsTheStream ==
    \A s \in DOMAIN books : books[s].valid =>
        /\ connected
        /\ ~Held(s) => books[s].bids = books[s].last /\ books[s].asks = books[s].last
        /\ link.state = "up" => exchange[s] = books[s].last + Pending(s)

\* A new symbol list reaches the exchange: in the end the connection is subscribed to the
\* symbols of the configuration file, however the request to reconnect interleaves with a
\* connection being made, and whatever connection or reload fails on the way.
SubscribedInTheEnd == <>[](link.state = "up" /\ link.subs = named)

\* A configured book that has missed its stream is synchronized again: only one that was
\* rejected or invalidated by a clock jump since the last snapshot may stay invalid
\* (a snapshot that comes before the acknowledgement must not be thrown away).
SynchronizedUnlessRejected ==
    \A s \in Symbols : []<>(\/ s \notin named \/ s \notin DOMAIN books
                            \/ books[s].valid \/ books[s].cause \in {"rejected", "clock"})

\* The collector's specification: an invalidated book "forces a subscription which yields
\* a new snapshot", so every configured book is synchronized again and again.
Resynchronized == \A s \in Symbols : []<>(s \in named => s \in DOMAIN books /\ books[s].valid)

\* The books are those of the configuration file in the end.
BooksInTheEnd == <>[](DOMAIN books = named)

\* The levels of a valid sample were, at one moment, those of a valid book.
SampleOfOneBook == ~torn
=============================================================================
