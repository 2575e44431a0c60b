-------------------------- MODULE RealtimeDocument --------------------------
(***************************************************************************)
(* One file of a repository, edited live (realtime-server.js): the watchers   *)
(* of a room and the browsers hold a Yjs document of it each, the watchers    *)
(* write theirs to their copy of the file and take the edits made there.      *)
(*                                                                            *)
(* Browsers, Yjs and the overlay are external.  A text is the set of its      *)
(* pieces: the n-th edit anybody makes adds the piece n.  An item of a        *)
(* document has its piece, the Yjs client that inserted it and `root`, the    *)
(* client of what it hangs off; an item without its root stays pending.  The  *)
(* client of a seed is derived from its whole content; that of an edit is of  *)
(* its own, as if it were the first its node makes, and tells the seed that   *)
(* the edited document goes back to.  A message arrives once, late, or never.  *)
(* Sizes, presence and clocks are left out: what they decide (a timeout, who  *)
(* is elected) is open here.  A read of the file ends with the document it    *)
(* was made for.                                                              *)
(***************************************************************************)
EXTENDS Naturals, FiniteSets, FiniteSetsExt

CONSTANTS
    Watcher,        \* the watchers of the room: device ids, as numbers
    Browser,        \* the browsers, as other numbers
    MaxPieces,      \* bound: edits
    MaxInFlight,    \* bound: messages under way; of more, some are lost
    MaxStirs,       \* bound: what else happens by itself: asks, restarts, copies
    MaxItems        \* DOCUMENT_HISTORY_MAX_BYTES, in items

ASSUME RealtimeAssumption ==
    /\ Watcher \cup Browser \subseteq Nat /\ Watcher \cap Browser = {}
    /\ {MaxPieces, MaxInFlight, MaxStirs, MaxItems} \subseteq Nat /\ MaxPieces # 0

VARIABLES
    file,       \* each watcher's copy: its content, or none
    held,       \* documents: what each watcher holds for the path
    tab,        \* the document of each browser
    reading,    \* filesystemChanged: the content that was read, while it is handled
    writing,    \* the contents that calls of #write are writing
    mail,       \* messages under way
    pieces,     \* how many edits there were
    stirs       \* how much else has happened

rvars == <<file, held, tab, reading, writing, mail, pieces, stirs>>

Node == Watcher \cup Browser
Content == SUBSET (0 .. MaxPieces)
Client == [seed : Content, by : {<<>>} \cup Node \X (0 .. MaxStirs) \X (0 .. MaxPieces)]
NoClient == [seed |-> {}, by |-> <<>>]
Item == {i \in [piece : 0 .. MaxPieces, client : Client, root : Client] :
            i.client.by = <<>> => i.root = NoClient}

Blank == [items |-> {}, gone |-> {}]
Closed == [items |-> {}, gone |-> {}, open |-> FALSE, seeded |-> FALSE, busy |-> FALSE,
           last |-> {}, wrote |-> {}, waits |-> {}]

Optional(S) == {{}} \cup {{x} : x \in S}
Frame == [from : Node, to : Node, kind : {"ask", "answer", "update"},
          items : SUBSET Item, gone : SUBSET Item, base : Content, reset : BOOLEAN]
Document == [items : SUBSET Item, gone : SUBSET Item,
             open : BOOLEAN, seeded : BOOLEAN, busy : BOOLEAN,
             last : Optional(Content), wrote : SUBSET Content, waits : SUBSET Frame]

RealtimeTypeOK ==
    /\ file \in [Watcher -> Optional(Content)] /\ reading \in [Watcher -> Optional(Content)]
    /\ writing \in [Watcher -> SUBSET Content]
    /\ held \in [Watcher -> Document]
    /\ \A w \in Watcher : ~held[w].open => held[w] = Closed
    /\ tab \in [Browser -> [items : SUBSET Item, gone : SUBSET Item]]
    /\ mail \subseteq Frame /\ Cardinality(mail) <= MaxInFlight
    /\ pieces \in 0 .. MaxPieces /\ stirs \in 0 .. MaxStirs

\* The copies of the file may differ by an edit: the overlay lags.
RealtimeInit ==
    /\ pieces = 1 /\ stirs = 0
    /\ file \in [Watcher -> {{{0}}, {{0, 1}}}]
    /\ held = [w \in Watcher |-> Closed]
    /\ tab = [b \in Browser |-> Blank]
    /\ reading = [w \in Watcher |-> {}]
    /\ writing = [w \in Watcher |-> {}]
    /\ mail = {}

\* What happens by itself is bounded.
Fresh == pieces < MaxPieces /\ pieces' = pieces + 1
Stirs == stirs < MaxStirs /\ stirs' = stirs + 1

-----------------------------------------------------------------------------
(* Documents (external: Yjs). *)

Integrated(items) ==
    {i \in items : i.root = NoClient \/ \E j \in items : j.client = i.root}
Visible(doc) == Integrated(doc.items) \ doc.gone
TextOf(doc) == {i.piece : i \in Visible(doc)}
Clients(doc) == {i.client : i \in Integrated(doc.items)}

\* An update names the clients of all that it carries, pending or not.
ClientsOfUpdate(m) == {i.client : i \in m.items}
SeedItems(content) ==
    {[piece |-> p, client |-> [seed |-> content, by |-> <<>>], root |-> NoClient] : p \in content}

\* An insertion hangs off an item of the document, if it has any.
Root(doc) ==
    LET founders == {i.client : i \in {j \in doc.items : j.root = NoClient}}
    IN IF founders = {} THEN NoClient ELSE CHOOSE c \in founders : TRUE
Inserted(n, doc, p) ==
    [piece |-> p, client |-> [seed |-> Root(doc).seed, by |-> <<n, stirs, p>>], root |-> Root(doc)]

Apply(doc, m) == [doc EXCEPT !.items = @ \cup m.items, !.gone = @ \cup m.gone]

-----------------------------------------------------------------------------
(* Messages: validFrame, #assemble and #send. *)

Post(messages, old) ==
    LET all == old \cup messages
    IN IF Cardinality(all) <= MaxInFlight THEN mail' = all ELSE mail' \in kSubset(MaxInFlight, all)
Message(from, to, kind, doc, base) ==
    [from |-> from, to |-> to, kind |-> kind, items |-> doc.items, gone |-> doc.gone,
     base |-> base, reset |-> FALSE]
ToRoom(from, kind, doc, base) ==
    {Message(from, n, kind, doc, base) : n \in Node \ {from}}

\* What a node that holds items lacks of doc.
Lacking(doc, items) == [items |-> doc.items \ Integrated(items), gone |-> doc.gone]

-----------------------------------------------------------------------------
(* A watcher opens, seeds and serves a document. *)

\* #document: opened by any frame that names it.
Held(w) == IF held[w].open THEN held[w] ELSE [Closed EXCEPT !.open = TRUE]

\* Whoever opens one asks the room first.
Asks(w) == IF held[w].open THEN {} ELSE ToRoom(w, "ask", Blank, {})

\* seedFromFile: a file that is missing is seeded as an empty one.
Current(w) == UNION file[w]
SeededFrom(s, content) ==
    [s EXCEPT !.items = IF TextOf(s) = {} THEN @ \cup SeedItems(content) ELSE @,
              !.seeded = TRUE, !.last = {content}, !.wrote = @ \cup {content}, !.waits = {}]

\* #answerSync: what the asker lacks; a history that has grown too long is rebuilt
\* from the text, and all of it sent, to the room.
LongHistory(s) == Cardinality(s.items) > MaxItems
Rebuilt(s) == IF LongHistory(s) THEN [s EXCEPT !.items = SeedItems(TextOf(s)), !.gone = {}] ELSE s
Answers(w, s, asks) ==
    IF asks # {} /\ LongHistory(s)
      THEN {[m EXCEPT !.reset = TRUE] : m \in ToRoom(w, "answer", Rebuilt(s), {})}
      ELSE {Message(w, a.from, "answer", Lacking(s, a.items), {}) : a \in asks}
Served(s, asks) == IF asks # {} THEN Rebuilt(s) ELSE s

\* #deferToPeerSeeder: somebody with a smaller id may be known to be there.
MayDefer(w) == \E v \in Watcher : v < w

\* A request to synchronise.  It may be one too many, or left to the elected watcher,
\* unless the file here is what the asker has; then the document is seeded from it.
ReceiveAsk(w, m) ==
    /\ m.kind = "ask"
    /\ LET s == Held(w)
           matches == file[w] = {m.base} /\ m.base # {}
           seeded == IF matches /\ ~s.seeded THEN SeededFrom(s, Current(w)) ELSE s
           asks == IF seeded.seeded THEN s.waits \cup {m} ELSE {}
       IN \/ /\ held' = [held EXCEPT ![w] = s]
             /\ \/ held[w].open
                \/ MayDefer(w) /\ ~matches
             /\ Post(Asks(w), mail \ {m})
          \/ /\ held' = [held EXCEPT ![w] = IF seeded.seeded
                             THEN [Served(seeded, asks) EXCEPT !.waits = {}]
                             ELSE [seeded EXCEPT !.waits = @ \cup {m}]]
             /\ Post(Asks(w) \cup Answers(w, seeded, asks), mail \ {m})
    /\ UNCHANGED <<file, tab, reading, writing, pieces, stirs>>

\* The seed timer: nobody has answered in time.
SeedFallback(w) ==
    /\ held[w].open /\ ~held[w].seeded
    /\ LET s == SeededFrom(held[w], Current(w)) IN
       /\ held' = [held EXCEPT ![w] = Served(s, held[w].waits)]
       /\ Post(Answers(w, s, held[w].waits), mail)
    /\ UNCHANGED <<file, tab, reading, writing, pieces, stirs>>

\* #requestAll, when a peer connects.
RequestAll(w, n) ==
    /\ held[w].open /\ n # w
    /\ Post({Message(w, n, "ask", held[w], {})}, mail)
    /\ Stirs
    /\ UNCHANGED <<file, held, tab, reading, writing, pieces>>

-----------------------------------------------------------------------------
(* A watcher takes what others send. *)

\* Mutant of ForeignWholeDocument: what arrives is an edit.
NothingIsForeign(s, m) == FALSE

\* A document of its own, with not a client of the one that is held.
ForeignWholeDocument(s, m) ==
    /\ s.seeded /\ TextOf(s) # {}
    /\ ClientsOfUpdate(m) # {} /\ ClientsOfUpdate(m) \cap Clients(s) = {}
    /\ TextOf(m) # {}

\* An update or an answer is applied, ends the wait for a seed when it brings text,
\* and is written to the file.
ReceiveDocument(w, m) ==
    /\ m.kind # "ask"
    /\ LET s == Held(w)
           applied == Apply(s, m)
           seeds == ~s.seeded /\ TextOf(applied) # {}
           t == IF seeds THEN [applied EXCEPT !.seeded = TRUE, !.waits = {}] ELSE applied
           asks == IF seeds THEN s.waits ELSE {}
       IN IF ForeignWholeDocument(s, m)
            THEN /\ held' = [held EXCEPT ![w] = s]
                 /\ Post({}, mail \ {m})
                 /\ UNCHANGED writing
            ELSE /\ held' = [held EXCEPT ![w] = [Served(t, asks) EXCEPT !.busy = t.seeded]]
                 /\ writing' = [writing EXCEPT ![w] = IF t.seeded THEN @ \cup {TextOf(t)} ELSE @]
                 /\ Post(Asks(w) \cup Answers(w, t, asks), mail \ {m})
    /\ UNCHANGED <<file, tab, reading, pieces, stirs>>

-----------------------------------------------------------------------------
(* The file of a watcher. *)

\* #write: the text as it was when the call began.  Calls are not ordered, and the
\* first to end clears the flag of all.
WriteEnds(w) ==
    /\ \E content \in writing[w] :
          /\ writing' = [writing EXCEPT ![w] = @ \ {content}]
          /\ \/ /\ file' = [file EXCEPT ![w] = {content}]
                /\ held' = IF held[w].open
                             THEN [held EXCEPT ![w].busy = FALSE, ![w].last = {content},
                                               ![w].wrote = @ \cup {content}]
                             ELSE held
             \/ /\ held' = [held EXCEPT ![w].busy = FALSE]
                /\ UNCHANGED file
    /\ UNCHANGED <<tab, reading, mail, pieces, stirs>>

\* filesystemChanged reads the file.  A file, or a clone, that is gone takes the
\* document with it.
FileEvent(w) ==
    /\ held[w].open /\ held[w].seeded /\ ~held[w].busy /\ reading[w] = {}
    /\ reading' = [reading EXCEPT ![w] = file[w]]
    /\ held' = [held EXCEPT ![w] = IF file[w] = {} THEN Closed ELSE @]
    /\ UNCHANGED <<file, tab, writing, mail, pieces, stirs>>

\* What the file held before the edit: what was last written, or the document.
Baseline(s) == IF s.last = {} THEN TextOf(s) ELSE UNION s.last

\* What was read is an event of our own write, a file that is being truncated, an
\* echo of a version that was written here (lately: a behaviour is shorter than
\* echoWindowMs), or an edit: the difference to the baseline.
HandleFile(w) ==
    /\ \E content \in reading[w] :
          LET s == held[w]
              added == {Inserted(w, s, p) : p \in content \ Baseline(s)}
              removed == {i \in Visible(s) : i.piece \in Baseline(s) \ content}
              edit == [items |-> added, gone |-> removed]
              t == Apply(s, edit)
          IN IF \/ ~s.open \/ s.last = {content}
                \/ content = {} /\ TextOf(s) # {}
               THEN UNCHANGED <<held, writing, mail>>
             ELSE IF content = TextOf(s)
               THEN /\ held' = [held EXCEPT ![w].last = {content}]
                    /\ UNCHANGED <<writing, mail>>
             ELSE \/ /\ TextOf(s) # {} /\ content \in s.wrote
                     /\ held' = [held EXCEPT ![w].last = {}, ![w].busy = TRUE]
                     /\ writing' = [writing EXCEPT ![w] = @ \cup {TextOf(s)}]
                     /\ UNCHANGED mail
                  \/ /\ ~(TextOf(s) # {} /\ content \in s.wrote)
                     /\ held' = [held EXCEPT ![w] = [t EXCEPT !.last = {}, !.busy = TRUE]]
                     /\ writing' = [writing EXCEPT ![w] = @ \cup {TextOf(t)}]
                     /\ Post(ToRoom(w, "update", edit, {}), mail)
    /\ reading' = [reading EXCEPT ![w] = {}]
    /\ UNCHANGED <<file, tab, pieces, stirs>>

-----------------------------------------------------------------------------
(* People and the rest of the machine. *)

\* Somebody edits the file itself, or clears it, as an editor does before it writes.
PersonEditsFile(w) ==
    /\ \E content \in file[w] : file' = [file EXCEPT ![w] = {content \cup {pieces + 1}}]
    /\ Fresh
    /\ UNCHANGED <<held, tab, reading, writing, mail, stirs>>

PersonCutsFile(w) ==
    /\ \E content \in file[w], cut \in Content :
          cut # content /\ cut \subseteq content /\ file' = [file EXCEPT ![w] = {cut}]
    /\ Fresh
    /\ UNCHANGED <<held, tab, reading, writing, mail, stirs>>

\* #moveItem, from this path: the document goes without a word.
MoveItem(w) ==
    /\ file[w] # {} /\ Stirs
    /\ file' = [file EXCEPT ![w] = {}]
    /\ held' = [held EXCEPT ![w] = Closed]
    /\ reading' = [reading EXCEPT ![w] = {}]
    /\ UNCHANGED <<tab, writing, mail, pieces>>

\* The overlay brings the copy of another machine, unless a live document owns the
\* path (ownsPath), or a straggler of what was written here (external).
OverlayCopies(v, w) ==
    /\ file[v] # {} /\ file[w] # file[v]
    /\ ~held[w].open
    /\ Stirs
    /\ file' = [file EXCEPT ![w] = file[v]]
    /\ UNCHANGED <<held, tab, reading, writing, mail, pieces>>

OverlayStraggles(w) ==
    /\ \E content \in held[w].wrote :
          file[w] # {content} /\ file' = [file EXCEPT ![w] = {content}]
    /\ Stirs
    /\ UNCHANGED <<held, tab, reading, writing, mail, pieces>>

\* stop() and start(): the documents are gone, the writes under way too.
RestartWatcher(w) ==
    /\ Stirs
    /\ held[w].open
    /\ held' = [held EXCEPT ![w] = Closed]
    /\ reading' = [reading EXCEPT ![w] = {}]
    /\ writing' = [writing EXCEPT ![w] = {}]
    /\ UNCHANGED <<file, tab, mail, pieces>>

\* A browser asks for the document, naming the content it has seen (external).
BrowserAsks(b) ==
    /\ TextOf(tab[b]) = {}
    /\ \E base \in UNION {file[w] : w \in Watcher} :
          Post(ToRoom(b, "ask", Blank, base), mail)
    /\ Stirs
    /\ UNCHANGED <<file, held, tab, reading, writing, pieces>>

\* It replaces its document by one that was rebuilt, adopts one when it has none,
\* and otherwise takes what belongs to its own; it answers who asks (external).
BrowserReceives(b, m) ==
    /\ LET foreign == ForeignWholeDocument([seeded |-> TRUE, items |-> tab[b].items,
                                            gone |-> tab[b].gone], m)
       IN tab' = [tab EXCEPT ![b] =
              IF m.kind = "ask" THEN @
              ELSE IF m.reset THEN [items |-> m.items, gone |-> m.gone]
              ELSE IF foreign THEN @ ELSE Apply(@, m)]
    /\ IF m.kind = "ask" /\ TextOf(tab[b]) # {}
         THEN Post({Message(b, m.from, "answer", Lacking(tab[b], m.items), {})}, mail \ {m})
         ELSE Post({}, mail \ {m})
    /\ UNCHANGED <<file, held, reading, writing, pieces, stirs>>

BrowserTypes(b) ==
    /\ TextOf(tab[b]) # {}
    /\ Fresh
    /\ LET edit == [items |-> {Inserted(b, tab[b], pieces + 1)}, gone |-> {}] IN
       /\ tab' = [tab EXCEPT ![b] = Apply(@, edit)]
       /\ Post(ToRoom(b, "update", edit, {}), mail)
    /\ UNCHANGED <<file, held, reading, writing, stirs>>

BrowserReloads(b) ==
    /\ Stirs
    /\ tab[b] # Blank
    /\ tab' = [tab EXCEPT ![b] = Blank]
    /\ UNCHANGED <<file, held, reading, writing, mail, pieces>>

RealtimeNext ==
    \/ \E w \in Watcher :
          \/ SeedFallback(w) \/ WriteEnds(w) \/ FileEvent(w) \/ HandleFile(w)
          \/ PersonEditsFile(w) \/ PersonCutsFile(w) \/ MoveItem(w)
          \/ OverlayStraggles(w) \/ RestartWatcher(w)
          \/ \E v \in Watcher : OverlayCopies(v, w)
          \/ \E n \in Node : RequestAll(w, n)
    \/ \E b \in Browser : BrowserAsks(b) \/ BrowserTypes(b) \/ BrowserReloads(b)
    \/ \E m \in mail :
          \/ m.to \in Watcher /\ (ReceiveAsk(m.to, m) \/ ReceiveDocument(m.to, m))
          \/ m.to \in Browser /\ BrowserReceives(m.to, m)

RealtimeSpec == RealtimeInit /\ [][RealtimeNext]_rvars

-----------------------------------------------------------------------------
(***************************************************************************)
(* Properties.                                                              *)
(***************************************************************************)

\* No document of a watcher shows what two seeds brought ("both texts interleaved, the
\* file written back with its content twice", realtime-server.js:702).  The code does not
\* ensure it: a document that holds an edit of another one, pending, shares a client
\* with it, and is then merged with it whole.
ShowsOneSeed(doc) ==
    \A i, j \in Visible(doc) : i.client.by = <<>> /\ j.client.by = <<>> => i.client = j.client
SeededOnce == \A w \in Watcher : ShowsOneSeed(held[w])

\* A document shows some of what it holds, and that goes back to one seed, or to none;
\* so does a message.
OfOneSeed(items) == \A i, j \in items : i.client.seed = j.client.seed
Coherent ==
    /\ \A doc \in {held[w] : w \in Watcher} \cup {tab[b] : b \in Browser} :
          OfOneSeed(doc.items) /\ (TextOf(doc) = {} => doc.items = {})
    /\ \A m \in mail : OfOneSeed(m.items)

\* What is not so mixed is never mixed by a step, whatever copies differ, watchers and
\* browsers come back, seeds are made at once and histories rebuilt: the document that
\* arrives whole from another seed is refused (foreignWholeDocument).
SeedsStayApart == [][~SeededOnce' => ~Coherent]_rvars

\* What the baseline of an edit on disk is for ("the file doubled, on disk and on every
\* machine", realtime-server.js:365): no edit shows twice.  Known not to hold in long
\* behaviours: two machines take an edit from their copies, each as its own.
NothingDoubled ==
    \A w \in Watcher : \A i, j \in Visible(held[w]) : i.piece = j.piece => i = j
=============================================================================
