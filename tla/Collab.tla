------------------------------- MODULE Collab -------------------------------
(***************************************************************************)
(* Live editing of one file of one person's overlay: the gateway's hub     *)
(* (rooms, sockets, saves, the idle sweep), the room and its authoritative *)
(* document, and the client half of the transformation loop.               *)
(*                                                                         *)
(* A step ends where the hub awaits the workspace.  Sockets deliver in     *)
(* order; the overlay's lock makes reads and writes of the file happen in  *)
(* the order they were asked for.                                          *)
(*                                                                         *)
(* Abstractions.  A letter is the client that typed it.  Both ends of a    *)
(* selection move alike, so a selection is its caret.  Messages that only  *)
(* change what a screen shows (selection, join, leave, saved, agents) are  *)
(* not sent.  When a frame carries a save and more, what follows it waits  *)
(* for the write; here it may also go ahead, as it does in a frame of its  *)
(* own.                                                                    *)
(***************************************************************************)
EXTENDS CollabText, FiniteSets

CONSTANTS
    None,           \* no operation, no caret, or no client: the idle sweep
    Clients,        \* browser tabs
    Guests,         \* those of other people than the overlay's owner
    Original,       \* the file's first text
    Outside,        \* what agents, resets and the HTTP routes may write to it
    HistoryLimit,   \* operations a document remembers
    MaxUnits,       \* MAX_DOCUMENT_UNITS
    MaxJoins,       \* bounds: connections made,
    MaxEdits,       \*         edits typed,
    MaxApart,       \*         edits typed up to the last one in two rooms,
    MaxExtras       \*         carets reported on their own or left out, saves,
                    \*         failures, writes from outside

\* What a text is made of, and what an operation on it is.
Alphabet == Clients \cup Range(Original)

Text == Seq(Alphabet)

Operation == Seq(Alphabet \cup {Keep, Cut})

ASSUME CollabAssumption ==
    /\ Guests \subseteq Clients
    /\ HistoryLimit \in Nat \ {0}
    /\ Original \in Text
    /\ Outside \subseteq Text
    /\ \A letter \in Alphabet : IsLetter(letter)
    /\ None \notin Operation

VARIABLES
    rooms,          \* every CollabRoom made for the file, oldest first
    registry,       \* the one the registry holds, 0 for none
    byRoom,         \* the sockets a broadcast to the file's key reaches
    split,          \* history: two rooms of the file were in use at once
    file,           \* the text on disk
    disk,           \* the hub's reads and writes of the file under way
    foreign,        \* history: others wrote the file since it did
    tab,            \* per client: its half of the loop
    up, down,       \* per client: messages to and from the hub
    used            \* how much of each bound is used up

roomVars == <<rooms, registry, byRoom, split>>
diskVars == <<file, disk, foreign>>
tabVars == <<tab, up, down>>
collabVars == <<roomVars, diskVars, tabVars, used>>

----------------------------------------------------------------------------
(* The document and the room.                                              *)

\* caret holds a position, or None, for each participant; it is out of date
\* for those in blind, whose last operation came without one.
NewRoom(content) ==
    [text |-> content, history |-> <<>>, base |-> 0, saved |-> 0,
     caret |-> <<>>, blind |-> {}]

Members(room) == DOMAIN room.caret

Revision(room) == room.base + Len(room.history)

Dirty(room) == Revision(room) # room.saved

Since(room, revision) ==
    SubSeq(room.history, revision - room.base + 1, Len(room.history))

InWindow(room, revision) == revision \in room.base..Revision(room)

\* An operation carried over others that landed one after the other, None
\* if one of the steps does not fit.
CarriedOver(operation, landed) ==
    LET mine[i \in 0..Len(landed)] ==
            IF i = 0 THEN operation
            ELSE IF \/ mine[i - 1] = None
                    \/ baseLength(mine[i - 1]) # baseLength(landed[i])
            THEN None
            ELSE transformOperations(mine[i - 1], landed[i])[1]
    IN  mine[Len(landed)]

\* The operation carried over all that landed since, None if it does not fit.
Rebased(room, revision, operation) ==
    LET result == CarriedOver(operation, Since(room, revision))
    IN  IF result # None /\ baseLength(result) = Len(room.text)
        THEN result ELSE None

Rebasable(room, message) ==
    /\ InWindow(room, message.revision)
    /\ Rebased(room, message.revision, message.operation) # None

TooLarge(room, operation) ==
    LET growth == targetLength(operation) - baseLength(operation)
    IN  Len(room.text) + (IF growth > 0 THEN growth ELSE 0) > MaxUnits

\* Fault: the limit is checked before the operation is added.
RememberOneMore(room, operation) ==
    LET excess == IF Len(room.history) > HistoryLimit
                  THEN Len(room.history) - HistoryLimit ELSE 0
        longer == Append(room.history, operation)
    IN  [room EXCEPT !.history = SubSeq(longer, excess + 1, Len(longer)),
                     !.base = @ + excess]

\* The history with one operation more, cut to the limit.
Remember(room, operation) ==
    LET longer == Append(room.history, operation)
        excess == IF Len(longer) > HistoryLimit
                  THEN Len(longer) - HistoryLimit ELSE 0
    IN  [room EXCEPT !.history = SubSeq(longer, excess + 1, Len(longer)),
                     !.base = @ + excess]

Clamp(position, length) == IF position > length THEN length ELSE position

\* Fault: the other participants' carets stay where they were.
CaretsStay(room, sender, operation) == room.caret

MoveCarets(room, sender, operation) ==
    [m \in Members(room) |->
        IF m = sender \/ room.caret[m] = None THEN room.caret[m]
        ELSE transformPosition(room.caret[m], operation)]

\* CollabRoom.receive: what the room is after an operation that fits.  The
\* sender's caret is the one that came with it; without one it stays.
Received(room, sender, message) ==
    LET applied == Rebased(room, message.revision, message.operation)
        text == applyOperation(room.text, applied)
        carets == MoveCarets(room, sender, applied)
        silent == message.caret = None
    IN  [Remember(room, applied) EXCEPT
            !.text = text,
            !.caret = IF silent THEN carets
                      ELSE [carets EXCEPT
                               ![sender] = Clamp(message.caret, Len(text))],
            !.blind = IF silent THEN @ \cup {sender} ELSE @ \ {sender}]

\* CollabDocument.since: operations that landed one after the other, as one.
Composed(landed) ==
    LET whole[i \in 1..Len(landed)] ==
            IF i = 1 THEN landed[1]
            ELSE composeOperations(whole[i - 1], landed[i])
    IN  whole[Len(landed)]

\* CollabRoom.setSelection: a caret carried over what landed since it was
\* reported, through one composed operation.
Placed(room, member, message) ==
    LET missed == Since(room, message.revision)
        catchUp == IF missed = <<>> THEN identityOperation(Len(room.text))
                   ELSE Composed(missed)
    IN  [room EXCEPT
            !.caret[member] =
                Clamp(transformPosition(message.caret, catchUp), Len(room.text)),
            !.blind = @ \ {member}]

----------------------------------------------------------------------------
(* The client's half.                                                      *)

Away == [room |-> 0, live |-> FALSE, revision |-> 0, text |-> <<>>,
         outstanding |-> None, buffer |-> None, refused |-> FALSE]

OpMessage(revision, operation, caret) ==
    [type |-> "op", revision |-> revision, operation |-> operation,
     caret |-> caret]

\* A tab restarted from a snapshot.
Reset(t, message) ==
    [t EXCEPT !.live = TRUE, !.revision = message.revision,
              !.text = message.content, !.outstanding = None,
              !.buffer = None, !.refused = FALSE]

\* An edit made locally, sent or kept for later.
ApplyLocal(t, operation) ==
    [t EXCEPT
        !.text = applyOperation(@, operation),
        !.outstanding = IF @ = None THEN operation ELSE @,
        !.buffer = IF t.outstanding = None THEN None
                   ELSE IF @ = None THEN operation
                   ELSE composeOperations(@, operation)]

\* Whether a broadcast applies to what the tab holds.
Fits(t, operation) ==
    baseLength(operation) = IF t.outstanding = None THEN Len(t.text)
                            ELSE baseLength(t.outstanding)

\* Fault: the tab lets a broadcast's insertions win ties.
ApplyServerSecond(t, operation) ==
    LET pair == transformOperations(operation, t.outstanding)
        pair2 == transformOperations(pair[1], t.buffer)
    IN  [t EXCEPT
            !.revision = @ + 1,
            !.outstanding = IF @ = None THEN None ELSE pair[2],
            !.buffer = IF @ = None THEN None ELSE pair2[2],
            !.text = applyOperation(@, IF t.outstanding = None THEN operation
                                       ELSE IF t.buffer = None THEN pair[1]
                                       ELSE pair2[1])]

ApplyServer(t, operation) ==
    LET pair == transformOperations(t.outstanding, operation)
        pair2 == transformOperations(t.buffer, pair[2])
    IN  [t EXCEPT
            !.revision = @ + 1,
            !.outstanding = IF @ = None THEN None ELSE pair[1],
            !.buffer = IF @ = None THEN None ELSE pair2[1],
            !.text = applyOperation(@, IF t.outstanding = None THEN operation
                                       ELSE IF t.buffer = None THEN pair[2]
                                       ELSE pair2[2])]

Acknowledge(t) ==
    [t EXCEPT !.revision = @ + 1, !.outstanding = t.buffer, !.buffer = None]

----------------------------------------------------------------------------
(* Opening and leaving.                                                    *)

CollabInit ==
    /\ rooms = <<>> /\ registry = 0 /\ byRoom = {} /\ split = FALSE
    /\ file = Original /\ disk = <<>> /\ foreign = FALSE
    /\ tab = [c \in Clients |-> Away]
    /\ up = [c \in Clients |-> <<>>] /\ down = [c \in Clients |-> <<>>]
    /\ used = [joins |-> 0, edits |-> 0, extras |-> 0]

Spend(what, limit) ==
    /\ used[what] < limit
    /\ used' = [used EXCEPT ![what] = @ + 1]

Welcome(room) ==
    [type |-> "welcome", revision |-> Revision(room), content |-> room.text]

\* The messages after m went to everyone in the set S.
Sent(queues, S, m) ==
    [c \in Clients |-> IF c \in S THEN Append(queues[c], m) ELSE queues[c]]

\* The carets with one more participant, whose caret is unknown.
WithMember(caret, c) ==
    [m \in DOMAIN caret \cup {c} |-> IF m = c THEN None ELSE caret[m]]

\* The end of an upgrade: c takes part in room r of the rooms rs.
Join(c, rs, r) ==
    /\ rooms' = [rs EXCEPT ![r].caret = WithMember(@, c)]
    /\ registry' = r
    /\ byRoom' = byRoom \cup {c}
    /\ tab' = [tab EXCEPT ![c] = [Away EXCEPT !.room = r]]
    /\ up' = [up EXCEPT ![c] = <<>>]
    /\ down' = [down EXCEPT ![c] = <<Welcome(rs[r])>>]

Opening(c) == \E i \in DOMAIN disk : disk[i].type = "read" /\ disk[i].by = c

Hosted == registry # 0 /\ Members(rooms[registry]) \ Guests # {}

MayOpen(c) ==
    /\ tab[c].room = 0 /\ ~Opening(c)
    /\ c \in Guests => Hosted

\* A room that the registry holds is joined at once.
OpenRoom(c) ==
    /\ MayOpen(c) /\ registry # 0
    /\ Spend("joins", MaxJoins)
    /\ Join(c, rooms, registry)
    /\ UNCHANGED <<split, diskVars>>

\* Otherwise the file is read first.
OpenFile(c) ==
    /\ MayOpen(c) /\ registry = 0
    /\ Spend("joins", MaxJoins)
    /\ disk' = Append(disk, [type |-> "read", by |-> c])
    /\ UNCHANGED <<roomVars, file, foreign, tabVars>>

\* Another room of the file is still in use: it has participants, or a write.
InUse ==
    \/ \E r \in DOMAIN rooms : Members(rooms[r]) # {}
    \/ \E i \in DOMAIN disk : disk[i].type = "write"

\* The read is answered: a room is made of it and takes the registry's
\* place, whoever opened the file in the meantime.
FileRead ==
    /\ disk # <<>> /\ Head(disk).type = "read"
    /\ Join(Head(disk).by, Append(rooms, NewRoom(file)), Len(rooms) + 1)
    /\ split' = (split \/ InUse)
    /\ foreign' = FALSE
    /\ disk' = Tail(disk)
    /\ UNCHANGED <<file, used>>

\* The file is missing, binary or too long, or the read fails.
UpgradeRejected ==
    /\ disk # <<>> /\ Head(disk).type = "read"
    /\ Spend("extras", MaxExtras)
    /\ disk' = Tail(disk)
    /\ UNCHANGED <<roomVars, file, foreign, tabVars>>

\* CollabRoom.leave.
Left(room, c) ==
    [room EXCEPT !.caret = [m \in Members(room) \ {c} |-> room.caret[m]],
                 !.blind = @ \ {c}]

\* Fault: whoever leaves clears the key's sockets.
ForgetAll(c) ==
    LET r == tab[c].room
        left == Left(rooms[r], c)
    IN  /\ r # 0
        /\ rooms' = [rooms EXCEPT ![r] = left]
        /\ byRoom' = {}
        /\ registry' = IF Members(left) = {} /\ ~Dirty(left) THEN 0 ELSE registry
        /\ tab' = [tab EXCEPT ![c] = Away]
        /\ up' = [up EXCEPT ![c] = <<>>]
        /\ down' = [down EXCEPT ![c] = <<>>]
        /\ UNCHANGED <<split, diskVars, used>>

\* forget: a socket closes, for whatever reason.  The last participant of a
\* room clears the key's sockets, and its registration if the room is clean.
Forget(c) ==
    LET r == tab[c].room
        left == Left(rooms[r], c)
    IN  /\ r # 0
        /\ rooms' = [rooms EXCEPT ![r] = left]
        /\ byRoom' = IF Members(left) = {} THEN {} ELSE byRoom \ {c}
        /\ registry' = IF Members(left) = {} /\ ~Dirty(left) THEN 0 ELSE registry
        /\ tab' = [tab EXCEPT ![c] = Away]
        /\ up' = [up EXCEPT ![c] = <<>>]
        /\ down' = [down EXCEPT ![c] = <<>>]
        /\ UNCHANGED <<split, diskVars, used>>

----------------------------------------------------------------------------
(* What a person does in a tab.                                            *)

\* One letter typed or deleted anywhere, with the caret it leaves behind.
Edits(c, length) ==
    {[operation |-> [j \in 1..(length + 1) |-> IF j = i THEN c ELSE Keep],
      caret |-> i] : i \in 1..(length + 1)}
    \cup
    {[operation |-> [j \in 1..length |-> IF j = i THEN Cut ELSE Keep],
      caret |-> i - 1] : i \in 1..length}

\* An operation goes out with the caret it leaves, or without one, which the
\* protocol allows.
SendOp(c, revision, operation, caret, spent) ==
    \/ /\ up' = [up EXCEPT ![c] = Append(@, OpMessage(revision, operation, caret))]
       /\ used' = spent
    \/ /\ spent.extras < MaxExtras
       /\ up' = [up EXCEPT ![c] = Append(@, OpMessage(revision, operation, None))]
       /\ used' = [spent EXCEPT !.extras = @ + 1]

Edit(c) ==
    LET spent == [used EXCEPT !.edits = @ + 1]
    IN  /\ tab[c].live
        /\ used.edits < IF split THEN MaxApart ELSE MaxEdits
        /\ \E e \in Edits(c, Len(tab[c].text)) :
            /\ tab' = [tab EXCEPT ![c] = ApplyLocal(@, e.operation)]
            /\ IF tab[c].outstanding # None THEN up' = up /\ used' = spent
               ELSE SendOp(c, tab[c].revision, e.operation, e.caret, spent)
        /\ UNCHANGED <<roomVars, diskVars, down>>

\* The caret goes to the end of the text.
Report(c) ==
    /\ tab[c].live
    /\ Spend("extras", MaxExtras)
    /\ up' = [up EXCEPT ![c] = Append(@,
                [type |-> "selection", revision |-> tab[c].revision,
                 caret |-> Len(tab[c].text)])]
    /\ UNCHANGED <<roomVars, diskVars, tab, down>>

AskSave(c) ==
    /\ tab[c].live
    /\ Spend("extras", MaxExtras)
    /\ up' = [up EXCEPT ![c] = Append(@, [type |-> "save"])]
    /\ UNCHANGED <<roomVars, diskVars, tab, down>>

----------------------------------------------------------------------------
(* The hub takes the next message of a socket.                             *)

Next1(c, type) == up[c] # <<>> /\ Head(up[c]).type = type

RoomOf(c) == rooms[tab[c].room]

\* An operation that fits is applied, acknowledged and broadcast to every
\* other socket of the key.
ReceiveOp(c) ==
    LET message == Head(up[c])
        after == Received(RoomOf(c), c, message)
        applied == [type |-> "op", operation |-> Last(after.history)]
    IN  /\ Next1(c, "op")
        /\ ~TooLarge(RoomOf(c), message.operation)
        /\ Rebasable(RoomOf(c), message)
        /\ rooms' = [rooms EXCEPT ![tab[c].room] = after]
        /\ down' = Sent(Sent(down, {c}, [type |-> "ack"]), byRoom \ {c}, applied)
        /\ up' = [up EXCEPT ![c] = Tail(@)]
        /\ UNCHANGED <<registry, byRoom, split, diskVars, tab, used>>

\* An operation that does not is answered by an error: fatal, unless the
\* document would grow too large.
RefuseOp(c) ==
    LET tooLarge == TooLarge(RoomOf(c), Head(up[c]).operation)
    IN  /\ Next1(c, "op")
        /\ tooLarge \/ ~Rebasable(RoomOf(c), Head(up[c]))
        /\ down' = Sent(down, {c}, [type |-> "error", fatal |-> ~tooLarge])
        /\ up' = [up EXCEPT ![c] = Tail(@)]
        /\ UNCHANGED <<roomVars, diskVars, tab, used>>

ReceiveSelection(c) ==
    /\ Next1(c, "selection")
    /\ rooms' = IF InWindow(RoomOf(c), Head(up[c]).revision)
                THEN [rooms EXCEPT ![tab[c].room] = Placed(@, c, Head(up[c]))]
                ELSE rooms
    /\ up' = [up EXCEPT ![c] = Tail(@)]
    /\ UNCHANGED <<registry, byRoom, split, diskVars, tab, down, used>>

Write(by, r) ==
    [type |-> "write", by |-> by, room |-> r,
     revision |-> Revision(rooms[r]), content |-> rooms[r].text]

\* save, up to the write it awaits.
ReceiveSave(c) ==
    /\ Next1(c, "save")
    /\ disk' = Append(disk, Write(c, tab[c].room))
    /\ up' = [up EXCEPT ![c] = Tail(@)]
    /\ UNCHANGED <<roomVars, file, foreign, tab, down, used>>

ReceiveResync(c) ==
    /\ Next1(c, "resync")
    /\ down' = Sent(down, {c}, Welcome(RoomOf(c)))
    /\ up' = [up EXCEPT ![c] = Tail(@)]
    /\ UNCHANGED <<roomVars, diskVars, tab, used>>

----------------------------------------------------------------------------
(* Writes and the idle sweep.                                              *)

\* Fault: the room is marked saved as it is when the write is done.
SaveWrittenLate ==
    LET write == Head(disk)
    IN  /\ disk # <<>> /\ write.type = "write" /\ write.by # None
        /\ file' = write.content
        /\ rooms' = [rooms EXCEPT ![write.room].saved =
                                          Revision(rooms[write.room])]
        /\ foreign' = FALSE
        /\ disk' = Tail(disk)
        /\ UNCHANGED <<registry, byRoom, split, tabVars, used>>

\* A write is done: the revision that is now on disk is remembered.
SaveWritten ==
    LET write == Head(disk)
    IN  /\ disk # <<>> /\ write.type = "write" /\ write.by # None
        /\ file' = write.content
        /\ rooms' = [rooms EXCEPT ![write.room].saved = write.revision]
        /\ foreign' = FALSE
        /\ disk' = Tail(disk)
        /\ UNCHANGED <<registry, byRoom, split, tabVars, used>>

\* The sweep's own write: it marks the room saved as it is by now, and
\* drops whatever the registry holds for the file.
FlushWritten ==
    LET write == Head(disk)
    IN  /\ disk # <<>> /\ write.type = "write" /\ write.by = None
        /\ file' = write.content
        /\ rooms' = [rooms EXCEPT ![write.room].saved =
                                          Revision(rooms[write.room])]
        /\ registry' = 0
        /\ foreign' = FALSE
        /\ disk' = Tail(disk)
        /\ UNCHANGED <<byRoom, split, tabVars, used>>

\* A write fails: the client is told, or the next sweep tries again.
WriteFails ==
    /\ disk # <<>> /\ Head(disk).type = "write"
    /\ Spend("extras", MaxExtras)
    /\ disk' = Tail(disk)
    /\ UNCHANGED <<roomVars, file, foreign, tabVars>>

\* The owner's overlay is also written by agents, moves, resets and the HTTP
\* routes, and no room is told.
OutsideWrite ==
    /\ Spend("extras", MaxExtras)
    /\ file' \in Outside
    /\ foreign' = TRUE
    /\ UNCHANGED <<roomVars, disk, tabVars>>

Sweeping == \E i \in DOMAIN disk : disk[i].by = None

Idle == registry # 0 /\ Members(rooms[registry]) = {} /\ ~Sweeping

\* flushIdleRooms: an empty room past its deadline is written if it is
\* dirty, and dropped at once if it is not.
Flush ==
    /\ Idle /\ Dirty(rooms[registry])
    /\ disk' = Append(disk, Write(None, registry))
    /\ UNCHANGED <<roomVars, file, foreign, tabVars, used>>

DropClean ==
    /\ Idle /\ ~Dirty(rooms[registry])
    /\ registry' = 0
    /\ UNCHANGED <<rooms, byRoom, split, diskVars, tabVars, used>>

----------------------------------------------------------------------------
(* A tab takes the next message from the hub.                              *)

Took(c, type) ==
    /\ down[c] # <<>> /\ Head(down[c]).type = type
    /\ down' = [down EXCEPT ![c] = Tail(@)]

TakeWelcome(c) ==
    /\ Took(c, "welcome")
    /\ tab' = [tab EXCEPT ![c] = Reset(@, Head(down[c]))]
    /\ UNCHANGED <<roomVars, diskVars, up, used>>

\* Fault: the buffered work is not sent when its turn comes.
TakeAckSilently(c) ==
    /\ Took(c, "ack")
    /\ tab' = [tab EXCEPT ![c] = Acknowledge(@)]
    /\ UNCHANGED <<roomVars, diskVars, up, used>>

TakeAck(c) ==
    /\ Took(c, "ack")
    /\ tab' = [tab EXCEPT ![c] = Acknowledge(@)]
    /\ IF tab[c].buffer = None THEN UNCHANGED <<up, used>>
       ELSE SendOp(c, tab'[c].revision, tab[c].buffer, Len(tab[c].text), used)
    /\ UNCHANGED <<roomVars, diskVars>>

TakeOp(c) ==
    /\ Took(c, "op")
    /\ Fits(tab[c], Head(down[c]).operation)
    /\ tab' = [tab EXCEPT ![c] = ApplyServer(@, Head(down[c]).operation)]
    /\ UNCHANGED <<roomVars, diskVars, up, used>>

Resync(c) == up' = [up EXCEPT ![c] = Append(@, [type |-> "resync"])]

\* A broadcast of another room is counted and then throws: the browser has
\* lost track.
TakeMisfit(c) ==
    /\ Took(c, "op")
    /\ ~Fits(tab[c], Head(down[c]).operation)
    /\ tab' = [tab EXCEPT ![c].revision = @ + 1]
    /\ Resync(c)
    /\ UNCHANGED <<roomVars, diskVars, used>>

\* The browser's answer to an error it cannot rebase past.
TakeError(c) ==
    /\ Took(c, "error")
    /\ IF Head(down[c]).fatal
       THEN Resync(c) /\ tab' = tab
       ELSE up' = up /\ tab' = [tab EXCEPT ![c].refused = TRUE]
    /\ UNCHANGED <<roomVars, diskVars, used>>

----------------------------------------------------------------------------

Hub(c) ==
    \/ ReceiveOp(c) \/ RefuseOp(c) \/ ReceiveSelection(c)
    \/ ReceiveSave(c) \/ ReceiveResync(c)

Browser(c) ==
    \/ TakeWelcome(c) \/ TakeAck(c) \/ TakeOp(c) \/ TakeMisfit(c) \/ TakeError(c)

Disk ==
    \/ FileRead \/ UpgradeRejected
    \/ SaveWritten \/ FlushWritten \/ WriteFails \/ OutsideWrite

CollabNext ==
    \/ \E c \in Clients :
        \/ OpenRoom(c) \/ OpenFile(c) \/ Forget(c)
        \/ Edit(c) \/ Report(c) \/ AskSave(c)
        \/ Hub(c) \/ Browser(c)
    \/ Disk \/ Flush \/ DropClean

\* What waits at the head of a queue is taken: frames are delivered and
\* handled, and the workspace answers.
HubTakes(c) == up[c] # <<>> /\ up' = [up EXCEPT ![c] = Tail(@)]

BrowserTakes(c) == down[c] # <<>> /\ down' = [down EXCEPT ![c] = Tail(@)]

DiskTakes == disk # <<>> /\ disk' = Tail(disk)

CollabFairness ==
    /\ \A c \in Clients : WF_up(HubTakes(c)) /\ WF_down(BrowserTakes(c))
    /\ WF_disk(DiskTakes)

CollabSpec == CollabInit /\ [][CollabNext]_collabVars /\ CollabFairness

----------------------------------------------------------------------------
(* Properties.                                                             *)

\* The rooms, the tabs and the queues are what the classes declare.
CollabTypeOK ==
    /\ \A r \in DOMAIN rooms :
        /\ rooms[r].text \in Text
        /\ Len(rooms[r].history) <= HistoryLimit
        /\ rooms[r].saved \in 0..Revision(rooms[r])
        /\ Members(rooms[r]) = {c \in Clients : tab[c].room = r}
    /\ registry \in 0..Len(rooms)
    /\ byRoom \subseteq Clients
    /\ \A c \in Clients :
        /\ tab[c].room \in 0..Len(rooms)
        /\ tab[c].buffer # None => tab[c].outstanding # None

\* Nothing is under way between a tab and its room.
Settled(c) == tab[c].live /\ tab[c].outstanding = None /\ down[c] = <<>>

\* assertConverged: a tab with nothing in flight, in either direction, shows
\* the room's text at the room's revision, in whatever order the edits, the
\* acknowledgements, the broadcasts and the resynchronisations crossed.  Once
\* a file has two rooms, their broadcasts mix.
Convergence ==
    ~split => \A c \in Clients : Settled(c) =>
        /\ tab[c].text = RoomOf(c).text
        /\ tab[c].revision = Revision(RoomOf(c))

\* Neither transform_mismatch nor length_mismatch is ever thrown: a
\* broadcast fits what its tab holds, and an operation that names a revision
\* of the window can be rebased and still types what its author typed, for
\* as long as the file has one room.
OperationsFit ==
    ~split => \A c \in Clients :
        /\ down[c] # <<>> /\ Head(down[c]).type = "op"
               => Fits(tab[c], Head(down[c]).operation)
        /\ Next1(c, "op") =>
            LET message == Head(up[c])
                rebased == Rebased(RoomOf(c), message.revision,
                                   message.operation)
            IN  InWindow(RoomOf(c), message.revision) =>
                    /\ rebased # None
                    /\ Typed(rebased) = Typed(message.operation)

\* A caret the room shows to the others is a position of its text, unless
\* its owner's last operation came without one.
CaretsInside ==
    \A r \in DOMAIN rooms : \A m \in Members(rooms[r]) \ rooms[r].blind :
        rooms[r].caret[m] # None => rooms[r].caret[m] \in 0..Len(rooms[r].text)

\* savedRevision: while the registry holds a clean room, its text is the
\* file's, so that the room may be dropped and read again: whatever crossed
\* the hub's reads and writes, and unless others wrote the file since.
CleanIsOnDisk ==
    registry # 0 /\ ~Dirty(rooms[registry]) /\ ~foreign /\ ~split
        => rooms[registry].text = file

\* A tab's edits are all answered in the end, unless it leaves or an edit is
\* refused as too large, which no message takes back.
EditsAnswered ==
    \A c \in Clients :
        tab[c].outstanding # None
            ~> tab[c].outstanding = None \/ tab[c].refused \/ split
----------------------------------------------------------------------------
(* The inductive invariant of CleanIsOnDisk.                               *)

TabFields ==
    {"room", "live", "revision", "text", "outstanding", "buffer", "refused"}

RoomFields == {"text", "history", "base", "saved", "caret", "blind"}

\* A room's revision counts the operations it applied, of which it remembers
\* no more than the limit, and it was never saved beyond it.
WellKept(room) ==
    /\ DOMAIN room = RoomFields
    /\ room.history \in Seq(Range(room.history))
    /\ Len(room.history) <= HistoryLimit
    /\ room.base \in Nat
    /\ room.saved \in 0..Revision(room)

RoomsKept ==
    /\ rooms \in Seq(Range(rooms))
    /\ \A r \in DOMAIN rooms : WellKept(rooms[r])
    /\ registry \in 0..Len(rooms)
    /\ split \in BOOLEAN

\* A tab that takes part in no room has nothing under way.
TabsKept ==
    /\ tab = [c \in Clients |-> tab[c]]
    /\ up = [c \in Clients |-> up[c]]
    /\ down = [c \in Clients |-> down[c]]
    /\ \A c \in Clients :
        /\ DOMAIN tab[c] = TabFields
        /\ tab[c].room \in 0..Len(rooms)
        /\ tab[c].room = 0 => ~tab[c].live /\ up[c] = <<>> /\ down[c] = <<>>

\* A write under way holds the text its room had at the revision it names.
IsText(write) ==
    /\ write.room \in DOMAIN rooms
    /\ write.revision \in 0..Revision(rooms[write.room])
    /\ write.revision = Revision(rooms[write.room])
           => write.content = rooms[write.room].text

DiskKept ==
    /\ disk \in Seq(Range(disk))
    /\ \A i \in DOMAIN disk :
        /\ disk[i].type = "read" => disk[i].by \in Clients
        /\ disk[i].type = "write" => IsText(disk[i])

\* Everybody who has the file open is a participant of one room, which is the
\* registry's unless the sweep has dropped it, and a broadcast to the file's
\* key reaches exactly them.
Gathered ==
    /\ byRoom = {c \in Clients : tab[c].room # 0}
    /\ \A c \in byRoom :
        /\ c \in Members(rooms[tab[c].room])
        /\ registry # 0 => tab[c].room = registry
        /\ \A d \in byRoom : tab[d].room = tab[c].room

\* No write under way is of another room than the registry's.
OneWriter ==
    registry # 0 => \A i \in DOMAIN disk :
        disk[i].type = "write" => disk[i].room = registry

\* A broadcast reaches nobody who does not have the file open.
Reached == byRoom \subseteq {c \in Clients : tab[c].room # 0}

\* What holds of the editor in every state: rooms, tabs and writes under way
\* are kept as the code keeps them; and for as long as the file was given no
\* second room, everybody is gathered in the one whose broadcasts reach them
\* all, and a clean room is what is on disk.
CollabInv ==
    /\ RoomsKept
    /\ TabsKept
    /\ DiskKept
    /\ Reached
    /\ ~split => Gathered /\ OneWriter
    /\ CleanIsOnDisk
=============================================================================
