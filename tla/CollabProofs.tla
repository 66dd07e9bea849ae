---------------------------- MODULE CollabProofs ----------------------------
(***************************************************************************)
(* Proofs about Collab: while one room of the file is in use, everybody    *)
(* who has it open is reached by its broadcasts, and a room that counts as *)
(* saved is what is on disk, whatever is typed while a write is under way. *)
(* Nothing here depends on what an operation computes: the operators of    *)
(* CollabText stay closed.                                                 *)
(***************************************************************************)
EXTENDS Collab, SequenceTheorems, TLAPS

----------------------------------------------------------------------------
(* Sequences of anything.                                                  *)

\* A sequence is one of its own elements.
LEMMA OwnSeq ==
    ASSUME NEW S, NEW s \in Seq(S)
    PROVE  s \in Seq(Range(s))
  <1>1. /\ Len(s) \in Nat
        /\ s \in [1..Len(s) -> S]
        /\ DOMAIN s = 1..Len(s)
    BY LenProperties
  <1>2. \A i \in 1..Len(s) : s[i] \in Range(s)
    BY <1>1 DEF Range
  <1>3. s \in [1..Len(s) -> Range(s)]
    BY <1>1, <1>2
  <1> QED
    BY <1>1, <1>3, SeqDef

\* What Append does to a sequence, whatever its elements are.
LEMMA OwnAppend ==
    ASSUME NEW s, s \in Seq(Range(s)), NEW e
    PROVE  /\ Append(s, e) \in Seq(Range(Append(s, e)))
           /\ Len(s) \in Nat
           /\ DOMAIN s = 1..Len(s)
           /\ Len(Append(s, e)) = Len(s) + 1
           /\ DOMAIN Append(s, e) = 1..(Len(s) + 1)
           /\ Append(s, e)[Len(s) + 1] = e
           /\ \A i \in 1..Len(s) : Append(s, e)[i] = s[i]
  <1> DEFINE S == Range(s) \cup {e}
  <1>1. s \in Seq(S)
    BY SeqMonotonic
  <1>2. Append(s, e) \in Seq(S)
    BY <1>1
  <1>3. Append(s, e) \in Seq(Range(Append(s, e)))
    BY <1>2, OwnSeq
  <1> QED
    BY <1>1, <1>2, <1>3, LenProperties

\* What Tail and Head take from a sequence, whatever its elements are.
LEMMA OwnTail ==
    ASSUME NEW s, s \in Seq(Range(s)), s # <<>>
    PROVE  /\ Tail(s) \in Seq(Range(Tail(s)))
           /\ Len(s) \in Nat \ {0}
           /\ DOMAIN s = 1..Len(s)
           /\ DOMAIN Tail(s) = 1..(Len(s) - 1)
           /\ Head(s) = s[1]
           /\ \A i \in 1..(Len(s) - 1) : Tail(s)[i] = s[i + 1]
  <1>1. /\ Tail(s) \in Seq(Range(s))
        /\ Len(Tail(s)) = Len(s) - 1
        /\ \A i \in 1..Len(Tail(s)) : Tail(s)[i] = s[i + 1]
    BY HeadTailProperties
  <1>2. Tail(s) \in Seq(Range(Tail(s)))
    BY <1>1, OwnSeq
  <1>3. Len(s) \in Nat \ {0} /\ DOMAIN s = 1..Len(s)
    BY EmptySeq, LenProperties
  <1>4. DOMAIN Tail(s) = 1..Len(Tail(s))
    BY <1>1, LenProperties
  <1>5. Head(s) = s[1]
    OBVIOUS
  <1> QED
    BY <1>1, <1>2, <1>3, <1>4, <1>5

\* A function with the domain of a sequence is a sequence of its length.
LEMMA OwnShape ==
    ASSUME NEW s, s \in Seq(Range(s)), NEW t, t = [i \in DOMAIN s |-> t[i]]
    PROVE  /\ t \in Seq(Range(t))
           /\ Len(t) = Len(s)
           /\ DOMAIN t = DOMAIN s
  <1>1. DOMAIN s = 1..Len(s) /\ Len(s) \in Nat
    BY LenProperties
  <1>2. DOMAIN t = 1..Len(s)
    BY <1>1
  <1>3. \A i \in 1..Len(s) : t[i] \in Range(t)
    BY <1>2 DEF Range
  <1>4. t \in [1..Len(s) -> Range(t)]
    BY <1>1, <1>3
  <1>5. t \in Seq(Range(t))
    BY <1>1, <1>4, SeqDef
  <1>6. Len(t) \in Nat /\ 1..Len(t) = 1..Len(s)
    BY <1>2, <1>5, LenProperties
  <1>7. Len(t) = Len(s)
    BY <1>1, <1>6
  <1> QED
    BY <1>1, <1>2, <1>5, <1>7

----------------------------------------------------------------------------
(* What happens to a room.                                                 *)

\* The revision a room had names the text it had: a room that changes its
\* text is one revision further.
Advances(old, new) ==
    \/ Revision(new) = Revision(old) /\ new.text = old.text
    \/ Revision(new) = Revision(old) + 1

\* A room of the file as it was read.
LEMMA NewRoomKept ==
    ASSUME NEW content
    PROVE  /\ WellKept(NewRoom(content))
           /\ Revision(NewRoom(content)) = 0
           /\ NewRoom(content).text = content
  <1>1. <<>> \in Seq(Range(<<>>)) /\ Len(<<>>) = 0
    BY EmptySeq
  <1> QED
    BY <1>1, CollabAssumption DEF WellKept, NewRoom, Revision, RoomFields

\* Remembering an operation raises the revision by one, at the limit of the
\* history too, and keeps the history within it.
LEMMA RememberGrows ==
    ASSUME NEW room, WellKept(room), NEW operation
    PROVE  LET new == Remember(room, operation)
           IN  /\ DOMAIN new = RoomFields
               /\ new.saved = room.saved
               /\ new.history \in Seq(Range(new.history))
               /\ Len(new.history) <= HistoryLimit
               /\ new.base \in Nat
               /\ Revision(new) = Revision(room) + 1
  <1> DEFINE longer == Append(room.history, operation)
             excess == IF Len(longer) > HistoryLimit
                       THEN Len(longer) - HistoryLimit ELSE 0
             cut == SubSeq(longer, excess + 1, Len(longer))
             new == Remember(room, operation)
  <1>1. /\ longer \in Seq(Range(longer))
        /\ Len(room.history) \in Nat
        /\ Len(longer) = Len(room.history) + 1
    BY OwnAppend DEF WellKept
  <1>2. HistoryLimit \in Nat \ {0} /\ Len(room.history) <= HistoryLimit
    BY CollabAssumption DEF WellKept
  <1>3. excess \in 0..1 /\ excess + 1 <= Len(longer)
    BY <1>1, <1>2
  <1> HIDE DEF excess, longer
  <1>4. \A i \in (excess + 1)..Len(longer) : longer[i] \in Range(longer)
    BY <1>1, <1>3, ElementOfSeq
  <1>5. /\ cut \in Seq(Range(longer))
        /\ Len(cut) = Len(longer) - excess
    BY <1>1, <1>3, <1>4, SubSeqProperties
  <1>6. cut \in Seq(Range(cut))
    BY <1>5, OwnSeq
  <1>7. Len(cut) <= HistoryLimit
    BY <1>1, <1>2, <1>5 DEF excess
  <1>8. new = [room EXCEPT !.history = cut, !.base = @ + excess]
    BY DEF Remember, excess, longer
  <1> HIDE DEF cut, new
  <1>9. DOMAIN new = RoomFields /\ new.saved = room.saved
    BY <1>8 DEF WellKept, RoomFields
  <1>10. new.history = cut /\ new.base = room.base + excess
    BY <1>8 DEF WellKept, RoomFields
  <1>11. room.base \in Nat
    BY DEF WellKept
  <1>12. Revision(new) = Revision(room) + 1
    <2>1. Len(cut) = Len(room.history) + 1 - excess
      BY <1>1, <1>3, <1>5
    <2>2. Revision(new) = (room.base + excess) + Len(cut)
      BY <1>10 DEF Revision
    <2>3. Revision(room) = room.base + Len(room.history)
      BY DEF Revision
    <2> QED
      BY <1>1, <1>3, <1>11, <2>1, <2>2, <2>3
  <1>13. new.base \in Nat
    BY <1>3, <1>10, <1>11
  <1> QED
    BY <1>6, <1>7, <1>9, <1>10, <1>12, <1>13 DEF new

\* CollabRoom.receive: one revision more, nobody joins or leaves, and the
\* room is not more saved than it was.
LEMMA ReceivedAdvances ==
    ASSUME NEW room, WellKept(room), NEW sender, NEW message
    PROVE  LET new == Received(room, sender, message)
           IN  /\ WellKept(new)
               /\ Revision(new) = Revision(room) + 1
               /\ new.saved = room.saved
               /\ Members(new) = Members(room)
  <1> DEFINE applied == Rebased(room, message.revision, message.operation)
             text == applyOperation(room.text, applied)
             carets == MoveCarets(room, sender, applied)
             caret == IF message.caret = None THEN carets
                      ELSE [carets EXCEPT
                               ![sender] = Clamp(message.caret, Len(text))]
             kept == Remember(room, applied)
             blind == IF message.caret = None THEN kept.blind \cup {sender}
                      ELSE kept.blind \ {sender}
             new == Received(room, sender, message)
  <1>1. DOMAIN caret = Members(room)
    BY DEF MoveCarets
  <1>2. new = [kept EXCEPT !.text = text, !.caret = caret, !.blind = blind]
    BY DEF Received
  <1>3. /\ DOMAIN kept = RoomFields
        /\ kept.saved = room.saved
        /\ kept.history \in Seq(Range(kept.history))
        /\ Len(kept.history) <= HistoryLimit
        /\ kept.base \in Nat
        /\ Revision(kept) = Revision(room) + 1
    BY RememberGrows
  <1> HIDE DEF caret, text, kept, blind, new
  <1>4. DOMAIN new = RoomFields
    BY <1>2, <1>3
  <1>5. /\ new.history = kept.history /\ new.base = kept.base
        /\ new.saved = room.saved /\ new.caret = caret
    BY <1>2, <1>3 DEF RoomFields
  <1>6. Revision(new) = Revision(room) + 1
    BY <1>3, <1>5 DEF Revision
  <1>7. Revision(room) \in Nat /\ room.saved \in 0..Revision(room)
    BY LenProperties DEF WellKept, Revision
  <1>8. new.saved \in 0..Revision(new)
    BY <1>5, <1>6, <1>7
  <1>9. WellKept(new)
    BY <1>3, <1>4, <1>5, <1>8 DEF WellKept
  <1> QED
    BY <1>1, <1>5, <1>6, <1>9 DEF Members, new

\* A room that moves its participants' carets, takes in or loses one, or is
\* marked saved, is at the revision it was.
LEMMA SameText ==
    ASSUME NEW room, WellKept(room), NEW new, DOMAIN new = RoomFields,
           new.text = room.text, new.history = room.history,
           new.base = room.base, new.saved \in 0..Revision(room)
    PROVE  /\ WellKept(new)
           /\ Revision(new) = Revision(room)
           /\ Advances(room, new)
  BY DEF WellKept, Revision, Advances

----------------------------------------------------------------------------
(* What a step leaves as it was.                                           *)

\* The rooms there were are there, each as it was or one operation further.
RoomsCarry ==
    /\ rooms' \in Seq(Range(rooms'))
    /\ Len(rooms') >= Len(rooms)
    /\ \A r \in DOMAIN rooms' : WellKept(rooms'[r])
    /\ \A r \in DOMAIN rooms :
        r \in DOMAIN rooms' /\ Advances(rooms[r], rooms'[r])

\* Nobody enters or leaves a room, and only those in one have messages.
Talks ==
    /\ tab' = [d \in Clients |-> tab'[d]]
    /\ up' = [d \in Clients |-> up'[d]]
    /\ down' = [d \in Clients |-> down'[d]]
    /\ \A d \in Clients :
        /\ DOMAIN tab'[d] = TabFields
        /\ tab'[d].room = tab[d].room
        /\ tab[d].room = 0
            => tab'[d] = tab[d] /\ up'[d] = up[d] /\ down'[d] = down[d]

\* Rooms that nothing happens to carry over.
LEMMA RoomsStay ==
    ASSUME RoomsKept, rooms' = rooms
    PROVE  RoomsCarry
  BY LenProperties DEF RoomsKept, RoomsCarry, Advances

\* One room replaced by what it becomes.
LEMMA RoomReplaced ==
    ASSUME RoomsKept, NEW r \in DOMAIN rooms, NEW e,
           WellKept(e), Advances(rooms[r], e),
           rooms' = [rooms EXCEPT ![r] = e]
    PROVE  /\ RoomsCarry
           /\ rooms'[r] = e
           /\ \A q \in DOMAIN rooms : q # r => rooms'[q] = rooms[q]
  <1>1. /\ rooms' \in Seq(Range(rooms'))
        /\ Len(rooms') = Len(rooms)
        /\ DOMAIN rooms' = DOMAIN rooms
        /\ \A q \in DOMAIN rooms : rooms'[q] = IF q = r THEN e ELSE rooms[q]
    <2>1. rooms \in Seq(Range(rooms))
      BY DEF RoomsKept
    <2>2. /\ rooms' = [q \in DOMAIN rooms |-> rooms'[q]]
          /\ \A q \in DOMAIN rooms : rooms'[q] = IF q = r THEN e ELSE rooms[q]
      OBVIOUS
    <2> QED
      BY <2>1, <2>2, OwnShape
  <1>2. \A q \in DOMAIN rooms :
            WellKept(rooms'[q]) /\ Advances(rooms[q], rooms'[q])
    BY <1>1 DEF RoomsKept, Advances
  <1> QED
    BY <1>1, <1>2 DEF RoomsCarry

\* A text that names its revision goes on to: the room is at that revision
\* with that text, or past it.
LEMMA TextsStay ==
    ASSUME RoomsKept, RoomsCarry, NEW w, IsText(w)
    PROVE  /\ w.room \in DOMAIN rooms'
           /\ w.revision \in 0..Revision(rooms'[w.room])
           /\ w.revision = Revision(rooms'[w.room])
                  => w.content = rooms'[w.room].text
  <1> DEFINE old == rooms[w.room]
             new == rooms'[w.room]
  <1>1. w.room \in DOMAIN rooms /\ WellKept(old)
    BY DEF IsText, RoomsKept
  <1>2. Revision(old) \in Nat
    BY <1>1, LenProperties DEF WellKept, Revision
  <1>3. Advances(old, new) /\ w.room \in DOMAIN rooms'
    BY <1>1 DEF RoomsCarry
  <1>4. /\ w.revision \in 0..Revision(old)
        /\ w.revision = Revision(old) => w.content = old.text
    BY DEF IsText
  <1> HIDE DEF old, new
  <1>5. /\ w.revision \in 0..Revision(new)
        /\ w.revision = Revision(new) => w.content = new.text
    BY <1>2, <1>3, <1>4 DEF Advances
  <1> QED
    BY <1>3, <1>5 DEF new

\* Talking leaves the tabs where they are.
LEMMA TabsTalk ==
    ASSUME TabsKept, Talks, RoomsKept, RoomsCarry
    PROVE  TabsKept'
  <1>1. 0..Len(rooms) \subseteq 0..Len(rooms')
    BY LenProperties DEF RoomsKept, RoomsCarry
  <1> QED
    BY <1>1 DEF TabsKept, Talks

\* Everybody stays gathered when nobody enters or leaves, unless the file
\* loses its registration.
LEMMA GatheredStay ==
    ASSUME Gathered, TabsKept, RoomsKept, RoomsCarry, Talks,
           byRoom' = byRoom, registry' \in {registry, 0},
           \A r \in DOMAIN rooms : Members(rooms'[r]) = Members(rooms[r])
    PROVE  Gathered'
  <1>1. \A d \in Clients : tab'[d].room = tab[d].room
    BY DEF Talks
  <1>2. byRoom \subseteq Clients
    BY DEF Gathered
  <1>3. \A d \in byRoom : tab[d].room \in DOMAIN rooms
    BY LenProperties DEF Gathered, TabsKept, RoomsKept
  <1> QED
    BY <1>1, <1>2, <1>3 DEF Gathered

\* Nor is anybody else reached.
LEMMA ReachedStay ==
    ASSUME Reached, Talks, byRoom' = byRoom
    PROVE  Reached'
  BY DEF Reached, Talks

\* What is under way at the disk stays so.
LEMMA DiskStays ==
    ASSUME DiskKept, RoomsKept, RoomsCarry, disk' = disk
    PROVE  DiskKept'
  <1>1. \A i \in DOMAIN disk : disk[i].type = "write" => IsText(disk[i])'
    BY TextsStay DEF DiskKept, IsText
  <1> QED
    BY <1>1 DEF DiskKept

\* The first of what is under way is done.
LEMMA DiskTakesOne ==
    ASSUME DiskKept, RoomsKept, RoomsCarry, disk # <<>>, disk' = Tail(disk)
    PROVE  /\ DiskKept'
           /\ OneWriter /\ registry' \in {registry, 0} => OneWriter'
           /\ Head(disk).type = "read" => Head(disk).by \in Clients
           /\ Head(disk).type = "write" => IsText(Head(disk))
           /\ OneWriter /\ registry # 0 /\ Head(disk).type = "write"
                => Head(disk).room = registry
  <1>1. /\ Tail(disk) \in Seq(Range(Tail(disk)))
        /\ Len(disk) \in Nat \ {0}
        /\ DOMAIN disk = 1..Len(disk)
        /\ DOMAIN Tail(disk) = 1..(Len(disk) - 1)
        /\ Head(disk) = disk[1]
        /\ \A i \in 1..(Len(disk) - 1) : Tail(disk)[i] = disk[i + 1]
    BY OwnTail DEF DiskKept
  <1>2. \A i \in DOMAIN disk' : i + 1 \in DOMAIN disk /\ disk'[i] = disk[i + 1]
    BY <1>1
  <1>3. ASSUME NEW w, IsText(w)
        PROVE  IsText(w)'
    BY <1>3, TextsStay DEF IsText
  <1>4. DiskKept'
    <2>1. disk' \in Seq(Range(disk'))
      BY <1>1
    <2>2. ASSUME NEW i \in DOMAIN disk'
          PROVE  /\ disk'[i].type = "read" => disk'[i].by \in Clients
                 /\ disk'[i].type = "write" => IsText(disk[i])'
      <3>1. PICK w : w = disk[i + 1] /\ w = disk'[i]
        BY <1>2
      <3>2. /\ w.type = "read" => w.by \in Clients
            /\ w.type = "write" => IsText(w)
        BY <1>2, <3>1 DEF DiskKept
      <3>3. w.type = "write" => IsText(w)'
        BY <1>3, <3>2
      <3> QED
        BY <3>1, <3>2, <3>3 DEF IsText
    <2> QED
      BY <2>1, <2>2 DEF DiskKept
  <1>5. 1 \in DOMAIN disk
    BY <1>1
  <1> QED
    BY <1>1, <1>2, <1>4, <1>5 DEF DiskKept, OneWriter

\* One thing more is asked of the disk.
LEMMA DiskAsked ==
    ASSUME DiskKept, RoomsKept, rooms' = rooms, registry' = registry,
           NEW w, disk' = Append(disk, w),
           w.type = "read" => w.by \in Clients,
           w.type = "write" => IsText(w)
    PROVE  /\ DiskKept'
           /\ OneWriter /\ (w.type = "write" /\ registry # 0 => w.room = registry)
                => OneWriter'
  <1>1. /\ disk' \in Seq(Range(disk'))
        /\ Len(disk) \in Nat
        /\ DOMAIN disk = 1..Len(disk)
        /\ DOMAIN disk' = 1..(Len(disk) + 1)
        /\ disk'[Len(disk) + 1] = w
        /\ \A i \in 1..Len(disk) : disk'[i] = disk[i]
    BY OwnAppend DEF DiskKept
  <1>2. \A i \in DOMAIN disk' :
            disk'[i] = w \/ (i \in DOMAIN disk /\ disk'[i] = disk[i])
    BY <1>1
  <1>3. DiskKept'
    BY <1>1, <1>2 DEF DiskKept, IsText
  <1> QED
    BY <1>2, <1>3 DEF OneWriter

----------------------------------------------------------------------------
(* Steps that only exchange messages.                                      *)

\* What a tab makes of an edit, a broadcast, an acknowledgement or a
\* snapshot leaves it in its room.
LEMMA TabStays ==
    ASSUME NEW t, DOMAIN t = TabFields, NEW m
    PROVE  /\ DOMAIN ApplyLocal(t, m) = TabFields /\ ApplyLocal(t, m).room = t.room
           /\ DOMAIN ApplyServer(t, m) = TabFields /\ ApplyServer(t, m).room = t.room
           /\ DOMAIN Acknowledge(t) = TabFields /\ Acknowledge(t).room = t.room
           /\ DOMAIN Reset(t, m) = TabFields /\ Reset(t, m).room = t.room
           /\ LET r == [t EXCEPT !.refused = TRUE]
              IN  DOMAIN r = TabFields /\ r.room = t.room
  <1>1. DOMAIN ApplyLocal(t, m) = TabFields /\ ApplyLocal(t, m).room = t.room
    BY DEF ApplyLocal, TabFields
  <1>2. DOMAIN ApplyServer(t, m) = TabFields /\ ApplyServer(t, m).room = t.room
    BY DEF ApplyServer, TabFields
  <1>3. DOMAIN Acknowledge(t) = TabFields /\ Acknowledge(t).room = t.room
    BY DEF Acknowledge, TabFields
  <1>4. DOMAIN Reset(t, m) = TabFields /\ Reset(t, m).room = t.room
    BY DEF Reset, TabFields
  <1>5. LET r == [t EXCEPT !.refused = TRUE]
        IN  DOMAIN r = TabFields /\ r.room = t.room
    BY DEF TabFields
  <1> QED
    BY <1>1, <1>2, <1>3, <1>4, <1>5

\* A tab in a room, its hub and its socket talk.
LEMMA TalkOf ==
    ASSUME TabsKept, NEW c \in Clients, tab[c].room # 0,
           \/ tab' = tab
           \/ \E t : /\ tab' = [tab EXCEPT ![c] = t]
                     /\ DOMAIN t = TabFields /\ t.room = tab[c].room,
           \/ up' = up
           \/ \E u : up' = [up EXCEPT ![c] = u],
           down' = [d \in Clients |-> down'[d]],
           \A d \in Clients : tab[d].room = 0 => down'[d] = down[d]
    PROVE  Talks
  <1>1. /\ tab' = [d \in Clients |-> tab'[d]]
        /\ \A d \in Clients : DOMAIN tab'[d] = TabFields
                              /\ tab'[d].room = tab[d].room
                              /\ (d # c => tab'[d] = tab[d])
    BY DEF TabsKept
  <1>2. /\ up' = [d \in Clients |-> up'[d]]
        /\ \A d \in Clients : d # c => up'[d] = up[d]
    BY DEF TabsKept
  <1> QED
    BY <1>1, <1>2 DEF Talks

\* Whoever has a message under way, or a live text, is in a room.
LEMMA InRoom ==
    ASSUME TabsKept, NEW c \in Clients,
           tab[c].live \/ up[c] # <<>> \/ down[c] # <<>>
    PROVE  tab[c].room # 0
  BY DEF TabsKept

\* What a person does in a tab.
LEMMA PersonTalks ==
    ASSUME TabsKept, NEW c \in Clients, Edit(c) \/ Report(c) \/ AskSave(c)
    PROVE  Talks
  <1>1. tab[c].room # 0
    BY InRoom DEF Edit, Report, AskSave
  <1>2. DOMAIN tab[c] = TabFields /\ down = [d \in Clients |-> down[d]]
    BY DEF TabsKept
  <1>3. CASE Edit(c)
    <2>1. PICK e : /\ tab' = [tab EXCEPT ![c] = ApplyLocal(tab[c], e)]
                   /\ \/ up' = up
                      \/ \E u : up' = [up EXCEPT ![c] = u]
      BY <1>3 DEF Edit, SendOp
    <2>2. down' = down
      BY <1>3 DEF Edit
    <2> DEFINE t == ApplyLocal(tab[c], e)
    <2>3. DOMAIN t = TabFields /\ t.room = tab[c].room
      BY <1>2, TabStays
    <2>4. \E u : /\ tab' = [tab EXCEPT ![c] = u]
                /\ DOMAIN u = TabFields /\ u.room = tab[c].room
      BY <2>1, <2>3
    <2> QED
      BY <1>1, <1>2, <2>1, <2>2, <2>4, TalkOf
  <1>4. CASE Report(c) \/ AskSave(c)
    <2>1. tab' = tab /\ down' = down /\ \E u : up' = [up EXCEPT ![c] = u]
      BY <1>4 DEF Report, AskSave
    <2> QED
      BY <1>1, <1>2, <2>1, TalkOf
  <1> QED
    BY <1>3, <1>4

\* The browser takes a message.
LEMMA BrowserTalks ==
    ASSUME TabsKept, NEW c \in Clients, Browser(c)
    PROVE  Talks
  <1>1. down[c] # <<>> /\ down' = [down EXCEPT ![c] = Tail(@)]
    BY DEF Browser, TakeWelcome, TakeAck, TakeOp, TakeMisfit, TakeError, Took
  <1>2. tab[c].room # 0
    BY <1>1, InRoom
  <1>3. /\ down' = [d \in Clients |-> down'[d]]
        /\ \A d \in Clients : tab[d].room = 0 => down'[d] = down[d]
    BY <1>1, <1>2 DEF TabsKept
  <1>4. DOMAIN tab[c] = TabFields
    BY DEF TabsKept
  <1>5. \/ up' = up
        \/ \E u : up' = [up EXCEPT ![c] = u]
    BY DEF Browser, TakeWelcome, TakeAck, TakeOp, TakeMisfit, TakeError, Resync,
           SendOp
  <1>6. \/ tab' = tab
        \/ \E t : /\ tab' = [tab EXCEPT ![c] = t]
                  /\ DOMAIN t = TabFields /\ t.room = tab[c].room
    <2>1. CASE TakeWelcome(c)
      <3>1. tab' = [tab EXCEPT ![c] = Reset(tab[c], Head(down[c]))]
        BY <2>1 DEF TakeWelcome
      <3> DEFINE t == Reset(tab[c], Head(down[c]))
      <3>2. DOMAIN t = TabFields /\ t.room = tab[c].room
        BY <1>4, TabStays
      <3> QED
        BY <3>1, <3>2
    <2>2. CASE TakeAck(c)
      <3>1. tab' = [tab EXCEPT ![c] = Acknowledge(tab[c])]
        BY <2>2 DEF TakeAck
      <3> QED
        BY <1>4, <3>1, TabStays
    <2>3. CASE TakeOp(c)
      <3>1. tab' = [tab EXCEPT ![c] = ApplyServer(tab[c], Head(down[c]).operation)]
        BY <2>3 DEF TakeOp
      <3> DEFINE t == ApplyServer(tab[c], Head(down[c]).operation)
      <3>2. DOMAIN t = TabFields /\ t.room = tab[c].room
        BY <1>4, TabStays
      <3> QED
        BY <3>1, <3>2
    <2>4. CASE TakeError(c)
      <3>1. tab' = tab \/ tab' = [tab EXCEPT ![c] = [tab[c] EXCEPT !.refused = TRUE]]
        BY <2>4 DEF TakeError
      <3> QED
        BY <1>4, <3>1, TabStays
    <2>5. CASE TakeMisfit(c)
      <3> DEFINE t == [tab[c] EXCEPT !.revision = @ + 1]
      <3>1. tab' = [tab EXCEPT ![c] = t]
        BY <2>5 DEF TakeMisfit
      <3>2. DOMAIN t = TabFields /\ t.room = tab[c].room
        BY <1>4 DEF TabFields
      <3> QED
        BY <3>1, <3>2
    <2> QED
      BY <2>1, <2>2, <2>3, <2>4, <2>5 DEF Browser
  <1> QED
    BY <1>2, <1>3, <1>5, <1>6, TalkOf

\* The hub takes a message: it may write to others, who are in the room.
LEMMA HubTalks ==
    ASSUME TabsKept, Reached, NEW c \in Clients, Hub(c)
    PROVE  Talks /\ tab[c].room # 0
  <1>1. up[c] # <<>> /\ tab' = tab /\ up' = [up EXCEPT ![c] = Tail(@)]
    BY DEF Hub, ReceiveOp, RefuseOp, ReceiveSelection, ReceiveSave,
           ReceiveResync, Next1
  <1>2. tab[c].room # 0
    BY <1>1, InRoom
  <1>3. /\ down' = [d \in Clients |-> down'[d]]
        /\ \A d \in Clients : tab[d].room = 0 => down'[d] = down[d]
    BY <1>2 DEF Hub, ReceiveOp, RefuseOp, ReceiveSelection, ReceiveSave,
                ReceiveResync, Sent, Reached, TabsKept
  <1> QED
    BY <1>1, <1>2, <1>3, TalkOf

----------------------------------------------------------------------------
(* The steps, one group after the other.                                   *)

\* Rooms that carry over are kept.
LEMMA RoomsKeptOn ==
    ASSUME RoomsKept, RoomsCarry, registry' \in {registry, 0}, split' = split
    PROVE  RoomsKept'
  <1>1. 0..Len(rooms) \subseteq 0..Len(rooms')
    BY LenProperties DEF RoomsKept, RoomsCarry
  <1> QED
    BY <1>1 DEF RoomsKept, RoomsCarry

\* A clean room that is not marked saved meanwhile stays as it is on disk,
\* or gets dirty.
LEMMA CleanStays ==
    ASSUME RoomsKept, RoomsCarry, CleanIsOnDisk, file' = file,
           foreign' = foreign, split' = split, registry' \in {registry, 0},
           registry # 0 => rooms'[registry].saved = rooms[registry].saved
    PROVE  CleanIsOnDisk'
  <1> SUFFICES ASSUME registry' # 0, ~Dirty(rooms'[registry]), ~foreign, ~split
               PROVE  rooms'[registry].text = file
    BY DEF CleanIsOnDisk, Dirty, Revision
  <1> DEFINE old == rooms[registry]
             new == rooms'[registry]
  <1>1. registry \in DOMAIN rooms /\ registry # 0
    BY LenProperties DEF RoomsKept
  <1>2. WellKept(old) /\ Advances(old, new) /\ new.saved = old.saved
    BY <1>1 DEF RoomsKept, RoomsCarry
  <1>3. Revision(old) \in Nat /\ old.saved \in 0..Revision(old)
    BY <1>2, LenProperties DEF WellKept, Revision
  <1>4. Revision(new) = new.saved
    BY DEF Dirty
  <1> HIDE DEF old, new
  <1>5. Revision(new) = Revision(old) /\ new.text = old.text
    BY <1>2, <1>3, <1>4 DEF Advances
  <1>6. Revision(old) = old.saved
    BY <1>2, <1>4, <1>5
  <1>7. old.text = file
    BY <1>1, <1>6 DEF CleanIsOnDisk, Dirty, old
  <1> QED
    BY <1>5, <1>7 DEF new

\* Messages that change nothing but what is in flight.
LEMMA TalkKeeps ==
    ASSUME CollabInv, Talks, UNCHANGED <<roomVars, diskVars>>
    PROVE  CollabInv' /\ RoomsCarry
  <1>1. /\ RoomsKept /\ TabsKept /\ DiskKept /\ Reached /\ CleanIsOnDisk
        /\ ~split => Gathered /\ OneWriter
    BY DEF CollabInv
  <1>2. /\ rooms' = rooms /\ registry' = registry /\ byRoom' = byRoom
        /\ split' = split /\ file' = file /\ disk' = disk /\ foreign' = foreign
    BY DEF roomVars, diskVars
  <1>3. RoomsCarry
    BY <1>1, <1>2, RoomsStay
  <1>4. RoomsKept'
    BY <1>1, <1>2, <1>3, RoomsKeptOn
  <1>5. TabsKept'
    BY <1>1, <1>3, TabsTalk
  <1>6. DiskKept'
    BY <1>1, <1>2, <1>3, DiskStays
  <1>7. Reached' /\ (~split => Gathered')
    BY <1>1, <1>2, <1>3, GatheredStay, ReachedStay
  <1>8. ~split => OneWriter'
    BY <1>1, <1>2 DEF OneWriter
  <1>9. CleanIsOnDisk'
    BY <1>1, <1>2, <1>3, CleanStays
  <1> QED
    BY <1>2, <1>3, <1>4, <1>5, <1>6, <1>7, <1>8, <1>9 DEF CollabInv

\* A message of somebody in the room that changes the room: an operation
\* makes it a revision older on disk than it is, a caret changes no text.
LEMMA RoomChangedKeeps ==
    ASSUME CollabInv, Talks,
           NEW r \in DOMAIN rooms, NEW e,
           rooms' = [rooms EXCEPT ![r] = e],
           WellKept(e), Advances(rooms[r], e), e.saved = rooms[r].saved,
           Members(e) = Members(rooms[r]),
           UNCHANGED <<registry, byRoom, split, diskVars>>
    PROVE  CollabInv' /\ RoomsCarry
  <1>1. /\ RoomsKept /\ TabsKept /\ DiskKept /\ Reached /\ CleanIsOnDisk
        /\ ~split => Gathered /\ OneWriter
    BY DEF CollabInv
  <1>2. /\ registry' = registry /\ byRoom' = byRoom
        /\ split' = split /\ file' = file /\ disk' = disk /\ foreign' = foreign
    BY DEF diskVars
  <1>3. /\ RoomsCarry
        /\ rooms'[r] = e
        /\ \A q \in DOMAIN rooms : q # r => rooms'[q] = rooms[q]
    BY <1>1, RoomReplaced
  <1>4. RoomsKept'
    BY <1>1, <1>2, <1>3, RoomsKeptOn
  <1>5. TabsKept'
    BY <1>1, <1>3, TabsTalk
  <1>6. DiskKept'
    BY <1>1, <1>2, <1>3, DiskStays
  <1>7. \A q \in DOMAIN rooms : Members(rooms'[q]) = Members(rooms[q])
    BY <1>3
  <1>8. Reached' /\ (~split => Gathered')
    BY <1>1, <1>2, <1>3, <1>7, GatheredStay, ReachedStay
  <1>9. ~split => OneWriter'
    BY <1>1, <1>2 DEF OneWriter
  <1>10. registry # 0 => registry \in DOMAIN rooms
    BY <1>1, LenProperties DEF RoomsKept
  <1>11. registry # 0 => rooms'[registry].saved = rooms[registry].saved
    BY <1>3, <1>10
  <1>12. CleanIsOnDisk'
    BY <1>1, <1>2, <1>3, <1>11, CleanStays
  <1> QED
    BY <1>2, <1>3, <1>4, <1>5, <1>6, <1>8, <1>9, <1>12 DEF CollabInv

\* The hub's messages.
LEMMA HubKeeps ==
    ASSUME CollabInv, NEW c \in Clients, Hub(c)
    PROVE  CollabInv' /\ RoomsCarry
  <1>1. /\ RoomsKept /\ TabsKept /\ DiskKept /\ Reached /\ CleanIsOnDisk
        /\ ~split => Gathered /\ OneWriter
    BY DEF CollabInv
  <1>2. Talks /\ tab[c].room # 0
    BY <1>1, HubTalks
  <1> DEFINE r == tab[c].room
             room == rooms[r]
  <1>3. r \in DOMAIN rooms /\ WellKept(room)
    BY <1>1, <1>2, LenProperties DEF TabsKept, RoomsKept
  <1>4. ~split => (registry # 0 => r = registry)
    BY <1>1, <1>2 DEF Gathered
  <1>5. CASE ReceiveOp(c)
    <2> DEFINE e == Received(room, c, Head(up[c]))
    <2>1. rooms' = [rooms EXCEPT ![r] = e]
      BY <1>5 DEF ReceiveOp, RoomOf
    <2>2. UNCHANGED <<registry, byRoom, split, diskVars>>
      BY <1>5 DEF ReceiveOp
    <2>3. /\ WellKept(e) /\ e.saved = room.saved
          /\ Members(e) = Members(room)
          /\ Revision(e) = Revision(room) + 1
      BY <1>3, ReceivedAdvances
    <2>4. Advances(room, e)
      BY <2>3 DEF Advances
    <2> HIDE DEF e
    <2> QED
      BY <1>2, <1>3, <2>1, <2>2, <2>3, <2>4, RoomChangedKeeps
  <1>6. CASE ReceiveSelection(c)
    <2>1. UNCHANGED <<registry, byRoom, split, diskVars>>
      BY <1>6 DEF ReceiveSelection
    <2>2. CASE rooms' = rooms
      BY <1>2, <2>1, <2>2, TalkKeeps DEF roomVars
    <2>3. CASE rooms' = [rooms EXCEPT ![r] = Placed(room, c, Head(up[c]))]
      <3> DEFINE e == Placed(room, c, Head(up[c]))
      <3>1. PICK x : e = [room EXCEPT !.caret = [@ EXCEPT ![c] = x],
                                      !.blind = @ \ {c}]
        BY DEF Placed
      <3>2. /\ DOMAIN e = RoomFields
            /\ e.text = room.text /\ e.history = room.history
            /\ e.base = room.base /\ e.saved = room.saved
            /\ DOMAIN e.caret = DOMAIN room.caret
        BY <1>3, <3>1 DEF WellKept, RoomFields
      <3>3. /\ WellKept(e) /\ Advances(room, e)
            /\ Members(e) = Members(room)
        BY <1>3, <3>2, SameText DEF Members, WellKept
      <3> HIDE DEF e
      <3>4. rooms' = [rooms EXCEPT ![r] = e]
        BY <2>3 DEF e
      <3> QED
        BY <1>2, <1>3, <2>1, <3>2, <3>3, <3>4, RoomChangedKeeps
    <2> QED
      BY <1>6, <2>2, <2>3 DEF ReceiveSelection
  <1>7. CASE ReceiveSave(c)
    <2> DEFINE w == Write(c, r)
    <2>1. /\ disk' = Append(disk, w) /\ file' = file
          /\ rooms' = rooms /\ registry' = registry /\ byRoom' = byRoom
          /\ split' = split /\ foreign' = foreign
      BY <1>7 DEF ReceiveSave, roomVars
    <2>2. Revision(room) \in Nat
      BY <1>3, LenProperties DEF WellKept, Revision
    <2>3. w.type = "write" /\ w.room = r /\ IsText(w)
      BY <1>3, <2>2 DEF Write, IsText
    <2> HIDE DEF w
    <2>4. DiskKept' /\ (~split => OneWriter')
      BY <1>1, <1>4, <2>1, <2>3, DiskAsked
    <2>5. RoomsCarry
      BY <1>1, <2>1, RoomsStay
    <2>6. RoomsKept' /\ TabsKept' /\ Reached' /\ CleanIsOnDisk'
      BY <1>1, <1>2, <2>1, <2>5, RoomsKeptOn, TabsTalk, ReachedStay, CleanStays
    <2>7. ~split => Gathered'
      BY <1>1, <1>2, <2>1, <2>5, GatheredStay
    <2> QED
      BY <2>1, <2>4, <2>5, <2>6, <2>7 DEF CollabInv
  <1>8. CASE RefuseOp(c) \/ ReceiveResync(c)
    BY <1>2, <1>8, TalkKeeps DEF RefuseOp, ReceiveResync
  <1> QED
    BY <1>5, <1>6, <1>7, <1>8 DEF Hub

\* Steps at the disk that touch no room: a file is asked for, a write is, and
\* a read or a write fails.
LEMMA QueueKeeps ==
    ASSUME CollabInv,
           \/ \E c \in Clients : OpenFile(c)
           \/ UpgradeRejected \/ WriteFails \/ Flush
    PROVE  CollabInv' /\ RoomsCarry
  <1>1. /\ RoomsKept /\ TabsKept /\ DiskKept /\ Reached /\ CleanIsOnDisk
        /\ ~split => Gathered /\ OneWriter
    BY DEF CollabInv
  <1>2. /\ rooms' = rooms /\ registry' = registry /\ byRoom' = byRoom
        /\ split' = split /\ file' = file /\ foreign' = foreign
        /\ tab' = tab /\ up' = up /\ down' = down
    BY DEF OpenFile, UpgradeRejected, WriteFails, Flush, roomVars, tabVars
  <1>3. RoomsCarry
    BY <1>1, <1>2, RoomsStay
  <1>4. Talks
    BY <1>1, <1>2 DEF Talks, TabsKept
  <1>5. RoomsKept' /\ TabsKept' /\ Reached' /\ CleanIsOnDisk'
    BY <1>1, <1>2, <1>3, <1>4, RoomsKeptOn, TabsTalk, ReachedStay, CleanStays
  <1>6. ~split => Gathered'
    BY <1>1, <1>2, <1>3, <1>4, GatheredStay
  <1>7. DiskKept' /\ (~split => OneWriter')
    <2>1. ASSUME NEW c \in Clients, OpenFile(c)
          PROVE  DiskKept' /\ (~split => OneWriter')
      <3> DEFINE w == [type |-> "read", by |-> c]
      <3>1. disk' = Append(disk, w)
        BY <2>1 DEF OpenFile
      <3>2. w.type = "read" /\ w.by \in Clients
        OBVIOUS
      <3> HIDE DEF w
      <3> QED
        BY <1>1, <1>2, <3>1, <3>2, DiskAsked
    <2>2. CASE UpgradeRejected \/ WriteFails
      <3>1. disk # <<>> /\ disk' = Tail(disk)
        BY <2>2 DEF UpgradeRejected, WriteFails
      <3> QED
        BY <1>1, <1>2, <1>3, <3>1, DiskTakesOne
    <2>3. CASE Flush
      <3> DEFINE w == Write(None, registry)
      <3>1. disk' = Append(disk, w) /\ registry # 0
        BY <2>3 DEF Flush, Idle
      <3>2. registry \in DOMAIN rooms /\ WellKept(rooms[registry])
        BY <1>1, <3>1, LenProperties DEF RoomsKept
      <3>3. Revision(rooms[registry]) \in Nat
        BY <3>2, LenProperties DEF WellKept, Revision
      <3>4. w.type = "write" /\ w.room = registry /\ IsText(w)
        BY <3>2, <3>3 DEF Write, IsText
      <3> HIDE DEF w
      <3> QED
        BY <1>1, <1>2, <3>1, <3>4, DiskAsked
    <2> QED
      BY <2>1, <2>2, <2>3
  <1> QED
    BY <1>2, <1>3, <1>5, <1>6, <1>7 DEF CollabInv

\* Others write the file: nothing is claimed of it until the hub does.
LEMMA OutsideKeeps ==
    ASSUME CollabInv, OutsideWrite
    PROVE  CollabInv' /\ RoomsCarry
  <1>1. /\ RoomsKept /\ TabsKept /\ DiskKept /\ Reached
        /\ ~split => Gathered /\ OneWriter
    BY DEF CollabInv
  <1>2. /\ rooms' = rooms /\ registry' = registry /\ byRoom' = byRoom
        /\ split' = split /\ disk' = disk
        /\ tab' = tab /\ up' = up /\ down' = down
    BY DEF OutsideWrite, roomVars, tabVars
  <1>3. CleanIsOnDisk'
    BY DEF OutsideWrite, CleanIsOnDisk
  <1>4. RoomsKept' /\ TabsKept' /\ DiskKept' /\ Reached'
    BY <1>1, <1>2 DEF RoomsKept, TabsKept, DiskKept, IsText, Reached
  <1>5. ~split => Gathered' /\ OneWriter'
    BY <1>1, <1>2 DEF Gathered, OneWriter
  <1>6. RoomsCarry
    BY <1>1, <1>2, RoomsStay
  <1> QED
    BY <1>2, <1>3, <1>4, <1>5, <1>6 DEF CollabInv

\* A clean room that is dropped takes nothing with it.
LEMMA DropKeeps ==
    ASSUME CollabInv, DropClean
    PROVE  CollabInv' /\ RoomsCarry
  <1>1. /\ RoomsKept /\ TabsKept /\ DiskKept /\ Reached /\ CleanIsOnDisk
        /\ ~split => Gathered /\ OneWriter
    BY DEF CollabInv
  <1>2. /\ rooms' = rooms /\ registry' = 0 /\ byRoom' = byRoom
        /\ split' = split /\ file' = file /\ disk' = disk /\ foreign' = foreign
        /\ tab' = tab /\ up' = up /\ down' = down
    BY DEF DropClean, diskVars, tabVars
  <1>3. RoomsCarry
    BY <1>1, <1>2, RoomsStay
  <1>4. Talks
    BY <1>1, <1>2 DEF Talks, TabsKept
  <1>5. RoomsKept' /\ TabsKept' /\ Reached' /\ CleanIsOnDisk' /\ DiskKept'
    BY <1>1, <1>2, <1>3, <1>4, RoomsKeptOn, TabsTalk, ReachedStay, CleanStays,
       DiskStays
  <1>6. (~split => Gathered') /\ OneWriter'
    BY <1>1, <1>2, <1>3, <1>4, GatheredStay DEF OneWriter
  <1> QED
    BY <1>2, <1>3, <1>5, <1>6 DEF CollabInv

\* A write is done.  The room is clean only if it is still at the revision
\* that was written, and then what was written is its text.
LEMMA WrittenKeeps ==
    ASSUME CollabInv, SaveWritten \/ FlushWritten
    PROVE  CollabInv' /\ RoomsCarry
  <1>1. /\ RoomsKept /\ TabsKept /\ DiskKept /\ Reached /\ CleanIsOnDisk
        /\ ~split => Gathered /\ OneWriter
    BY DEF CollabInv
  <1> DEFINE w == Head(disk)
             room == rooms[w.room]
  <1>2. /\ disk # <<>> /\ w.type = "write" /\ disk' = Tail(disk)
        /\ file' = w.content
        /\ byRoom' = byRoom /\ split' = split
        /\ tab' = tab /\ up' = up /\ down' = down
    BY DEF SaveWritten, FlushWritten, tabVars
  <1>3. PICK saved : /\ rooms' = [rooms EXCEPT ![w.room].saved = saved]
                     /\ \/ saved = w.revision /\ registry' = registry
                        \/ saved = Revision(room) /\ registry' = 0
    BY DEF SaveWritten, FlushWritten
  <1>4. IsText(w) /\ (~split => (registry # 0 => w.room = registry))
    <2>1. ASSUME NEW i \in DOMAIN disk, disk[i].type = "write"
          PROVE  /\ IsText(disk[i])
                 /\ ~split => (registry # 0 => disk[i].room = registry)
      BY <1>1, <2>1 DEF DiskKept, OneWriter
    <2>2. 1 \in DOMAIN disk /\ w = disk[1]
      BY <1>1, <1>2, OwnTail DEF DiskKept
    <2> QED
      BY <1>2, <2>1, <2>2
  <1>5. /\ w.room \in DOMAIN rooms /\ WellKept(room)
        /\ w.revision \in 0..Revision(room)
        /\ w.revision = Revision(room) => w.content = room.text
    BY <1>1, <1>4 DEF IsText, RoomsKept
  <1>6. Revision(room) \in Nat
    BY <1>5, LenProperties DEF WellKept, Revision
  <1>7. saved \in 0..Revision(room)
    BY <1>3, <1>5, <1>6
  <1> DEFINE e == [room EXCEPT !.saved = saved]
  <1>8. /\ DOMAIN e = RoomFields /\ e.text = room.text
        /\ e.history = room.history /\ e.base = room.base
        /\ e.saved = saved /\ e.caret = room.caret
    BY <1>5 DEF WellKept, RoomFields
  <1>9. rooms' = [rooms EXCEPT ![w.room] = e]
    BY <1>3
  <1> HIDE DEF e
  <1>10. /\ WellKept(e) /\ Advances(room, e)
         /\ Revision(e) = Revision(room) /\ Members(e) = Members(room)
    BY <1>5, <1>7, <1>8, SameText DEF Members
  <1>11. /\ RoomsCarry
         /\ rooms'[w.room] = e
         /\ \A q \in DOMAIN rooms : q # w.room => rooms'[q] = rooms[q]
    BY <1>1, <1>5, <1>9, <1>10, RoomReplaced
  <1>12. \A q \in DOMAIN rooms : Members(rooms'[q]) = Members(rooms[q])
    BY <1>10, <1>11
  <1>13. registry' \in {registry, 0}
    BY <1>3
  <1>14. Talks
    BY <1>1, <1>2 DEF Talks, TabsKept
  <1>15. /\ RoomsKept' /\ TabsKept' /\ Reached' /\ DiskKept'
         /\ ~split => Gathered' /\ OneWriter'
    BY <1>1, <1>2, <1>11, <1>12, <1>13, <1>14, RoomsKeptOn, TabsTalk,
       GatheredStay, ReachedStay, DiskTakesOne
  <1>16. CleanIsOnDisk'
    <2> SUFFICES ASSUME registry' # 0, ~Dirty(rooms'[registry']), ~split
                 PROVE  rooms'[registry'].text = file'
      BY <1>2 DEF CleanIsOnDisk, Dirty, Revision
    <2>1. registry' = w.room /\ saved = w.revision
      BY <1>3, <1>4
    <2>2. Revision(e) = e.saved
      BY <1>11, <2>1 DEF Dirty
    <2>3. w.content = room.text
      BY <1>5, <1>8, <1>10, <2>1, <2>2
    <2> QED
      BY <1>2, <1>8, <1>11, <2>1, <2>3
  <1> QED
    BY <1>2, <1>11, <1>15, <1>16 DEF CollabInv

\* Somebody leaves: the others are in the room still, and are reached still.
LEMMA ForgetKeeps ==
    ASSUME CollabInv, NEW c \in Clients, Forget(c)
    PROVE  CollabInv' /\ RoomsCarry
  <1>1. /\ RoomsKept /\ TabsKept /\ DiskKept /\ Reached /\ CleanIsOnDisk
        /\ ~split => Gathered /\ OneWriter
    BY DEF CollabInv
  <1> DEFINE r == tab[c].room
             room == rooms[r]
             e == Left(room, c)
  <1>2. /\ r # 0
        /\ rooms' = [rooms EXCEPT ![r] = e]
        /\ byRoom' = IF Members(e) = {} THEN {} ELSE byRoom \ {c}
        /\ registry' \in {registry, 0}
        /\ tab' = [tab EXCEPT ![c] = Away]
        /\ up' = [up EXCEPT ![c] = <<>>]
        /\ down' = [down EXCEPT ![c] = <<>>]
        /\ split' = split /\ file' = file /\ disk' = disk /\ foreign' = foreign
    BY DEF Forget, diskVars
  <1>3. r \in DOMAIN rooms /\ WellKept(room)
    BY <1>1, <1>2, LenProperties DEF TabsKept, RoomsKept
  <1>4. /\ DOMAIN e = RoomFields /\ e.text = room.text
        /\ e.history = room.history /\ e.base = room.base
        /\ e.saved = room.saved
        /\ e.caret = [m \in Members(room) \ {c} |-> room.caret[m]]
    BY <1>3 DEF WellKept, RoomFields, Left
  <1> HIDE DEF e
  <1>5. Members(e) = Members(room) \ {c}
    BY <1>4 DEF Members
  <1>7. WellKept(e) /\ Advances(room, e)
    BY <1>3, <1>4, SameText DEF WellKept
  <1>8. /\ RoomsCarry
        /\ rooms'[r] = e
        /\ \A q \in DOMAIN rooms : q # r => rooms'[q] = rooms[q]
    BY <1>1, <1>2, <1>3, <1>7, RoomReplaced
  <1>9. RoomsKept' /\ DiskKept'
    BY <1>1, <1>2, <1>8, RoomsKeptOn, DiskStays
  <1>10. registry # 0 => registry \in DOMAIN rooms
    BY <1>1, LenProperties DEF RoomsKept
  <1>11. registry # 0 => rooms'[registry].saved = rooms[registry].saved
    BY <1>4, <1>8, <1>10
  <1>12. CleanIsOnDisk'
    BY <1>1, <1>2, <1>8, <1>11, CleanStays
  <1>13. ~split => OneWriter'
    BY <1>1, <1>2 DEF OneWriter
  <1>14. DOMAIN Away = TabFields /\ Away.room = 0 /\ ~Away.live
    BY DEF Away, TabFields
  <1>15. /\ tab' = [d \in Clients |-> tab'[d]]
         /\ tab'[c] = Away /\ up'[c] = <<>> /\ down'[c] = <<>>
         /\ \A d \in Clients \ {c} : tab'[d] = tab[d] /\ up'[d] = up[d]
                                     /\ down'[d] = down[d]
    BY <1>1, <1>2 DEF TabsKept
  <1>16. TabsKept'
    <2>1. 0..Len(rooms) \subseteq 0..Len(rooms') /\ 0 \in 0..Len(rooms')
      BY <1>1, <1>8, LenProperties DEF RoomsKept, RoomsCarry
    <2>2. up' = [d \in Clients |-> up'[d]] /\ down' = [d \in Clients |-> down'[d]]
      BY <1>1, <1>2 DEF TabsKept
    <2>3. ASSUME NEW d \in Clients
          PROVE  /\ DOMAIN tab'[d] = TabFields
                 /\ tab'[d].room \in 0..Len(rooms')
                 /\ tab'[d].room = 0
                      => ~tab'[d].live /\ up'[d] = <<>> /\ down'[d] = <<>>
      BY <1>1, <1>14, <1>15, <2>1 DEF TabsKept
    <2> QED
      BY <1>15, <2>2, <2>3 DEF TabsKept
  <1>17. Reached'
    BY <1>1, <1>2, <1>15 DEF Reached
  <1>18. ASSUME ~split
         PROVE  Gathered'
    <2>0. Gathered
      BY <1>1, <1>18
    <2>1. c \in byRoom
      BY <1>2, <2>0 DEF Gathered
    <2>2. \A d \in byRoom : tab[d].room = r /\ d \in Members(room)
      BY <1>1, <2>0, <2>1 DEF Gathered
    <2>3. byRoom' = byRoom \ {c}
      BY <1>2, <1>5, <2>2
    <2>4. byRoom' = {d \in Clients : tab'[d].room # 0}
      BY <1>1, <2>0, <1>14, <1>15, <2>3 DEF Gathered
    <2>5. ASSUME NEW d \in byRoom'
          PROVE  /\ tab'[d].room = r /\ d \in Members(rooms'[r])
                 /\ registry' # 0 => r = registry'
      <3>1. d \in Clients \ {c} /\ d \in byRoom
        BY <1>1, <2>0, <2>3 DEF Gathered
      <3> QED
        BY <1>1, <2>0, <1>2, <1>5, <1>8, <1>15, <2>2, <3>1 DEF Gathered
    <2> QED
      BY <2>4, <2>5 DEF Gathered
  <1> QED
    BY <1>2, <1>8, <1>9, <1>12, <1>13, <1>16, <1>17, <1>18 DEF CollabInv

\* Whoever joins is in the room and has a welcome under way.
LEMMA JoinTabs ==
    ASSUME TabsKept, RoomsKept, RoomsCarry, NEW c \in Clients,
           NEW r \in DOMAIN rooms', NEW m,
           tab' = [tab EXCEPT ![c] = [Away EXCEPT !.room = r]],
           up' = [up EXCEPT ![c] = <<>>],
           down' = [down EXCEPT ![c] = m]
    PROVE  /\ TabsKept'
           /\ tab'[c].room = r /\ r # 0
           /\ \A d \in Clients \ {c} : tab'[d] = tab[d]
  <1> DEFINE t == [Away EXCEPT !.room = r]
  <1>1. DOMAIN t = TabFields /\ t.room = r
    BY DEF Away, TabFields
  <1>2. r \in 0..Len(rooms') /\ r # 0 /\ 0..Len(rooms) \subseteq 0..Len(rooms')
    BY LenProperties DEF RoomsKept, RoomsCarry
  <1> HIDE DEF t
  <1>3. tab' = [tab EXCEPT ![c] = t]
    BY DEF t
  <1>4. /\ tab' = [d \in Clients |-> tab'[d]]
        /\ up' = [d \in Clients |-> up'[d]]
        /\ down' = [d \in Clients |-> down'[d]]
        /\ tab'[c] = t
        /\ \A d \in Clients \ {c} : tab'[d] = tab[d] /\ up'[d] = up[d]
                                    /\ down'[d] = down[d]
    BY <1>3 DEF TabsKept
  <1>5. ASSUME NEW d \in Clients
        PROVE  /\ DOMAIN tab'[d] = TabFields
               /\ tab'[d].room \in 0..Len(rooms')
               /\ tab'[d].room = 0
                    => ~tab'[d].live /\ up'[d] = <<>> /\ down'[d] = <<>>
    BY <1>1, <1>2, <1>4 DEF TabsKept
  <1> QED
    BY <1>1, <1>2, <1>4, <1>5 DEF TabsKept

\* The room of the registry is joined as it is.
LEMMA OpenRoomKeeps ==
    ASSUME CollabInv, NEW c \in Clients, OpenRoom(c)
    PROVE  CollabInv' /\ RoomsCarry
  <1>1. /\ RoomsKept /\ TabsKept /\ DiskKept /\ Reached /\ CleanIsOnDisk
        /\ ~split => Gathered /\ OneWriter
    BY DEF CollabInv
  <1> DEFINE r == registry
             room == rooms[r]
             caret == WithMember(room.caret, c)
             e == [room EXCEPT !.caret = caret]
  <1>2. /\ r # 0
        /\ rooms' = [rooms EXCEPT ![r] = e]
        /\ registry' = registry
        /\ byRoom' = byRoom \cup {c}
        /\ tab' = [tab EXCEPT ![c] = [Away EXCEPT !.room = r]]
        /\ up' = [up EXCEPT ![c] = <<>>]
        /\ down' = [down EXCEPT ![c] = <<Welcome(room)>>]
        /\ split' = split /\ file' = file /\ disk' = disk /\ foreign' = foreign
    BY DEF OpenRoom, Join, diskVars
  <1>3. r \in DOMAIN rooms /\ WellKept(room)
    BY <1>1, <1>2, LenProperties DEF RoomsKept
  <1>4. DOMAIN caret = {c} \cup Members(room)
    BY DEF WithMember, Members
  <1> HIDE DEF caret
  <1>5. /\ DOMAIN e = RoomFields /\ e.text = room.text
        /\ e.history = room.history /\ e.base = room.base
        /\ e.saved = room.saved /\ e.caret = caret
    BY <1>3 DEF WellKept, RoomFields
  <1>6. Members(e) = {c} \cup Members(room)
    BY <1>4, <1>5 DEF Members
  <1> HIDE DEF e
  <1>7. WellKept(e) /\ Advances(room, e)
    BY <1>3, <1>5, SameText DEF WellKept
  <1>8. /\ RoomsCarry
        /\ rooms'[r] = e
        /\ \A q \in DOMAIN rooms : q # r => rooms'[q] = rooms[q]
    BY <1>1, <1>2, <1>3, <1>7, RoomReplaced
  <1>9. RoomsKept' /\ DiskKept'
    BY <1>1, <1>2, <1>8, RoomsKeptOn, DiskStays
  <1>10. rooms'[registry].saved = rooms[registry].saved
    BY <1>5, <1>8
  <1>11. CleanIsOnDisk'
    BY <1>1, <1>2, <1>8, <1>10, CleanStays
  <1>12. ~split => OneWriter'
    BY <1>1, <1>2 DEF OneWriter
  <1>13. r \in DOMAIN rooms'
    BY <1>3, <1>8 DEF RoomsCarry
  <1>14. /\ TabsKept'
         /\ tab'[c].room = r /\ r # 0
         /\ \A d \in Clients \ {c} : tab'[d] = tab[d]
    BY <1>1, <1>2, <1>8, <1>13, JoinTabs
  <1>15. Reached'
    BY <1>1, <1>2, <1>14 DEF Reached
  <1>16. ASSUME ~split
         PROVE  Gathered'
    <2>0. Gathered
      BY <1>1, <1>16
    <2>1. byRoom' = {d \in Clients : tab'[d].room # 0}
      BY <1>1, <1>2, <1>14, <2>0 DEF Gathered
    <2>2. ASSUME NEW d \in byRoom'
          PROVE  tab'[d].room = r /\ d \in Members(rooms'[r])
      <3>1. CASE d = c
        BY <1>6, <1>8, <1>14, <3>1
      <3>2. CASE d # c
        <4>1. d \in byRoom /\ d \in Clients \ {c}
          BY <1>1, <1>2, <2>0, <3>2 DEF Gathered
        <4>2. tab[d].room = r /\ d \in Members(room)
          BY <1>1, <1>2, <2>0, <4>1 DEF Gathered
        <4> QED
          BY <1>6, <1>8, <1>14, <4>1, <4>2
      <3> QED
        BY <3>1, <3>2
    <2> QED
      BY <1>2, <2>1, <2>2 DEF Gathered
  <1> QED
    BY <1>2, <1>8, <1>9, <1>11, <1>12, <1>14, <1>15, <1>16 DEF CollabInv

\* A room is made of the file that was read.  Unless another is in use, which
\* is the split, nobody else has the file open and nothing is being written.
LEMMA FileReadKeeps ==
    ASSUME CollabInv, FileRead
    PROVE  CollabInv' /\ RoomsCarry
  <1>1. /\ RoomsKept /\ TabsKept /\ DiskKept /\ Reached /\ CleanIsOnDisk
        /\ ~split => Gathered /\ OneWriter
    BY DEF CollabInv
  <1> DEFINE c == Head(disk).by
             r == Len(rooms) + 1
             fresh == NewRoom(file)
             caret == WithMember(fresh.caret, c)
             e == [fresh EXCEPT !.caret = caret]
             rs == Append(rooms, fresh)
  <1>2. /\ disk # <<>> /\ Head(disk).type = "read" /\ disk' = Tail(disk)
        /\ rooms' = [rs EXCEPT ![r].caret = WithMember(@, c)]
        /\ registry' = r
        /\ byRoom' = byRoom \cup {c}
        /\ tab' = [tab EXCEPT ![c] = [Away EXCEPT !.room = r]]
        /\ up' = [up EXCEPT ![c] = <<>>]
        /\ down' = [down EXCEPT ![c] = <<Welcome(rs[r])>>]
        /\ split' = (split \/ InUse) /\ file' = file
    BY DEF FileRead, Join
  <1>3. /\ rs \in Seq(Range(rs))
        /\ Len(rooms) \in Nat
        /\ DOMAIN rooms = 1..Len(rooms)
        /\ Len(rs) = Len(rooms) + 1
        /\ DOMAIN rs = 1..(Len(rooms) + 1)
        /\ rs[r] = fresh
        /\ \A q \in 1..Len(rooms) : rs[q] = rooms[q]
    BY <1>1, OwnAppend DEF RoomsKept
  <1>4. /\ WellKept(fresh) /\ Revision(fresh) = 0 /\ fresh.text = file
    BY NewRoomKept
  <1>5. DOMAIN caret = {c} \cup Members(fresh)
    BY DEF WithMember, Members
  <1> HIDE DEF fresh, rs
  <1>6. rooms' = [rs EXCEPT ![r] = e]
    BY <1>2, <1>3
  <1> HIDE DEF caret
  <1>7. /\ DOMAIN e = RoomFields /\ e.text = file
        /\ e.history = fresh.history /\ e.base = fresh.base
        /\ e.saved = fresh.saved /\ e.caret = caret
    BY <1>4 DEF WellKept, RoomFields
  <1>8. c \in Members(e)
    BY <1>5, <1>7 DEF Members
  <1> HIDE DEF e
  <1>9. WellKept(e)
    BY <1>4, <1>7, SameText DEF WellKept
  <1>10. /\ rooms' \in Seq(Range(rooms'))
         /\ Len(rooms') = r
         /\ DOMAIN rooms' = 1..r
         /\ rooms'[r] = e
         /\ \A q \in 1..Len(rooms) : rooms'[q] = rooms[q]
    <2>1. /\ rooms' = [q \in DOMAIN rs |-> rooms'[q]]
          /\ \A q \in DOMAIN rs : rooms'[q] = IF q = r THEN e ELSE rs[q]
      BY <1>6
    <2>2. /\ rooms' \in Seq(Range(rooms'))
          /\ Len(rooms') = Len(rs)
          /\ DOMAIN rooms' = DOMAIN rs
      BY <1>3, <2>1, OwnShape
    <2> QED
      BY <1>3, <2>1, <2>2
  <1>11. RoomsCarry
    <2>1. ASSUME NEW q \in DOMAIN rooms'
          PROVE  WellKept(rooms'[q])
      <3>1. q = r \/ (q \in 1..Len(rooms) /\ rooms'[q] = rooms[q])
        BY <1>3, <1>10
      <3> QED
        BY <1>1, <1>3, <1>9, <1>10, <3>1 DEF RoomsKept
    <2>2. ASSUME NEW q \in DOMAIN rooms
          PROVE  q \in DOMAIN rooms' /\ Advances(rooms[q], rooms'[q])
      BY <1>3, <1>10 DEF Advances
    <2> QED
      BY <1>3, <1>10, <2>1, <2>2 DEF RoomsCarry
  <1>12. r \in DOMAIN rooms' /\ r \in 0..Len(rooms') /\ r # 0
    BY <1>3, <1>10
  <1>13. /\ DiskKept' /\ c \in Clients
    BY <1>1, <1>2, <1>11, DiskTakesOne
  <1>14. split' \in BOOLEAN
    BY <1>2
  <1>15. RoomsKept'
    BY <1>2, <1>11, <1>12, <1>14 DEF RoomsKept, RoomsCarry
  <1> DEFINE m == <<Welcome(rs[r])>>
  <1>16. down' = [down EXCEPT ![c] = m]
    BY <1>2
  <1> HIDE DEF m, r, c
  <1>17. /\ TabsKept'
         /\ tab'[c].room = r /\ r # 0
         /\ \A d \in Clients \ {c} : tab'[d] = tab[d]
    BY <1>1, <1>2, <1>11, <1>12, <1>13, <1>16, JoinTabs
  <1>18. CleanIsOnDisk'
    BY <1>2, <1>7, <1>10 DEF CleanIsOnDisk
  <1>19. ASSUME ~split'
         PROVE  Gathered' /\ OneWriter'
    <2>1. ~InUse /\ Gathered
      BY <1>1, <1>2, <1>19
    <2>2. byRoom = {}
      <3>1. ASSUME NEW d \in byRoom
            PROVE  FALSE
        <4>1. /\ tab[d].room \in 1..Len(rooms)
              /\ d \in Members(rooms[tab[d].room])
          BY <1>1, <1>3, <2>1 DEF Gathered, TabsKept
        <4> QED
          BY <1>3, <2>1, <4>1 DEF InUse
      <3> QED
        BY <3>1
    <2>3. byRoom' = {c}
      BY <1>2, <2>2
    <2>4. \A d \in Clients \ {c} : tab[d].room = 0
      BY <1>1, <2>1, <2>2 DEF Gathered
    <2>5. byRoom' = {d \in Clients : tab'[d].room # 0}
      BY <1>13, <1>17, <2>3, <2>4
    <2>6. Gathered'
      BY <1>2, <1>8, <1>10, <1>17, <2>3, <2>5 DEF Gathered
    <2>7. \A i \in DOMAIN disk' : disk'[i].type # "write"
      <3>1. \A i \in DOMAIN disk' : i + 1 \in DOMAIN disk /\ disk'[i] = disk[i + 1]
        BY <1>1, <1>2, OwnTail DEF DiskKept
      <3> QED
        BY <2>1, <3>1 DEF InUse
    <2> QED
      BY <2>6, <2>7 DEF OneWriter
  <1>20. Reached'
    BY <1>1, <1>2, <1>13, <1>17 DEF Reached
  <1> QED
    BY <1>11, <1>13, <1>15, <1>17, <1>18, <1>19, <1>20 DEF CollabInv

----------------------------------------------------------------------------
(* The theorems.                                                           *)

\* Nothing is open, and the file is as it was found.
LEMMA InitKept ==
    CollabInit => CollabInv
  <1> SUFFICES ASSUME CollabInit
               PROVE  CollabInv
    OBVIOUS
  <1>1. <<>> \in Seq(Range(<<>>)) /\ Len(<<>>) = 0 /\ DOMAIN <<>> = {}
    BY EmptySeq
  <1>2. DOMAIN Away = TabFields /\ Away.room = 0 /\ ~Away.live
    BY DEF Away, TabFields
  <1>3. RoomsKept
    <2>1. rooms = <<>> /\ registry = 0 /\ split = FALSE
      BY DEF CollabInit
    <2>2. rooms \in Seq(Range(rooms)) /\ DOMAIN rooms = {}
      BY <1>1, <2>1
    <2>3. 0 \in 0..Len(rooms)
      BY <1>1, <2>1
    <2> QED
      BY <2>1, <2>2, <2>3 DEF RoomsKept
  <1>4. TabsKept
    BY <1>1, <1>2 DEF CollabInit, TabsKept
  <1>5. DiskKept
    BY <1>1 DEF CollabInit, DiskKept
  <1>6. Gathered /\ Reached
    BY <1>2 DEF CollabInit, Gathered, Reached
  <1>7. OneWriter /\ CleanIsOnDisk
    BY DEF CollabInit, OneWriter, CleanIsOnDisk
  <1> QED
    BY <1>3, <1>4, <1>5, <1>6, <1>7 DEF CollabInv

\* Every step keeps the invariant and carries the rooms on.
LEMMA StepKeeps ==
    ASSUME CollabInv, [CollabNext]_collabVars
    PROVE  CollabInv' /\ RoomsCarry
  <1>1. CASE UNCHANGED collabVars
    <2>1. /\ rooms' = rooms /\ registry' = registry /\ byRoom' = byRoom
          /\ split' = split /\ file' = file /\ disk' = disk /\ foreign' = foreign
          /\ tab' = tab /\ up' = up /\ down' = down
      BY <1>1 DEF collabVars, roomVars, diskVars, tabVars
    <2>2. CollabInv'
      BY <2>1 DEF CollabInv, RoomsKept, TabsKept, DiskKept, IsText, Gathered,
                  Reached, OneWriter, CleanIsOnDisk
    <2> QED
      BY <2>1, <2>2, RoomsStay DEF CollabInv
  <1>2. CASE CollabNext
    <2>1. TabsKept
      BY DEF CollabInv
    <2>2. ASSUME NEW c \in Clients, OpenRoom(c)
          PROVE  CollabInv' /\ RoomsCarry
      BY <2>1, <2>2, OpenRoomKeeps
    <2>3. ASSUME NEW c \in Clients, Forget(c)
          PROVE  CollabInv' /\ RoomsCarry
      BY <2>1, <2>3, ForgetKeeps
    <2>4. ASSUME NEW c \in Clients, Edit(c) \/ Report(c) \/ AskSave(c)
          PROVE  CollabInv' /\ RoomsCarry
      <3>1. UNCHANGED <<roomVars, diskVars>>
        BY <2>4 DEF Edit, Report, AskSave
      <3> QED
        BY <2>1, <2>4, <3>1, PersonTalks, TalkKeeps
    <2>5. ASSUME NEW c \in Clients, Browser(c)
          PROVE  CollabInv' /\ RoomsCarry
      <3>1. UNCHANGED <<roomVars, diskVars>>
        BY <2>5 DEF Browser, TakeWelcome, TakeAck, TakeOp, TakeMisfit, TakeError
      <3> QED
        BY <2>1, <2>5, <3>1, BrowserTalks, TalkKeeps
    <2>6. ASSUME NEW c \in Clients, Hub(c)
          PROVE  CollabInv' /\ RoomsCarry
      BY <2>1, <2>6, HubKeeps
    <2>7. CASE \/ \E c \in Clients : OpenFile(c)
               \/ UpgradeRejected \/ WriteFails \/ Flush
      BY <2>1, <2>7, QueueKeeps
    <2>8. CASE FileRead
      BY <2>1, <2>8, FileReadKeeps
    <2>9. CASE SaveWritten \/ FlushWritten
      BY <2>1, <2>9, WrittenKeeps
    <2>10. CASE DropClean
      BY <2>1, <2>10, DropKeeps
    <2>11. CASE OutsideWrite
      BY <2>11, OutsideKeeps
    <2> QED
      BY <1>2, <2>2, <2>3, <2>4, <2>5, <2>6, <2>7, <2>8, <2>9, <2>10, <2>11
         DEF CollabNext, Disk
  <1> QED
    BY <1>1, <1>2

\* Rooms, tabs and writes are kept as the code keeps them, and everybody with
\* the file open is in one room and reached by its broadcasts.
THEOREM CollabInvariant == CollabSpec => []CollabInv
  <1>1. CollabInit => CollabInv
    BY InitKept
  <1>2. CollabInv /\ [CollabNext]_collabVars => CollabInv'
    BY StepKeeps
  <1> QED
    BY <1>1, <1>2, PTL DEF CollabSpec

\* markSaved and the idle sweep: a room the registry holds and takes for
\* saved is the file, whatever was typed while it was being written.
THEOREM CleanIsOnDiskHolds == CollabSpec => []CleanIsOnDisk
  <1>1. CollabInv => CleanIsOnDisk
    BY DEF CollabInv
  <1> QED
    BY <1>1, CollabInvariant, PTL

\* CollabDocument.revision: a room's text changes only as its revision rises
\* by one, and no room is lost, so two tabs at one revision of a room have
\* been sent the same text.
RevisionNamesText ==
    \A r \in DOMAIN rooms :
        r \in DOMAIN rooms' /\ Advances(rooms[r], rooms'[r])

\* Every step of the editor keeps the texts and the revisions together.
THEOREM RevisionNamesTextHolds ==
    CollabSpec => [][RevisionNamesText]_collabVars
  <1>1. CollabInv /\ [CollabNext]_collabVars => [RevisionNamesText]_collabVars
    BY StepKeeps DEF RoomsCarry, RevisionNamesText
  <1> QED
    BY <1>1, CollabInvariant, PTL DEF CollabSpec
=============================================================================
