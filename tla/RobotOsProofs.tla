--------------------------- MODULE RobotOsProofs ---------------------------
(***************************************************************************)
(* Proofs about RobotOs, for any relay, segment, zones and setups: a       *)
(* carrier hands over once it has travelled its segment, and a vetoed tick *)
(* moves nothing, however the processes of the carriers interleave and die.*)
(*                                                                         *)
(* The live state is replaced with no compare.  The inductive invariant    *)
(* says why that loses nothing: a carrier that started has a packet from   *)
(* every carrier ahead of it, a packet ends its owner's ticks, so at most  *)
(* one carrier is due, and only a due one has a draft.                     *)
(***************************************************************************)
EXTENDS RobotOs, TLAPS

SlotFields == {"phase", "command", "cursor", "ticks", "hold", "target", "soft", "mutex", "packet"}
LiveFields == {"version", "seq", "coord", "bus", "spike", "slots"}

(* The shape of a live state.                                              *)
Shaped(s) ==
    /\ DOMAIN s = LiveFields /\ DOMAIN s.slots = Carriers /\ s.seq \in Nat
    /\ s.coord \in {"init", "relay", "wait_handoff"} /\ s.bus \in {"none", "plain", "iron"}
    /\ \A d \in Carriers : DOMAIN s.slots[d] = SlotFields

(* What a slot says of its carrier's way through its segment.              *)
OnWay(slot, c) ==
    /\ slot.ticks \in 0..Ticks /\ slot.phase \in Phases
    /\ slot.cursor = From(c) + Stride * slot.ticks
    /\ Due(slot) => slot.ticks < Ticks
    /\ slot.phase = "idle" => slot.command = "idle" /\ slot.ticks = 0
    /\ slot.packet # None =>
          /\ slot.ticks = Ticks /\ slot.packet.cursor = From(c) + Stride * Ticks
          /\ slot.phase = "handoff_pending" /\ slot.command = "idle"

(* Two states that agree on every carrier but c.                           *)
Apart(s, t, c) == \A d \in Carriers : d # c => t.slots[d] = s.slots[d]

(* A tick that ends in a hold has moved nothing.                           *)
HeldStill(s, t, c) ==
    t.seq > s.seq /\ t.slots[c].hold =>
        /\ t.slots[c].cursor = s.slots[c].cursor
        /\ t.slots[c].ticks = s.slots[c].ticks
        /\ t.slots[c].phase = "traverse"

(* A tick of c took s to t.                                                *)
Ticked(s, t, c) ==
    /\ Shaped(t) /\ Apart(s, t, c) /\ HeldStill(s, t, c)
    /\ OnWay(t.slots[c], c) /\ t.slots[c].phase # "idle"
    /\ t.slots[c].ticks \in {s.slots[c].ticks, s.slots[c].ticks + 1}
    /\ t.seq \in {s.seq, s.seq + 1}

Running(c, step) == proc[c] # None /\ proc[c].step = step

Ways == Shaped(live) /\ \A c \in Carriers : OnWay(live.slots[c], c)
Ordered ==
    \A c, d \in Carriers :
        Place(d) < Place(c) /\ live.slots[c].phase # "idle" => live.slots[d].packet # None
Drafts ==
    /\ DOMAIN proc = Carriers
    /\ \A c \in Carriers :
          /\ Running(c, "read") => Due(live.slots[c])
          /\ Running(c, "write") => Due(live.slots[c]) /\ Ticked(live, proc[c].draft, c)

Inv == Ways /\ Ordered /\ Drafts

-----------------------------------------------------------------------------
LEMMA Places ==
  ASSUME RobotOsAssumption, NEW c \in Carriers
  PROVE  /\ Place(c) \in 1..Len(Relay) /\ Relay[Place(c)] = c /\ Len(Relay) \in Nat
         /\ From(c) \in Int /\ Ticks \in Nat \ {0} /\ Stride \in Nat
         /\ Place(c) > 1 => /\ Relay[Place(c) - 1] \in Carriers
                            /\ Place(Relay[Place(c) - 1]) = Place(c) - 1
         /\ \A d \in Carriers : Place(d) = Place(c) => d = c
<1>1. \A d \in Carriers : Place(d) \in DOMAIN Relay /\ Relay[Place(d)] = d
  BY DEF Carriers, Place
<1>2. DOMAIN Relay = 1..Len(Relay) /\ Len(Relay) \in Nat
  BY DEF RobotOsAssumption
<1>3. \A i, j \in DOMAIN Relay : Relay[i] = Relay[j] => i = j
  BY DEF RobotOsAssumption
<1>4. Ticks \in Nat \ {0} /\ Stride \in Nat
  BY DEF RobotOsAssumption
<1>5. Place(c) \in Nat
  BY <1>1, <1>2
<1>6. From(c) \in Int
  BY <1>4, <1>5 DEF From
<1>7. ASSUME Place(c) > 1
      PROVE  /\ Relay[Place(c) - 1] \in Carriers
             /\ Place(Relay[Place(c) - 1]) = Place(c) - 1
  <2>1. Place(c) - 1 \in DOMAIN Relay
    BY <1>1, <1>2, <1>7
  <2>2. Relay[Place(c) - 1] \in Carriers
    BY <2>1 DEF Carriers
  <2>3. QED
    BY <1>1, <1>3, <2>1, <2>2
<1>8. QED
  BY <1>1, <1>2, <1>4, <1>6, <1>7

(* The governance before a tick: the phase, and on a veto the hold; the    *)
(* carrier has not moved.                                                  *)
LEMMA EnteredFacts ==
  ASSUME NEW s, Shaped(s), NEW c \in Carriers
  PROVE  LET e == Entered(s, c)  slot == e.state.slots[c]  was == s.slots[c] IN
         /\ Shaped(e.state) /\ Apart(s, e.state, c)
         /\ slot.phase = "traverse" /\ slot.command = was.command /\ slot.ticks = was.ticks
         /\ slot.cursor = was.cursor /\ slot.packet = was.packet
         /\ e.state.seq \in {s.seq, s.seq + 1}
         /\ \/ e.state.seq = s.seq
            \/ slot.hold => e.skip
<1> DEFINE p == [s EXCEPT !.slots[c].phase = "traverse"]
<1>1. /\ Shaped(p) /\ Apart(s, p, c) /\ p.seq = s.seq
      /\ p.slots[c].phase = "traverse" /\ p.slots[c].command = s.slots[c].command
      /\ p.slots[c].ticks = s.slots[c].ticks /\ p.slots[c].cursor = s.slots[c].cursor
      /\ p.slots[c].packet = s.slots[c].packet
  BY DEF Shaped, Apart, SlotFields, LiveFields
<1> HIDE DEF p
<1>2. CASE ~setup.governed
  <2>1. Entered(s, c) = [state |-> p, skip |-> FALSE]
    BY <1>2 DEF Entered, Govern, p
  <2>2. QED
    BY <1>1, <2>1
<1>3. CASE setup.governed
  <2> DEFINE proposal == Propose(p, c)
             aimed == [p.slots[c] EXCEPT !.target = proposal.target]
             veto == setup.blown \/ Vetoed(aimed, proposal)
             g == [p EXCEPT !.seq = @ + 1, !.slots[c] = [aimed EXCEPT !.hold = veto]]
  <2>1. Entered(s, c) = [state |-> g, skip |-> veto]
    BY <1>3 DEF Entered, Govern, Governed, p
  <2> HIDE DEF proposal, veto
  <2>2. /\ Shaped(g) /\ Apart(p, g, c) /\ g.slots[c].hold = veto /\ g.seq = s.seq + 1
        /\ g.slots[c].phase = p.slots[c].phase /\ g.slots[c].command = p.slots[c].command
        /\ g.slots[c].ticks = p.slots[c].ticks /\ g.slots[c].cursor = p.slots[c].cursor
        /\ g.slots[c].packet = p.slots[c].packet
    BY <1>1 DEF Shaped, Apart, SlotFields, LiveFields
  <2>3. Apart(s, g, c)
    BY <1>1, <2>2 DEF Apart
  <2> HIDE DEF g
  <2>4. QED
    BY <1>1, <2>1, <2>2, <2>3
<1>4. QED
  BY <1>2, <1>3

LEMMA OneMore ==
  ASSUME NEW f \in Int, NEW n \in Nat, NEW t \in Nat
  PROVE  f + n * t + n = f + n * (t + 1)
OBVIOUS

(* The step itself, the ground and the wear: one tick more and one stride  *)
(* further.                                                                *)
LEMMA SteppedFacts ==
  ASSUME RobotOsAssumption, NEW e, Shaped(e), NEW c \in Carriers,
         e.slots[c].ticks \in Nat, e.slots[c].phase = "traverse",
         e.slots[c].cursor = From(c) + Stride * e.slots[c].ticks
  PROVE  LET m == WearTick(AfterTick([e EXCEPT !.slots[c] = Advance(Mutex(@), c)], c))
             slot == m.slots[c]  was == e.slots[c] IN
         /\ Shaped(m) /\ Apart(e, m, c) /\ m.seq = e.seq
         /\ slot.ticks = was.ticks + 1 /\ slot.cursor = From(c) + Stride * slot.ticks
         /\ slot.packet = was.packet /\ slot.hold = was.hold
         /\ slot.phase \in {"traverse", "recover"}
<1> DEFINE a == [e EXCEPT !.slots[c] = Advance(Mutex(@), c)]
           b == AfterTick(a, c)
<1>1. /\ Mutex(e.slots[c]).ticks = e.slots[c].ticks
      /\ Mutex(e.slots[c]).cursor = e.slots[c].cursor
      /\ Mutex(e.slots[c]).packet = e.slots[c].packet
      /\ Mutex(e.slots[c]).hold = e.slots[c].hold
      /\ Mutex(e.slots[c]).phase = "traverse"
      /\ DOMAIN Mutex(e.slots[c]) = SlotFields
  BY DEF Mutex, Shaped, SlotFields
<1> DEFINE m == Mutex(e.slots[c])
<1>2. /\ DOMAIN Advance(m, c) = SlotFields
      /\ Advance(m, c).ticks = m.ticks + 1
      /\ Advance(m, c).cursor = From(c) + Stride * (m.ticks + 1)
      /\ Advance(m, c).packet = m.packet /\ Advance(m, c).hold = m.hold
      /\ Advance(m, c).phase = m.phase
  <2>1. From(c) \in Int /\ Stride \in Nat
    BY Places
  <2>2. From(c) + Stride * m.ticks + Stride = From(c) + Stride * (m.ticks + 1)
    BY <1>1, <2>1, OneMore
  <2> HIDE DEF m
  <2>3. DOMAIN m = SlotFields /\ m.cursor = From(c) + Stride * m.ticks
    BY <1>1 DEF m
  <2>4. m.cursor + Stride = From(c) + Stride * (m.ticks + 1)
    BY <2>2, <2>3
  <2>5. QED
    BY <2>3, <2>4 DEF Advance, SlotFields
<1>3. /\ Shaped(a) /\ Apart(e, a, c) /\ a.seq = e.seq
      /\ a.slots[c] = Advance(m, c)
  BY <1>2 DEF Shaped, Apart, LiveFields
<1> HIDE DEF a, m
<1>4. /\ Shaped(b) /\ Apart(a, b, c) /\ b.seq = a.seq
      /\ b.slots[c].ticks = a.slots[c].ticks /\ b.slots[c].cursor = a.slots[c].cursor
      /\ b.slots[c].packet = a.slots[c].packet /\ b.slots[c].hold = a.slots[c].hold
      /\ b.slots[c].phase \in {a.slots[c].phase, "recover"}
  <2> DEFINE soft == c \in setup.soft
             over == a.spike
             slot == [a.slots[c] EXCEPT !.soft = soft,
                        !.phase = IF soft \/ over THEN "recover" ELSE @,
                        !.command = IF soft \/ over THEN "recover" ELSE @]
             n == [a EXCEPT !.slots[c] = slot, !.spike = FALSE]
  <2>1. b = IF setup.governed THEN n ELSE a
    BY DEF AfterTick, b
  <2>2. /\ DOMAIN slot = SlotFields
        /\ slot.ticks = a.slots[c].ticks /\ slot.cursor = a.slots[c].cursor
        /\ slot.packet = a.slots[c].packet /\ slot.hold = a.slots[c].hold
        /\ slot.phase \in {a.slots[c].phase, "recover"}
    BY <1>3 DEF Shaped, SlotFields
  <2> HIDE DEF slot
  <2>3. Shaped(n) /\ Apart(a, n, c) /\ n.seq = a.seq /\ n.slots[c] = slot
    BY <1>3, <2>2 DEF Shaped, Apart, LiveFields
  <2>4. CASE setup.governed
    BY <2>1, <2>2, <2>3, <2>4
  <2>5. CASE ~setup.governed
    <3>1. b = a
      BY <2>1, <2>5
    <3>2. QED
      BY <1>3, <3>1 DEF Apart
  <2>6. QED
    BY <2>4, <2>5
<1> HIDE DEF b
<1>5. Shaped(WearTick(b)) /\ WearTick(b).slots = b.slots /\ WearTick(b).seq = b.seq
  BY <1>4 DEF WearTick, Shaped, LiveFields
<1>6. Apart(e, WearTick(b), c)
  BY <1>3, <1>4, <1>5 DEF Apart
<1>7. /\ b.slots[c].ticks = e.slots[c].ticks + 1
      /\ b.slots[c].cursor = From(c) + Stride * b.slots[c].ticks
      /\ b.slots[c].packet = e.slots[c].packet /\ b.slots[c].hold = e.slots[c].hold
      /\ b.slots[c].phase \in {"traverse", "recover"}
  BY <1>1, <1>2, <1>3, <1>4 DEF m
<1>8. WearTick(b) = WearTick(AfterTick([e EXCEPT !.slots[c] = Advance(Mutex(@), c)], c))
  BY DEF a, b
<1>9. b.seq = e.seq
  BY <1>3, <1>4
<1>10. QED
  BY <1>5, <1>6, <1>7, <1>8, <1>9

(* The end of a segment: the packet says where the next one starts.        *)
LEMMA SegmentFacts ==
  ASSUME RobotOsAssumption, NEW m, Shaped(m), NEW c \in Carriers,
         m.slots[c].ticks \in 1..Ticks, m.slots[c].phase \in {"traverse", "recover"},
         m.slots[c].cursor = From(c) + Stride * m.slots[c].ticks,
         m.slots[c].packet = None
  PROVE  LET n == EndSegment(m, c) IN
         /\ Shaped(n) /\ Apart(m, n, c) /\ n.seq = m.seq
         /\ n.slots[c].hold = m.slots[c].hold /\ n.slots[c].phase # "idle"
         /\ n.slots[c].ticks = m.slots[c].ticks
         /\ OnWay(n.slots[c], c)
<1>0. Ticks \in Nat \ {0}
  BY Places
<1>1. CASE m.slots[c].ticks < Ticks
  <2>1. EndSegment(m, c) = m
    BY <1>1 DEF EndSegment
  <2>2. QED
    BY <1>0, <1>1, <2>1 DEF Apart, OnWay, Phases
<1>2. CASE ~(m.slots[c].ticks < Ticks)
  <2>0. m.slots[c].ticks = Ticks
    BY <1>0, <1>2
  <2>1. EndSegment(m, c) = HandOver(m, c)
    BY <1>2 DEF EndSegment
  <2>2. CASE Terminal(c)
    <3> DEFINE n == [m EXCEPT !.slots[c].phase = "done", !.slots[c].command = "idle"]
    <3>1. EndSegment(m, c) = n
      BY <2>1, <2>2 DEF HandOver
    <3>2. /\ Shaped(n) /\ Apart(m, n, c) /\ n.seq = m.seq
          /\ n.slots[c].hold = m.slots[c].hold /\ n.slots[c].phase = "done"
          /\ n.slots[c].command = "idle" /\ n.slots[c].ticks = m.slots[c].ticks
          /\ n.slots[c].cursor = m.slots[c].cursor /\ n.slots[c].packet = None
      BY DEF Shaped, Apart, LiveFields, SlotFields
    <3> HIDE DEF n
    <3>3. OnWay(n.slots[c], c)
      BY <1>0, <2>0, <3>2 DEF OnWay, Due, Phases
    <3>4. QED
      BY <3>1, <3>2, <3>3
  <2>3. CASE ~Terminal(c)
    <3> DEFINE pack == [to |-> Relay[Place(c) + 1], cursor |-> m.slots[c].cursor]
               n == [m EXCEPT !.slots[c].phase = "handoff_pending", !.slots[c].command = "idle",
                              !.slots[c].packet = pack, !.coord = "wait_handoff"]
    <3>1. EndSegment(m, c) = n
      BY <2>1, <2>3 DEF HandOver
    <3>2. pack.cursor = m.slots[c].cursor
      OBVIOUS
    <3> HIDE DEF pack
    <3>3. /\ Shaped(n) /\ Apart(m, n, c) /\ n.seq = m.seq
          /\ n.slots[c].hold = m.slots[c].hold /\ n.slots[c].phase = "handoff_pending"
          /\ n.slots[c].command = "idle" /\ n.slots[c].ticks = m.slots[c].ticks
          /\ n.slots[c].cursor = m.slots[c].cursor /\ n.slots[c].packet = pack
      BY DEF Shaped, Apart, LiveFields, SlotFields
    <3> HIDE DEF n
    <3>4. OnWay(n.slots[c], c)
      BY <1>0, <2>0, <3>2, <3>3 DEF OnWay, Due, Phases
    <3>5. QED
      BY <3>1, <3>3, <3>4
  <2>4. QED
    BY <2>2, <2>3
<1>3. QED
  BY <1>1, <1>2

(* A tick of a carrier that is due.                                        *)
LEMMA TickFacts ==
  ASSUME RobotOsAssumption, NEW s, Shaped(s), NEW c \in Carriers,
         OnWay(s.slots[c], c), Due(s.slots[c])
  PROVE  Ticked(s, TickState(s, c), c)
<1> DEFINE was == s.slots[c]
           e == Entered(s, c)
           slot == e.state.slots[c]
<1>1. /\ Ticks \in Nat \ {0} /\ was.ticks \in 0..Ticks /\ was.ticks < Ticks
      /\ was.cursor = From(c) + Stride * was.ticks
      /\ was.packet = None /\ was.phase # "idle"
  BY Places DEF OnWay, Due
<1>2. /\ Shaped(e.state) /\ Apart(s, e.state, c)
      /\ slot.phase = "traverse" /\ slot.command = was.command /\ slot.ticks = was.ticks
      /\ slot.cursor = was.cursor /\ slot.packet = was.packet
      /\ e.state.seq \in {s.seq, s.seq + 1}
      /\ \/ e.state.seq = s.seq
         \/ slot.hold => e.skip
  BY EnteredFacts
<1> HIDE DEF e
<1>3. CASE Starved(was, c)
  <2> DEFINE t == [s EXCEPT !.slots[c].phase = "recover", !.slots[c].command = "recover"]
  <2>1. TickState(s, c) = t
    BY <1>3 DEF TickState
  <2>2. /\ Shaped(t) /\ Apart(s, t, c) /\ t.seq = s.seq
        /\ t.slots[c].phase = "recover" /\ t.slots[c].command = "recover"
        /\ t.slots[c].ticks = was.ticks /\ t.slots[c].cursor = was.cursor
        /\ t.slots[c].packet = was.packet
    BY DEF Shaped, Apart, LiveFields, SlotFields
  <2> HIDE DEF t
  <2>3. OnWay(t.slots[c], c)
    BY <1>1, <2>2 DEF OnWay, Due, Phases
  <2>4. HeldStill(s, t, c)
    BY <2>2 DEF HeldStill, Shaped
  <2>5. QED
    BY <2>1, <2>2, <2>3, <2>4 DEF Ticked
<1>4. CASE ~Starved(was, c) /\ e.skip
  <2> DEFINE t == [e.state EXCEPT !.slots[c] = Mutex(@)]
  <2>1. TickState(s, c) = t
    BY <1>4 DEF TickState, e
  <2>2. /\ DOMAIN Mutex(slot) = SlotFields
        /\ Mutex(slot).phase = slot.phase /\ Mutex(slot).command = slot.command
        /\ Mutex(slot).ticks = slot.ticks /\ Mutex(slot).cursor = slot.cursor
        /\ Mutex(slot).packet = slot.packet
    BY <1>2 DEF Mutex, Shaped, SlotFields
  <2>3. /\ Shaped(t) /\ Apart(e.state, t, c) /\ t.slots[c] = Mutex(slot) /\ t.seq = e.state.seq
    BY <1>2, <2>2 DEF Shaped, Apart, LiveFields
  <2> HIDE DEF t
  <2>4. Apart(s, t, c)
    BY <1>2, <2>3 DEF Apart
  <2>5. OnWay(t.slots[c], c)
    BY <1>1, <1>2, <2>2, <2>3 DEF OnWay, Due, Phases
  <2>6. HeldStill(s, t, c)
    BY <1>2, <2>2, <2>3 DEF HeldStill
  <2>7. QED
    BY <1>2, <2>1, <2>2, <2>3, <2>4, <2>5, <2>6 DEF Ticked
<1>5. CASE ~Starved(was, c) /\ ~e.skip
  <2> DEFINE m == WearTick(AfterTick([e.state EXCEPT !.slots[c] = Advance(Mutex(@), c)], c))
             t == EndSegment(m, c)
  <2>1. TickState(s, c) = t
    BY <1>5 DEF TickState, Moved, e
  <2>2. /\ Shaped(m) /\ Apart(e.state, m, c) /\ m.seq = e.state.seq
        /\ m.slots[c].ticks = slot.ticks + 1
        /\ m.slots[c].cursor = From(c) + Stride * m.slots[c].ticks
        /\ m.slots[c].packet = slot.packet /\ m.slots[c].hold = slot.hold
        /\ m.slots[c].phase \in {"traverse", "recover"}
    <3>1. /\ slot.ticks \in Nat /\ slot.phase = "traverse"
          /\ slot.cursor = From(c) + Stride * slot.ticks
      BY <1>1, <1>2
    <3> HIDE DEF slot, m
    <3>2. QED
      BY <1>2, <3>1, SteppedFacts DEF slot, m
  <2> HIDE DEF m
  <2>3. m.slots[c].ticks \in 1..Ticks /\ m.slots[c].packet = None
    BY <1>1, <1>2, <2>2
  <2>4. /\ Shaped(t) /\ Apart(m, t, c) /\ t.seq = m.seq
        /\ t.slots[c].hold = m.slots[c].hold /\ t.slots[c].phase # "idle"
        /\ t.slots[c].ticks = m.slots[c].ticks
        /\ OnWay(t.slots[c], c)
    BY <2>2, <2>3, SegmentFacts
  <2> HIDE DEF t
  <2>5. Apart(s, t, c)
    BY <1>2, <2>2, <2>4 DEF Apart
  <2>6. HeldStill(s, t, c)
    BY <1>2, <1>5, <2>2, <2>4 DEF HeldStill, Shaped
  <2>7. QED
    BY <1>2, <2>1, <2>2, <2>4, <2>5, <2>6 DEF Ticked
<1>6. QED
  BY <1>3, <1>4, <1>5

-----------------------------------------------------------------------------
(* While a carrier is due, no carrier ahead of it is, and none behind it   *)
(* has started.                                                            *)
LEMMA OneDue ==
  ASSUME RobotOsAssumption, Inv, NEW c \in Carriers, NEW d \in Carriers, d # c,
         Due(live.slots[c])
  PROVE  ~Due(live.slots[d]) /\ live.slots[c].packet = None /\ live.slots[c].phase # "idle"
<1>1. live.slots[c].packet = None /\ live.slots[c].phase # "idle"
  BY DEF Inv, Ways, OnWay, Due
<1>2. Place(c) # Place(d) /\ Place(c) \in Nat /\ Place(d) \in Nat
  BY Places
<1>3. CASE Place(c) < Place(d)
  <2>1. live.slots[d].phase = "idle"
    BY <1>1, <1>3 DEF Inv, Ordered
  <2>2. QED
    BY <1>1, <2>1 DEF Inv, Ways, OnWay, Due
<1>4. CASE Place(d) < Place(c)
  <2>1. live.slots[d].packet # None
    BY <1>1, <1>4 DEF Inv, Ordered
  <2>2. QED
    BY <1>1, <2>1 DEF Inv, Ways, OnWay, Due
<1>5. QED
  BY <1>2, <1>3, <1>4

LEMMA InvInit == ASSUME RobotOsAssumption, Init PROVE Inv
<1>0. setup.bus \in {"none", "plain"}
  BY DEF Init, RobotOsAssumption, Setup
<1>1. /\ DOMAIN live = LiveFields /\ DOMAIN live.slots = Carriers /\ live.seq = 0
      /\ live.version = 0 /\ live.coord = "init" /\ live.bus = setup.bus
      /\ \A c \in Carriers :
           /\ DOMAIN live.slots[c] = SlotFields
           /\ live.slots[c].phase = "idle" /\ live.slots[c].command = "idle"
           /\ live.slots[c].ticks = 0 /\ live.slots[c].cursor = From(c)
           /\ live.slots[c].packet = None
  BY DEF Init, Slot, LiveFields, SlotFields
<1>2. Ways
  <2>1. Shaped(live)
    BY <1>0, <1>1 DEF Shaped
  <2>2. ASSUME NEW c \in Carriers PROVE OnWay(live.slots[c], c)
    <3>1. Ticks \in Nat \ {0} /\ Stride * 0 = 0 /\ From(c) + 0 = From(c)
      BY Places
    <3>2. QED
      BY <1>1, <3>1 DEF OnWay, Due, Phases
  <2>3. QED
    BY <2>1, <2>2 DEF Ways
<1>3. Ordered
  BY <1>1 DEF Ordered
<1>4. Drafts
  BY DEF Init, Drafts, Running
<1>5. QED
  BY <1>2, <1>3, <1>4 DEF Inv

(* Whoever runs between its look and its write is due.                     *)
LEMMA DraftKept ==
  ASSUME Drafts, NEW k \in Carriers, proc' = [proc EXCEPT ![k] = proc'[k]],
         live'.slots = live.slots, live'.seq = live.seq,
         Running(k, "read")' => Due(live.slots[k]),
         Running(k, "write")' => Due(live.slots[k]) /\ Ticked(live, proc'[k].draft, k)
  PROVE  Drafts'
<1>1. DOMAIN proc' = Carriers /\ \A c \in Carriers : c # k => proc'[c] = proc[c]
  BY DEF Drafts
<1>2. ASSUME NEW c \in Carriers
      PROVE  /\ Running(c, "read")' => Due(live.slots[c])
             /\ Running(c, "write")' => Due(live.slots[c]) /\ Ticked(live, proc'[c].draft, c)
  BY <1>1 DEF Drafts, Running
<1>3. \A c \in Carriers : \A t : Ticked(live, t, c) => Ticked(live', t, c)
  BY DEF Ticked, Apart, HeldStill
<1>4. QED
  BY <1>1, <1>2, <1>3 DEF Drafts

(* A step that changes one process only.                                   *)
LEMMA ProcInv ==
  ASSUME Inv, NEW k \in Carriers, proc' = [proc EXCEPT ![k] = proc'[k]], live' = live,
         Running(k, "read")' => Due(live.slots[k]),
         Running(k, "write")' => Due(live.slots[k]) /\ Ticked(live, proc'[k].draft, k)
  PROVE  Inv'
<1>1. Drafts'
  BY DraftKept DEF Inv
<1>2. QED
  BY <1>1 DEF Inv, Ways, Ordered

LEMMA LookInv ==
  ASSUME Inv, NEW c \in Carriers, Launch(c) \/ Look(c) \/ Refused(c)
  PROVE  Inv'
<1>1. CASE Launch(c)
  <2>1. proc'[c] = [step |-> "look"] /\ live' = live
    BY <1>1 DEF Launch, Inv, Drafts
  <2>2. ~Running(c, "read")' /\ ~Running(c, "write")'
    BY <2>1 DEF Running
  <2>3. QED
    BY <1>1, <2>1, <2>2, ProcInv DEF Launch
<1>2. CASE Look(c)
  <2>1. proc'[c] = [step |-> "read"] /\ live' = live /\ Due(live.slots[c])
    BY <1>2 DEF Look, Inv, Drafts
  <2>2. ~Running(c, "write")'
    BY <2>1 DEF Running
  <2>3. QED
    BY <1>2, <2>1, <2>2, ProcInv DEF Look
<1>3. CASE Refused(c)
  <2>1. proc'[c] = [step |-> "read"] /\ live' = live /\ Due(live.slots[c])
    BY <1>3 DEF Refused, Inv, Drafts, Running
  <2>2. ~Running(c, "write")'
    BY <2>1 DEF Running
  <2>3. QED
    BY <1>3, <2>1, <2>2, ProcInv DEF Refused
<1>4. QED
  BY <1>1, <1>2, <1>3

LEMMA ReadInv == ASSUME RobotOsAssumption, Inv, NEW c \in Carriers, Read(c) PROVE Inv'
<1> DEFINE r == [step |-> "write", draft |-> TickState(live, c), base |-> live.version]
<1>1. proc'[c] = r /\ proc' = [proc EXCEPT ![c] = r] /\ live' = live
  BY DEF Read, Inv, Drafts
<1>2. Due(live.slots[c])
  BY DEF Read, Inv, Drafts, Running
<1>3. Ticked(live, TickState(live, c), c)
  BY <1>2, TickFacts DEF Inv, Ways
<1>4. ~Running(c, "read")' /\ proc'[c].draft = TickState(live, c)
  BY <1>1 DEF Running
<1>5. QED
  BY <1>1, <1>2, <1>3, <1>4, ProcInv

LEMMA ExitInv ==
  ASSUME Inv, NEW c \in Carriers, Raise(c) \/ Return(c) \/ Kill(c)
  PROVE  Inv'
<1>1. proc' = [proc EXCEPT ![c] = None] /\ live' = live
  BY DEF Raise, Return, Kill
<1>2. proc'[c] = None
  BY <1>1 DEF Inv, Drafts
<1>3. ~Running(c, "read")' /\ ~Running(c, "write")'
  BY <1>2 DEF Running
<1>4. QED
  BY <1>1, <1>2, <1>3, ProcInv

LEMMA InjectInv == ASSUME Inv, Inject PROVE Inv'
<1>1. proc' = proc /\ Shaped(live') /\ live'.slots = live.slots /\ live'.seq = live.seq
  BY DEF Inject, Inv, Ways, Shaped, LiveFields
<1>2. \A c \in Carriers : \A t : Ticked(live, t, c) => Ticked(live', t, c)
  BY <1>1 DEF Ticked, Apart, HeldStill
<1>3. QED
  BY <1>1, <1>2 DEF Inv, Ways, Ordered, Drafts, Running

(* A carrier is armed while nobody is due: the one ahead of it has handed  *)
(* over, and so has everyone ahead of that one.                            *)
LEMMA ArmInv == ASSUME RobotOsAssumption, Inv, NEW c \in Carriers, Arm(c) PROVE Inv'
<1>1. /\ Shaped(live') /\ Apart(live, live', c) /\ proc' = proc
      /\ live'.slots[c].phase = "armed" /\ live'.slots[c].command = "traverse"
      /\ live'.slots[c].ticks = live.slots[c].ticks
      /\ live'.slots[c].cursor = live.slots[c].cursor
      /\ live'.slots[c].packet = live.slots[c].packet
  BY DEF Arm, Inv, Ways, Shaped, Apart, LiveFields, SlotFields
<1>2. live.slots[c].phase = "idle" /\ live.slots[c].command = "idle" /\ live.slots[c].ticks = 0
      /\ live.slots[c].packet = None
  BY DEF Arm, Inv, Ways, OnWay
<1>3. ASSUME NEW d \in Carriers, Place(d) < Place(c)
      PROVE  live.slots[d].packet # None
  <2> DEFINE r == Relay[Place(c) - 1]
  <2>1. Place(c) > 1 /\ Place(c) \in Nat /\ Place(d) \in Nat
    BY <1>3, Places
  <2>2. r \in Carriers /\ Place(r) = Place(c) - 1
    BY <2>1, Places
  <2>3. live.slots[r].packet # None
    BY <2>1 DEF Arm
  <2> HIDE DEF r
  <2>4. live.slots[r].phase # "idle"
    BY <2>2, <2>3 DEF Inv, Ways, OnWay
  <2>5. CASE d = r
    BY <2>3, <2>5
  <2>6. CASE d # r
    <3>1. Place(d) # Place(r)
      BY <2>2, <2>6, Places
    <3>2. Place(d) < Place(r)
      BY <1>3, <2>1, <2>2, <3>1
    <3>3. QED
      BY <2>2, <2>4, <3>2 DEF Inv, Ordered
  <2>7. QED
    BY <2>5, <2>6
<1>4. ASSUME NEW d \in Carriers PROVE ~Due(live.slots[d])
  <2>1. CASE d = c
    BY <1>2, <2>1 DEF Due
  <2>2. CASE Place(d) < Place(c)
    BY <1>3, <2>2 DEF Inv, Ways, OnWay, Due
  <2>3. CASE Place(c) < Place(d)
    <3>1. live.slots[d].phase = "idle"
      BY <1>2, <2>3 DEF Inv, Ordered
    <3>2. QED
      BY <3>1 DEF Inv, Ways, OnWay, Due
  <2>4. Place(c) \in Nat /\ Place(d) \in Nat /\ (Place(d) = Place(c) => d = c)
    BY Places
  <2>5. QED
    BY <2>1, <2>2, <2>3, <2>4
<1>5. Ways'
  <2>1. OnWay(live'.slots[c], c)
    <3>1. Ticks \in Nat \ {0} /\ OnWay(live.slots[c], c)
      BY Places DEF Inv, Ways
    <3>2. QED
      BY <1>1, <1>2, <3>1 DEF OnWay, Phases
  <2>2. \A d \in Carriers : d # c => OnWay(live'.slots[d], d)
    BY <1>1 DEF Inv, Ways, Apart
  <2>3. QED
    BY <1>1, <2>1, <2>2 DEF Ways
<1>6. Ordered'
  <2>1. \A d \in Carriers : live'.slots[d].packet = live.slots[d].packet
    BY <1>1 DEF Apart
  <2>2. \A d \in Carriers : d # c => live'.slots[d].phase = live.slots[d].phase
    BY <1>1 DEF Apart
  <2>3. QED
    BY <1>3, <2>1, <2>2 DEF Inv, Ordered
<1>7. Drafts'
  BY <1>1, <1>4 DEF Inv, Drafts, Running
<1>8. QED
  BY <1>5, <1>6, <1>7 DEF Inv

(* What a write leaves in the file.                                        *)
LEMMA WriteFacts ==
  ASSUME Inv, NEW c \in Carriers, Write(c)
  PROVE  /\ Due(live.slots[c]) /\ Shaped(live') /\ Apart(live, live', c)
         /\ HeldStill(live, live', c) /\ OnWay(live'.slots[c], c)
         /\ live'.slots[c].phase # "idle"
         /\ live'.slots[c].ticks \in {live.slots[c].ticks, live.slots[c].ticks + 1}
         /\ proc' = [proc EXCEPT ![c] = [step |-> "look"]]
<1>1. Due(live.slots[c]) /\ Ticked(live, proc[c].draft, c)
  BY DEF Write, Inv, Drafts, Running
<1> DEFINE t == proc[c].draft
<1>2. live' = [t EXCEPT !.version = proc[c].base + 1]
  BY DEF Write
<1>3. Ticked(live, t, c)
  BY <1>1
<1> HIDE DEF t
<1>4. Shaped(live') /\ live'.slots = t.slots /\ live'.seq = t.seq
  BY <1>2, <1>3 DEF Ticked, Shaped, LiveFields
<1>5. QED
  BY <1>1, <1>3, <1>4 DEF Write, Ticked, Apart, HeldStill

LEMMA WriteInv == ASSUME RobotOsAssumption, Inv, NEW c \in Carriers, Write(c) PROVE Inv'
<1>1. /\ Due(live.slots[c]) /\ Shaped(live') /\ Apart(live, live', c)
      /\ OnWay(live'.slots[c], c) /\ live'.slots[c].phase # "idle"
      /\ proc' = [proc EXCEPT ![c] = [step |-> "look"]]
  BY WriteFacts
<1>2. live.slots[c].packet = None /\ live.slots[c].phase # "idle"
  BY <1>1 DEF Inv, Ways, OnWay, Due
<1>3. \A d \in Carriers : d # c => ~Due(live.slots[d])
  BY <1>1, OneDue
<1>4. Ways'
  BY <1>1 DEF Inv, Ways, Apart
<1>5. Ordered'
  <2>1. SUFFICES ASSUME NEW a \in Carriers, NEW d \in Carriers,
                        Place(d) < Place(a), live'.slots[a].phase # "idle"
                 PROVE  live'.slots[d].packet # None
    BY DEF Ordered
  <2>2. live.slots[a].phase # "idle"
    BY <1>1, <1>2, <2>1 DEF Apart
  <2>3. live.slots[d].packet # None
    BY <2>1, <2>2 DEF Inv, Ordered
  <2>4. d # c
    BY <1>2, <2>3
  <2>5. QED
    BY <1>1, <2>3, <2>4 DEF Apart
<1>6. Drafts'
  <2>1. /\ DOMAIN proc' = Carriers /\ proc'[c] = [step |-> "look"]
        /\ \A d \in Carriers : d # c => proc'[d] = proc[d]
    BY <1>1 DEF Inv, Drafts
  <2>2. ASSUME NEW d \in Carriers PROVE ~Running(d, "read")' /\ ~Running(d, "write")'
    <3>1. CASE d = c
      BY <2>1, <3>1 DEF Running
    <3>2. CASE d # c
      BY <1>3, <2>1, <3>2 DEF Inv, Drafts, Running
    <3>3. QED
      BY <3>1, <3>2
  <2>3. QED
    BY <2>1, <2>2 DEF Drafts
<1>7. QED
  BY <1>4, <1>5, <1>6 DEF Inv

LEMMA InvStep == ASSUME RobotOsAssumption, Inv, [Next]_vars PROVE Inv'
<1>1. CASE Inject
  BY <1>1, InjectInv
<1>2. ASSUME NEW c \in Carriers,
             \/ Launch(c) \/ Arm(c) \/ Look(c) \/ Read(c) \/ Raise(c)
             \/ Write(c) \/ Refused(c) \/ Return(c) \/ Kill(c)
      PROVE  Inv'
  BY <1>2, LookInv, ArmInv, ReadInv, ExitInv, WriteInv
<1>3. CASE UNCHANGED vars
  BY <1>3 DEF vars, Inv, Ways, Ordered, Drafts, Running
<1>4. QED
  BY <1>1, <1>2, <1>3 DEF Next

-----------------------------------------------------------------------------
(* The versions: a draft is written one past the version it was read at,   *)
(* whatever was injected since, and counts one action more at most.        *)
Counted ==
    /\ setup \in Setups /\ exits \in 0..MaxExits
    /\ live.version \in 0..MaxVersion /\ live.seq <= live.version
    /\ \A c \in Carriers : proc[c] # None => proc[c].step \in {"look", "read", "write"}
    /\ \A c \in Carriers : Running(c, "write") =>
          /\ proc[c].base \in Nat /\ proc[c].base <= live.version
          /\ proc[c].draft.seq <= proc[c].base + 1

LEMMA CountedInit == ASSUME RobotOsAssumption, Init PROVE Counted
<1>1. live.version = 0 /\ live.seq = 0 /\ \A c \in Carriers : proc[c] = None
  BY DEF Init
<1>2. setup \in Setups /\ exits = 0 /\ MaxVersion \in Nat /\ MaxExits \in Nat
  BY DEF Init, RobotOsAssumption
<1>3. QED
  BY <1>1, <1>2 DEF Counted, Running

(* A step that leaves the live state alone and changes one process.        *)
LEMMA CountedProc ==
  ASSUME RobotOsAssumption, Inv, Counted, NEW c \in Carriers, NEW p,
         proc' = [proc EXCEPT ![c] = p], live' = live, setup' = setup,
         exits' \in 0..MaxExits,
         p # None => p.step \in {"look", "read", "write"},
         p # None /\ p.step = "write" => /\ p.base \in Nat /\ p.base <= live.version
                                        /\ p.draft.seq <= p.base + 1
  PROVE  Counted'
<1>1. proc'[c] = p /\ \A d \in Carriers : d # c => proc'[d] = proc[d]
  BY DEF Inv, Drafts
<1>2. \A d \in Carriers : Running(d, "write")' =>
          /\ proc'[d].base \in Nat /\ proc'[d].base <= live.version
          /\ proc'[d].draft.seq <= proc'[d].base + 1
  BY <1>1 DEF Counted, Running
<1>3. \A d \in Carriers : proc'[d] # None => proc'[d].step \in {"look", "read", "write"}
  BY <1>1 DEF Counted
<1>4. QED
  BY <1>2, <1>3 DEF Counted

LEMMA CountedRead ==
  ASSUME RobotOsAssumption, Inv, Counted, NEW c \in Carriers, Read(c)
  PROVE  Counted'
<1> DEFINE p == [step |-> "write", draft |-> TickState(live, c), base |-> live.version]
<1>1. proc' = [proc EXCEPT ![c] = p] /\ UNCHANGED <<live, setup, exits>>
  BY DEF Read
<1>2. Due(live.slots[c])
  BY DEF Read, Inv, Drafts, Running
<1>3. Ticked(live, TickState(live, c), c) /\ live.seq \in Nat
  BY <1>2, TickFacts DEF Inv, Ways, Shaped
<1>4. p.draft = TickState(live, c) /\ p.base = live.version /\ p.step = "write"
  OBVIOUS
<1>5. live.version \in Nat /\ live.seq <= live.version
  BY DEF Counted
<1>6. p.draft.seq <= p.base + 1
  BY <1>3, <1>4, <1>5 DEF Ticked
<1> HIDE DEF p
<1>7. exits' \in 0..MaxExits
  BY <1>1 DEF Counted
<1>8. /\ p.step \in {"look", "read", "write"} /\ p.base \in Nat /\ p.base <= live.version
      /\ live' = live /\ setup' = setup
  BY <1>1, <1>4, <1>5
<1>9. QED
  BY <1>1, <1>6, <1>7, <1>8, CountedProc

LEMMA CountedWrite ==
  ASSUME RobotOsAssumption, Inv, Counted, NEW c \in Carriers, Write(c)
  PROVE  Counted'
<1>1. /\ Due(live.slots[c]) /\ proc' = [proc EXCEPT ![c] = [step |-> "look"]]
      /\ Ticked(live, proc[c].draft, c)
  BY WriteFacts DEF Write, Inv, Drafts, Running
<1>2. /\ proc[c].base \in Nat /\ proc[c].base <= live.version
      /\ proc[c].draft.seq <= proc[c].base + 1 /\ live.version < MaxVersion
      /\ MaxVersion \in Nat /\ live.version \in Nat
  BY DEF Write, Counted, Running, RobotOsAssumption
<1> DEFINE t == proc[c].draft
           b == proc[c].base
<1>3. live' = [t EXCEPT !.version = b + 1]
  BY DEF Write
<1>4. DOMAIN t = LiveFields
  BY <1>1 DEF Ticked, Shaped
<1>5. b \in Nat /\ b <= live.version /\ t.seq <= b + 1
  BY <1>2
<1> HIDE DEF t, b
<1>6. live'.version = b + 1 /\ live'.seq = t.seq
  BY <1>3, <1>4 DEF LiveFields
<1>7. live'.version \in 0..MaxVersion /\ live'.seq <= live'.version
  BY <1>2, <1>5, <1>6
<1>8. proc'[c] = [step |-> "look"] /\ \A d \in Carriers : d # c => proc'[d] = proc[d]
  BY <1>1 DEF Inv, Drafts
<1>9. ASSUME NEW d \in Carriers
      PROVE  ~Running(d, "write")' /\ (proc'[d] # None => proc'[d].step \in {"look", "read", "write"})
  <2>1. CASE d = c
    BY <1>8, <2>1 DEF Running
  <2>2. CASE d # c
    <3>1. ~Due(live.slots[d])
      BY <1>1, <2>2, OneDue
    <3>2. QED
      BY <1>8, <2>2, <3>1 DEF Inv, Drafts, Running, Counted
  <2>3. QED
    BY <2>1, <2>2
<1>10. setup' = setup /\ exits' = exits
  BY DEF Write
<1>11. QED
  BY <1>7, <1>9, <1>10 DEF Counted

(* The coordinator and the event write one version on.                     *)
LEMMA CountedOn ==
  ASSUME RobotOsAssumption, Inv, Counted, Inject \/ \E c \in Carriers : Arm(c)
  PROVE  Counted'
<1>1. /\ live'.version = live.version + 1 /\ live'.seq = live.seq
      /\ live.version < MaxVersion /\ UNCHANGED <<setup, proc, exits>>
  BY DEF Inject, Arm, Inv, Ways, Shaped, LiveFields
<1>2. MaxVersion \in Nat /\ live.version \in Nat /\ live.seq \in Nat
  BY DEF RobotOsAssumption, Counted, Inv, Ways, Shaped
<1>3. live'.version \in 0..MaxVersion /\ live'.seq <= live'.version
  BY <1>1, <1>2 DEF Counted
<1>4. \A b \in Nat : b <= live.version => b <= live'.version
  BY <1>1, <1>2
<1>5. QED
  BY <1>1, <1>3, <1>4 DEF Counted, Running

LEMMA CountedStep ==
  ASSUME RobotOsAssumption, Inv, Counted, [Next]_vars
  PROVE  Counted'
<1>1. ASSUME NEW c \in Carriers,
             Launch(c) \/ Look(c) \/ Refused(c) \/ Raise(c) \/ Return(c) \/ Kill(c)
      PROVE  Counted'
  <2>1. exits \in 0..MaxExits /\ MaxExits \in Nat
    BY DEF Counted, RobotOsAssumption
  <2>2. live' = live /\ setup' = setup /\ exits' \in 0..MaxExits
    BY <1>1, <2>1 DEF Launch, Look, Refused, Raise, Return, Kill
  <2>3. \/ proc' = [proc EXCEPT ![c] = [step |-> "look"]]
        \/ proc' = [proc EXCEPT ![c] = [step |-> "read"]]
        \/ proc' = [proc EXCEPT ![c] = None]
    BY <1>1 DEF Launch, Look, Refused, Raise, Return, Kill
  <2>4. [step |-> "look"].step = "look" /\ [step |-> "read"].step = "read"
    OBVIOUS
  <2>5. QED
    BY <2>2, <2>3, <2>4, CountedProc
<1>2. ASSUME NEW c \in Carriers, Read(c) \/ Write(c)
      PROVE  Counted'
  BY <1>2, CountedRead, CountedWrite
<1>3. CASE UNCHANGED vars
  BY <1>3 DEF vars, Counted, Running
<1>4. QED
  BY <1>1, <1>2, <1>3, CountedOn DEF Next

LEMMA Stretch ==
  ASSUME NEW n \in Nat, NEW a \in Nat, NEW b \in Nat, a <= b
  PROVE  n * a \in Nat /\ n * a <= n * b
<1>1. n * b = n * a + n * (b - a) /\ b - a \in Nat
  OBVIOUS
<1>2. n * a \in Nat /\ n * (b - a) \in Nat
  BY <1>1
<1>3. QED
  BY <1>1, <1>2

(* Every variable stays in its domain, for any relay and setups: no write  *)
(* takes the live state beyond its versions, and a cursor stays inside its *)
(* carrier's segment.                                                      *)
THEOREM FleetTypes == RobotOsAssumption => (Spec => []TypeOK)
<1> SUFFICES ASSUME RobotOsAssumption PROVE Spec => []TypeOK
  OBVIOUS
<1>1. Init => Inv /\ Counted
  BY InvInit, CountedInit
<1>2. Inv /\ Counted /\ [Next]_vars => (Inv /\ Counted)'
  BY InvStep, CountedStep
<1>3. Inv /\ Counted => TypeOK
  <2> SUFFICES ASSUME Inv, Counted PROVE TypeOK
    OBVIOUS
  <2>1. live.seq \in 0..MaxVersion /\ live.version \in 0..MaxVersion
    BY DEF Counted, Inv, Ways, Shaped, RobotOsAssumption
  <2>2. ASSUME NEW c \in Carriers
        PROVE  /\ live.slots[c].phase \in Phases /\ live.slots[c].ticks \in 0..Ticks
               /\ live.slots[c].cursor \in From(c)..(From(c) + Stride * Ticks)
    <3>1. /\ live.slots[c].phase \in Phases /\ live.slots[c].ticks \in 0..Ticks
          /\ live.slots[c].cursor = From(c) + Stride * live.slots[c].ticks
      BY DEF Inv, Ways, OnWay
    <3>2. From(c) \in Int /\ Stride \in Nat /\ Ticks \in Nat
      BY Places
    <3>3. /\ Stride * live.slots[c].ticks \in Nat
          /\ Stride * live.slots[c].ticks <= Stride * Ticks
      BY <3>1, <3>2, Stretch
    <3>4. Stride * Ticks \in Nat
      BY <3>2
    <3>5. QED
      BY <3>1, <3>2, <3>3, <3>4
  <2>3. live.coord \in {"init", "relay", "wait_handoff"} /\ live.bus \in {"none", "plain", "iron"}
    BY DEF Inv, Ways, Shaped
  <2>4. QED
    BY <2>1, <2>2, <2>3 DEF TypeOK, Counted
<1>4. QED
  BY <1>1, <1>2, <1>3, PTL DEF Spec

-----------------------------------------------------------------------------
(* However carriers tick, raise, are killed and launched again over the    *)
(* one live file: a packet is the end of a segment that was travelled      *)
(* whole, and nobody moves before the carrier ahead handed over            *)
(* (robot_os_kernel_v1.py, fleet_live_state_v1.py).                        *)
THEOREM HandoffIsEarned == RobotOsAssumption => (Spec => []HandoffEarned)
<1> SUFFICES ASSUME RobotOsAssumption PROVE Spec => []HandoffEarned
  OBVIOUS
<1>1. Init => Inv
  BY InvInit
<1>2. Inv /\ [Next]_vars => Inv'
  BY InvStep
<1>3. Inv => HandoffEarned
  <2> SUFFICES ASSUME Inv, NEW c \in Carriers
               PROVE  LET slot == live.slots[c] IN
                 /\ slot.packet # None =>
                       /\ slot.ticks = Ticks
                       /\ slot.packet.cursor = From(c) + Stride * Ticks
                       /\ slot.phase = "handoff_pending" /\ ~Due(slot)
                 /\ slot.ticks > 0 /\ Place(c) > 1 =>
                       live.slots[Relay[Place(c) - 1]].packet # None
    BY DEF HandoffEarned
  <2>1. OnWay(live.slots[c], c)
    BY DEF Inv, Ways
  <2>2. ASSUME live.slots[c].ticks > 0, Place(c) > 1
        PROVE  live.slots[Relay[Place(c) - 1]].packet # None
    <3>1. /\ Relay[Place(c) - 1] \in Carriers /\ Place(c) \in Nat
          /\ Place(Relay[Place(c) - 1]) = Place(c) - 1
      BY <2>2, Places
    <3>2. live.slots[c].phase # "idle"
      BY <2>1, <2>2 DEF OnWay
    <3>3. Place(Relay[Place(c) - 1]) < Place(c)
      BY <3>1
    <3>4. QED
      BY <3>1, <3>2, <3>3 DEF Inv, Ordered
  <2>3. QED
    BY <2>1, <2>2 DEF OnWay, Due
<1>4. QED
  BY <1>1, <1>2, <1>3, PTL DEF Spec

(* A vetoed tick moves nothing, also when the file was read long before it *)
(* is replaced (governed_actuation_v1: "Veto BEFORE cursor advance").      *)
THEOREM VetoIsHeld == RobotOsAssumption => (Spec => VetoHolds)
<1> SUFFICES ASSUME RobotOsAssumption PROVE Spec => VetoHolds
  OBVIOUS
<1> DEFINE Held == \A c \in Carriers :
      live.seq' > live.seq /\ live.slots[c].hold' /\ proc'[c] # proc[c] =>
          /\ live.slots[c].cursor' = live.slots[c].cursor
          /\ live.slots[c].ticks' = live.slots[c].ticks
          /\ live.slots[c].phase' = "traverse"
<1>1. Init => Inv
  BY InvInit
<1>2. Inv /\ [Next]_vars => Inv'
  BY InvStep
<1>3. Inv /\ [Next]_vars => [Held]_vars
  <2> SUFFICES ASSUME Inv, [Next]_vars, NEW c \in Carriers,
                      live.seq' > live.seq, live.slots[c].hold', proc'[c] # proc[c]
               PROVE  /\ live.slots[c].cursor' = live.slots[c].cursor
                      /\ live.slots[c].ticks' = live.slots[c].ticks
                      /\ live.slots[c].phase' = "traverse"
    OBVIOUS
  <2>1. live.seq \in Nat /\ DOMAIN live = LiveFields
    BY DEF Inv, Ways, Shaped
  <2>2. live' # live
    BY <2>1
  <2>3. PICK k \in Carriers : Write(k)
    <3>1. ~Inject /\ \A d \in Carriers : ~Arm(d)
      <4>1. ASSUME Inject \/ \E d \in Carriers : Arm(d) PROVE live'.seq = live.seq
        BY <2>1, <4>1 DEF Inject, Arm, LiveFields
      <4>2. QED
        BY <2>1, <4>1
    <3>2. ~(UNCHANGED vars)
      BY <2>2 DEF vars
    <3>3. \A d \in Carriers :
            ~(Launch(d) \/ Look(d) \/ Read(d) \/ Refused(d) \/ Raise(d) \/ Return(d) \/ Kill(d))
      BY <2>2 DEF Launch, Look, Read, Refused, Raise, Return, Kill
    <3>4. QED
      BY <3>1, <3>2, <3>3 DEF Next
  <2>4. HeldStill(live, live', k) /\ proc' = [proc EXCEPT ![k] = [step |-> "look"]]
    BY <2>3, WriteFacts
  <2>5. k = c
    BY <2>4 DEF Inv, Drafts
  <2>6. QED
    BY <2>4, <2>5 DEF HeldStill
<1>4. QED
  BY <1>1, <1>2, <1>3, PTL DEF Spec, VetoHolds

(* A draft that was refused and made again counts its tick once, and no    *)
(* process undoes what another wrote, though update_state of               *)
(* fleet_live_state_v1.py neither locks nor compares: while a draft is in  *)
(* hand nobody else has one.                                               *)
THEOREM NoTickTwice == RobotOsAssumption => (Spec => TicksOnce)
<1> SUFFICES ASSUME RobotOsAssumption PROVE Spec => TicksOnce
  OBVIOUS
<1> DEFINE Once == \A c \in Carriers :
      LET counted == live.slots[c].ticks' - live.slots[c].ticks IN
      /\ counted \in {0, 1}
      /\ live.slots[c].cursor' - live.slots[c].cursor = Stride * counted
      /\ live.slots[c]' # live.slots[c] =>
            \A d \in Carriers \ {c} : live.slots[d]' = live.slots[d]
<1>1. Init => Inv
  BY InvInit
<1>2. Inv /\ [Next]_vars => Inv'
  BY InvStep
<1>3. ASSUME Inv, [Next]_vars PROVE Once
  <2>1. Inv'
    BY <1>2, <1>3
  <2>2. \A c \in Carriers : OnWay(live.slots[c], c) /\ OnWay(live'.slots[c], c)
    BY <1>3, <2>1 DEF Inv, Ways
  <2>3. PICK k \in Carriers :
          /\ Apart(live, live', k)
          /\ live'.slots[k].ticks \in {live.slots[k].ticks, live.slots[k].ticks + 1}
    <3>1. CASE \E c \in Carriers : Write(c)
      BY <1>3, <3>1, WriteFacts
    <3>2. CASE \E c \in Carriers : Arm(c)
      BY <1>3, <3>2 DEF Arm, Inv, Ways, Shaped, Apart, LiveFields, SlotFields
    <3>3. CASE Inject \/ live' = live
      <4>1. live'.slots = live.slots
        BY <1>3, <3>3 DEF Inject, Inv, Ways, Shaped, LiveFields
      <4>2. Carriers # {}
        BY DEF Carriers, RobotOsAssumption
      <4>3. QED
        BY <4>1, <4>2 DEF Apart
    <3>4. (\E c \in Carriers : Write(c) \/ Arm(c)) \/ Inject \/ live' = live
      BY <1>3 DEF Next, vars, Launch, Look, Read, Refused, Raise, Return, Kill
    <3>5. QED
      BY <3>1, <3>2, <3>3, <3>4
  <2>4. ASSUME NEW c \in Carriers
        PROVE  LET counted == live'.slots[c].ticks - live.slots[c].ticks IN
               /\ counted \in {0, 1}
               /\ live'.slots[c].cursor - live.slots[c].cursor = Stride * counted
               /\ live'.slots[c] # live.slots[c] =>
                     \A d \in Carriers \ {c} : live'.slots[d] = live.slots[d]
    <3> DEFINE a == live.slots[c].ticks  b == live'.slots[c].ticks
    <3>1. b \in {a, a + 1} /\ (c # k => live'.slots[c] = live.slots[c])
      BY <2>3 DEF Apart
    <3>2. /\ a \in Nat /\ From(c) \in Int /\ Stride \in Nat
          /\ live.slots[c].cursor = From(c) + Stride * a
          /\ live'.slots[c].cursor = From(c) + Stride * b
      BY <2>2, Places DEF OnWay
    <3> HIDE DEF a, b
    <3>3. b - a \in {0, 1} /\ Stride * b - Stride * a = Stride * (b - a)
      BY <3>1, <3>2
    <3>4. live'.slots[c].cursor - live.slots[c].cursor = Stride * (b - a)
      BY <3>1, <3>2, <3>3
    <3>5. c = k => \A d \in Carriers \ {c} : live'.slots[d] = live.slots[d]
      BY <2>3 DEF Apart
    <3>6. QED
      BY <3>1, <3>3, <3>4, <3>5 DEF a, b
  <2>5. QED
    BY <2>4
<1>4. Inv /\ [Next]_vars => [Once]_vars
  BY <1>3
<1>5. QED
  BY <1>1, <1>2, <1>4, PTL DEF Spec, TicksOnce

=============================================================================
