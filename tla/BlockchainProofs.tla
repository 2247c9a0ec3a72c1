-------------------------- MODULE BlockchainProofs --------------------------
(***************************************************************************)
(* The inductive invariant of the block store, for every value of the      *)
(* constants, and the safety theorems that follow from it.                 *)
(***************************************************************************)
EXTENDS BlockchainLemmas

-----------------------------------------------------------------------------
(***************************************************************************)
(* The rest of the invariant, and how the two parts make up IInv while the *)
(* node runs.                                                              *)
(***************************************************************************)
SwOK == sw \in Switches /\ SwitchOK

DiskOK ==
  /\ disk.cache.saved \in BOOLEAN
  /\ disk.cache.tail \in Blocks
  /\ DOMAIN disk.cache.map \subseteq Blocks \cup Txs
  /\ disk.cache.spent \subseteq UNION {KeyImagesOf[t] : t \in Txs}
  /\ disk.pool \subseteq Txs
  /\ CacheCoversChain

AltsOK == m_alternative_chains \subseteq Blocks \ {Genesis}

LEMMA IInvParts ==
  ASSUME IInv, running
  PROVE  /\ ChainOK /\ SwOK /\ AltsOK /\ DiskOK
         /\ DOMAIN m_points \subseteq Nat
         /\ restarts \in 0 .. MaxRestarts
BY DEF IInv, TypeOK, ChainOK, SwOK, AltsOK, DiskOK, Covers, IndexCoversChain

LEMMA IInvFromParts ==
  ASSUME IInv, running, UNCHANGED <<disk, running, restarts>>,
         ChainOK', SwOK', AltsOK', DOMAIN m_points' \subseteq Nat
  PROVE  IInv'
<1>1. TypeOK'
  BY DEF IInv, TypeOK, ChainOK, SwOK, AltsOK
<1>2. CacheCoversChain'
  BY DEF IInv, CacheCoversChain
<1>3. StoppedIsIdle' /\ IndexCoversChain'
  BY DEF StoppedIsIdle, IndexCoversChain, ChainOK, Covers
<1>4. QED
  BY <1>1, <1>2, <1>3 DEF IInv, ChainOK, SwOK

LEMMA ChainOKUnchanged ==
  ASSUME ChainOK, UNCHANGED <<m_blocks, index>>, pool' \subseteq Txs
  PROVE  ChainOK'
BY DEF ChainOK, index, Linked, getTailId, NoDoubleSpend, Covers

LEMMA SwOKUnchanged ==
  ASSUME SwOK, sw.pc = "idle", UNCHANGED sw
  PROVE  SwOK'
BY DEF SwOK, SwitchOK

LEMMA NotSwitchingOK ==
  ASSUME sw' = NotSwitching
  PROVE  SwOK' /\ sw'.pc = "idle"
<1>1. <<>> \in Seq(Blocks) /\ <<>> \in Seq(Blocks \ {Genesis})
  BY EmptySeq
<1>2. QED
  BY <1>1 DEF SwOK, SwitchOK, NotSwitching, Switches, PhasesOfSwitch

LEMMA LastInSeq ==
  ASSUME NEW S, NEW q \in Seq(S), q # <<>>
  PROVE  Last(q) \in S
<1>1. Len(q) \in 1 .. Len(q)
  BY EmptySeq, LenProperties
<1>2. QED
  BY <1>1, ElementOfSeq DEF Last

(***************************************************************************)
(* addNewBlock.                                                            *)
(***************************************************************************)
LEMMA AddToMainChainStep ==
  ASSUME IInv, NEW b \in Blocks \ {Genesis}, AddToMainChain(b)
  PROVE  IInv'
<1>1. /\ running /\ sw.pc = "idle"
      /\ PushAccepted(b) \/ PushRejected(b)
      /\ UNCHANGED <<m_alternative_chains, m_points, sw, disk, running, restarts>>
  BY DEF AddToMainChain, Idle
<1>2. ChainOK'
  BY <1>1, IInvParts, PushAcceptedKeepsChainOK, PushRejectedKeepsChainOK
<1>3. SwOK'
  BY <1>1, IInvParts, SwOKUnchanged
<1>4. AltsOK' /\ DOMAIN m_points' \subseteq Nat
  BY <1>1, IInvParts DEF AltsOK
<1>5. QED
  BY <1>1, <1>2, <1>3, <1>4, IInvFromParts

LEMMA AddAlternativeStep ==
  ASSUME IInv, NEW b \in Blocks \ {Genesis}, AddAlternative(b)
  PROVE  IInv'
<1>1. /\ running /\ sw.pc = "idle"
      /\ UNCHANGED <<m_blocks, index, pool, disk, running, restarts>>
  BY DEF AddAlternative, Idle
<1>2. PICK records \in SUBSET DOMAIN DnsCheckpoints :
        LET points == WithCheckpoints(m_points, Restrict(DnsCheckpoints, records))
        IN  /\ m_points' = points
            /\ \/ AlternativeAccepted(b, points) /\ StoreAlternative(b, points)
               \/ /\ ~ AlternativeAccepted(b, points)
                  /\ UNCHANGED <<m_alternative_chains, sw>>
  BY DEF AddAlternative
<1> DEFINE points == WithCheckpoints(m_points, Restrict(DnsCheckpoints, records))
<1>3. ChainOK'
  BY <1>1, IInvParts, ChainOKUnchanged DEF ChainOK
<1>4. DOMAIN m_points' \subseteq Nat
  <2>1. DOMAIN m_points' = DOMAIN m_points \cup records
    BY <1>2 DEF WithCheckpoints, Insert, Restrict
  <2>2. QED
    BY Zenon, <1>1, <2>1, IInvParts, BlockchainAssumption
<1>5. CASE StoreAlternative(b, points)
  <2> DEFINE chain == AltChain(m_alternative_chains \cup {b}, b)
  <2>1. m_alternative_chains' = m_alternative_chains \cup {b}
    BY <1>5 DEF StoreAlternative
  <2>2. AltsOK'
    BY <1>1, <2>1, IInvParts DEF AltsOK
  <2>3. /\ chain \in Seq(Blocks) /\ chain # <<>> /\ Len(chain) \in Nat \ {0}
        /\ Height(Head(chain)) \in Nat \ {0}
    <3>1. m_alternative_chains \cup {b} \in SUBSET (Blocks \ {Genesis})
      BY <1>1, IInvParts DEF AltsOK
    <3>2. /\ chain \in Seq(Blocks) /\ chain # <<>>
          /\ Height(Head(chain)) \in Nat \ {0}
      BY <3>1, AltChainType
    <3>3. QED
      BY <3>2, EmptySeq, LenProperties
  <2>4. CASE WantsSwitch(b, points) /\ SwitchAccepted(chain)
    <3>1. sw' = [pc |-> "disconnect", alt |-> chain, next |-> 1,
                 old |-> <<>>, discard |-> Height(b) \in DOMAIN points]
      BY <1>5, <2>4 DEF StoreAlternative
    <3>2. Len(m_blocks) > Height(Head(chain))
      <4>1. Height(Head(chain)) < Len(m_blocks)
        BY <2>4 DEF SwitchAccepted
      <4>2. Len(m_blocks) \in Nat
        BY <1>1, IInvParts, LenProperties DEF ChainOK
      <4> HIDE DEF chain
      <4>3. QED
        BY <2>3, <4>1, <4>2
    <3> HIDE DEF chain, points
    <3>3. sw' \in Switches
      BY <2>3, <3>1, EmptySeq DEF Switches, PhasesOfSwitch
    <3>4. SwitchOK'
      BY <1>1, <2>3, <3>1, <3>2 DEF SwitchOK, SplitHeight
    <3>5. QED
      BY SMTT(30), <1>1, <1>3, <1>4, <2>2, <3>3, <3>4, IInvFromParts DEF SwOK
  <2>5. CASE ~ (WantsSwitch(b, points) /\ SwitchAccepted(chain))
    <3>1. sw' = sw
      BY <1>5, <2>5 DEF StoreAlternative
    <3>2. SwOK'
      BY <1>1, <3>1, IInvParts, SwOKUnchanged
    <3>3. QED
      BY <1>1, <1>3, <1>4, <2>2, <3>2, IInvFromParts
  <2>6. QED
    BY <2>4, <2>5
<1>6. CASE UNCHANGED <<m_alternative_chains, sw>>
  <2>1. SwOK' /\ AltsOK'
    BY <1>1, <1>6, IInvParts, SwOKUnchanged DEF AltsOK
  <2>2. QED
    BY <1>1, <1>3, <1>4, <2>1, IInvFromParts
<1>7. QED
  BY <1>2, <1>5, <1>6

-----------------------------------------------------------------------------
(***************************************************************************)
(* What a step of switch_to_alternative_blockchain may rely on.            *)
(***************************************************************************)
LEMMA SwitchFacts ==
  ASSUME IInv, running
  PROVE  /\ Len(m_blocks) \in Nat
         /\ sw.alt \in Seq(Blocks) /\ Len(sw.alt) \in Nat
         /\ sw.old \in Seq(Blocks \ {Genesis}) /\ Len(sw.old) \in Nat
         /\ sw.next \in Nat \ {0}
         /\ sw.pc # "idle" => SplitHeight \in Nat \ {0}
         /\ sw.old # <<>> => Len(sw.old) > 0
<1>1. /\ m_blocks \in Seq(Blocks) /\ sw.alt \in Seq(Blocks)
      /\ sw.old \in Seq(Blocks \ {Genesis}) /\ sw.next \in Nat \ {0}
  BY DEF IInv, TypeOK, Switches
<1>2. Len(m_blocks) \in Nat /\ Len(sw.alt) \in Nat /\ Len(sw.old) \in Nat
  BY <1>1, LenProperties
<1>3. sw.old # <<>> => Len(sw.old) > 0
  BY <1>1, <1>2, EmptySeq
<1>4. sw.pc # "idle" => SplitHeight \in Nat \ {0}
  <2> SUFFICES ASSUME sw.pc # "idle" PROVE SplitHeight \in Nat \ {0}
    OBVIOUS
  <2>1. sw.alt # <<>> /\ SplitHeight > 0
    BY DEF IInv, SwitchOK
  <2>2. Head(sw.alt) \in Blocks
    BY <1>1, <2>1, HeadTailProperties
  <2>3. Len(Ancestry[Head(sw.alt)]) \in Nat
    BY <2>2, AncestryType
  <2>4. SplitHeight \in Int
    BY <2>3 DEF SplitHeight, Height
  <2>5. QED
    BY <2>1, <2>4
<1>5. QED
  BY <1>1, <1>2, <1>3, <1>4

LEMMA DisconnectBlockStep ==
  ASSUME IInv, DisconnectBlock
  PROVE  IInv'
<1>1. /\ running /\ sw.pc = "disconnect" /\ popBlock
      /\ sw' = [sw EXCEPT !.old = <<getTailId>> \o @, !.pc = AfterPop(@, "connect")]
      /\ UNCHANGED <<m_alternative_chains, m_points, disk, running, restarts>>
  BY DEF DisconnectBlock, Switching
<1>2. /\ sw.alt # <<>> /\ Len(m_blocks) > SplitHeight /\ sw.next <= Len(sw.alt)
      /\ sw \in Switches
  BY <1>1 DEF IInv, SwitchOK, TypeOK
<1>3. Len(m_blocks) > 1
  BY <1>1, <1>2, SwitchFacts
<1>4. ChainOK' /\ Len(m_blocks') = Len(m_blocks) - 1 /\ getTailId \in Blocks \ {Genesis}
  BY <1>1, <1>3, IInvParts, PopKeepsChainOK
<1>5. <<getTailId>> \o sw.old \in Seq(Blocks \ {Genesis}) /\ <<getTailId>> \o sw.old # <<>>
  <2>1. <<getTailId>> \in Seq(Blocks \ {Genesis}) /\ <<getTailId>> # <<>>
    BY <1>4
  <2>2. sw.old \in Seq(Blocks \ {Genesis})
    BY <1>1, SwitchFacts
  <2>3. Len(<<getTailId>> \o sw.old) = 1 + Len(sw.old) /\ Len(sw.old) \in Nat
    BY <2>1, <2>2, ConcatProperties, LenProperties
  <2>4. QED
    BY <2>1, <2>2, <2>3, ConcatProperties, EmptySeq
<1>6. /\ sw'.alt = sw.alt /\ sw'.next = sw.next /\ sw'.discard = sw.discard
      /\ sw'.old = <<getTailId>> \o sw.old
      /\ sw'.pc = IF Len(m_blocks) = SplitHeight + 1 THEN "connect" ELSE "disconnect"
  BY <1>1, <1>2 DEF Switches, AfterPop
<1>7. sw' \in Switches
  BY Zenon, <1>1, <1>2, <1>5, <1>6 DEF Switches, PhasesOfSwitch
<1>8. SplitHeight' = SplitHeight
  BY <1>6 DEF SplitHeight
<1>9. SwitchOK'
  BY <1>1, <1>2, <1>4, <1>5, <1>6, <1>8, SwitchFacts DEF SwitchOK
<1>10. QED
  BY SMTT(30), <1>1, <1>4, <1>7, <1>9, IInvParts, IInvFromParts DEF SwOK, AltsOK

LEMMA ConnectBlockStep ==
  ASSUME IInv, ConnectBlock
  PROVE  IInv'
<1>1. /\ running /\ sw.pc = "connect" /\ PushAccepted(sw.alt[sw.next])
      /\ sw' = IF sw.next < Len(sw.alt)
               THEN [sw EXCEPT !.next = @ + 1]
               ELSE [sw EXCEPT !.next = 1,
                               !.pc = IF sw.discard THEN "finish" ELSE "readd"]
      /\ UNCHANGED <<m_alternative_chains, m_points, disk, running, restarts>>
  BY DEF ConnectBlock, Switching
<1>2. /\ sw.alt # <<>> /\ sw.old # <<>> /\ Len(m_blocks) >= SplitHeight
      /\ sw.next <= Len(sw.alt) /\ sw \in Switches
  BY <1>1 DEF IInv, SwitchOK, TypeOK
<1>3. sw.alt[sw.next] \in Blocks
  <2>1. sw.next \in 1 .. Len(sw.alt)
    BY <1>1, <1>2, SwitchFacts
  <2>2. QED
    BY <1>1, <2>1, SwitchFacts, ElementOfSeq
<1>4. ChainOK' /\ Len(m_blocks') = Len(m_blocks) + 1
  BY <1>1, <1>3, IInvParts, PushAcceptedKeepsChainOK
<1>5. CASE sw.next < Len(sw.alt)
  <2>1. sw' = [sw EXCEPT !.next = @ + 1]
    BY <1>1, <1>5
  <2>2. /\ sw'.alt = sw.alt /\ sw'.next = sw.next + 1 /\ sw'.old = sw.old
        /\ sw'.pc = "connect" /\ sw' \in Switches
    <3>1. sw.pc = "connect" /\ sw \in Switches
      BY <1>1, <1>2
    <3>2. sw' \in Switches
      BY <2>1, <3>1 DEF Switches
    <3>3. QED
      BY <2>1, <3>1, <3>2 DEF Switches
  <2>3. SplitHeight' = SplitHeight
    BY <2>2 DEF SplitHeight
  <2>4. SwitchOK'
    BY SMTT(30), <1>1, <1>2, <1>4, <1>5, <2>2, <2>3, SwitchFacts DEF SwitchOK
  <2>5. QED
    BY <1>1, <1>4, <2>2, <2>4, IInvParts, IInvFromParts DEF SwOK, AltsOK
<1>6. CASE ~ (sw.next < Len(sw.alt))
  <2>1. sw' = [sw EXCEPT !.next = 1, !.pc = IF sw.discard THEN "finish" ELSE "readd"]
    BY <1>1, <1>6
  <2>2. /\ sw'.alt = sw.alt /\ sw'.next = 1 /\ sw'.old = sw.old
        /\ sw'.pc \in {"finish", "readd"} /\ sw' \in Switches
    <3>1. sw.pc = "connect" /\ sw \in Switches
      BY <1>1, <1>2
    <3>2. PICK q \in {"finish", "readd"} : sw' = [sw EXCEPT !.next = 1, !.pc = q]
      BY Zenon, <2>1
    <3>3. q \in PhasesOfSwitch
      BY <3>2 DEF PhasesOfSwitch
    <3>4. sw' \in Switches
      <4>1. [sw EXCEPT !.next = 1] \in Switches
        BY <3>1 DEF Switches
      <4>2. sw' = [[sw EXCEPT !.next = 1] EXCEPT !.pc = q]
        BY <3>2
      <4>3. QED
        BY Zenon, <3>3, <4>1, <4>2 DEF Switches
    <3>5. QED
      BY <3>1, <3>2, <3>4 DEF Switches
  <2>3. SplitHeight' = SplitHeight
    BY <2>2 DEF SplitHeight
  <2>4. SwitchOK'
    BY <1>1, <1>2, <2>2, <2>3, SwitchFacts DEF SwitchOK
  <2>5. QED
    BY <1>1, <1>4, <2>2, <2>4, IInvParts, IInvFromParts DEF SwOK, AltsOK
<1>7. QED
  BY <1>5, <1>6

LEMMA ConnectFailsStep ==
  ASSUME IInv, ConnectFails
  PROVE  IInv'
<1>1. /\ running /\ sw.pc = "connect" /\ PushRejected(sw.alt[sw.next])
      /\ sw' = [sw EXCEPT !.pc = IF Len(m_blocks) > SplitHeight THEN "rollback"
                                                               ELSE "restore"]
      /\ UNCHANGED <<m_alternative_chains, m_points, disk, running, restarts>>
  BY DEF ConnectFails, Switching
<1>2. /\ sw.alt # <<>> /\ sw.old # <<>> /\ Len(m_blocks) >= SplitHeight
      /\ sw.next <= Len(sw.alt) /\ sw \in Switches
  BY <1>1 DEF IInv, SwitchOK, TypeOK
<1>3. sw.alt[sw.next] \in Blocks
  <2>1. sw.next \in 1 .. Len(sw.alt)
    BY <1>1, <1>2, SwitchFacts
  <2>2. QED
    BY <1>1, <2>1, SwitchFacts, ElementOfSeq
<1>4. ChainOK' /\ m_blocks' = m_blocks
  BY <1>1, <1>3, IInvParts, PushRejectedKeepsChainOK
<1>5. /\ sw'.alt = sw.alt /\ sw'.next = sw.next /\ sw'.old = sw.old
      /\ sw'.pc = IF Len(m_blocks) > SplitHeight THEN "rollback" ELSE "restore"
      /\ sw' \in Switches
  BY <1>1, <1>2 DEF Switches, PhasesOfSwitch
<1>6. SplitHeight' = SplitHeight
  BY <1>5 DEF SplitHeight
<1>7. SwitchOK'
  BY SMTT(30), <1>1, <1>2, <1>4, <1>5, <1>6, SwitchFacts DEF SwitchOK
<1>8. QED
  BY <1>1, <1>4, <1>5, <1>7, IInvParts, IInvFromParts DEF SwOK, AltsOK

LEMMA RollbackBlockStep ==
  ASSUME IInv, RollbackBlock
  PROVE  IInv'
<1>1. /\ running /\ sw.pc = "rollback" /\ popBlock
      /\ sw' = [sw EXCEPT !.pc = AfterPop(@, "restore")]
      /\ UNCHANGED <<m_alternative_chains, m_points, disk, running, restarts>>
  BY DEF RollbackBlock, Switching
<1>2. /\ sw.alt # <<>> /\ sw.old # <<>> /\ Len(m_blocks) > SplitHeight
      /\ sw \in Switches
  BY <1>1 DEF IInv, SwitchOK, TypeOK
<1>3. Len(m_blocks) > 1
  BY <1>1, <1>2, SwitchFacts
<1>4. ChainOK' /\ Len(m_blocks') = Len(m_blocks) - 1
  BY <1>1, <1>3, IInvParts, PopKeepsChainOK
<1>5. /\ sw'.alt = sw.alt /\ sw'.next = sw.next /\ sw'.old = sw.old
      /\ sw'.pc = IF Len(m_blocks) = SplitHeight + 1 THEN "restore" ELSE "rollback"
      /\ sw' \in Switches
  BY <1>1, <1>2 DEF Switches, PhasesOfSwitch, AfterPop
<1>6. SplitHeight' = SplitHeight
  BY <1>5 DEF SplitHeight
<1>7. SwitchOK'
  BY SMTT(30), <1>1, <1>2, <1>4, <1>5, <1>6, SwitchFacts DEF SwitchOK
<1>8. QED
  BY <1>1, <1>4, <1>5, <1>7, IInvParts, IInvFromParts DEF SwOK, AltsOK

LEMMA ForgetFailedChainOK ==
  ASSUME IInv, running, ForgetFailedChain
  PROVE  SwOK' /\ AltsOK'
<1>1. SwOK'
  BY NotSwitchingOK DEF ForgetFailedChain
<1>2. AltsOK'
  BY IInvParts DEF ForgetFailedChain, AltsOK
<1>3. QED
  BY <1>1, <1>2

LEMMA RestoreStep ==
  ASSUME IInv, RestoreBlock \/ RestorePanics
  PROVE  IInv'
<1>1. /\ running /\ sw.pc = "restore"
      /\ UNCHANGED <<m_points, disk, running, restarts>>
  BY DEF RestoreBlock, RestorePanics, Switching
<1>2. /\ sw.alt # <<>> /\ sw.old # <<>> /\ sw \in Switches
      /\ Len(m_blocks) >= SplitHeight /\ Len(m_blocks) < SplitHeight + Len(sw.old)
  BY <1>1 DEF IInv, SwitchOK, TypeOK
<1>3. BlockToRestore \in Blocks
  <2>1. Len(m_blocks) - SplitHeight + 1 \in 1 .. Len(sw.old)
    BY <1>1, <1>2, SwitchFacts
  <2>2. QED
    BY SMTT(30), <1>1, <2>1, SwitchFacts, ElementOfSeq DEF BlockToRestore
<1>4. CASE RestorePanics
  <2>1. PushRejected(BlockToRestore) /\ ForgetFailedChain
    BY <1>4 DEF RestorePanics
  <2>2. ChainOK'
    BY <1>1, <1>3, <2>1, IInvParts, PushRejectedKeepsChainOK
  <2>3. SwOK' /\ AltsOK'
    BY <1>1, <2>1, ForgetFailedChainOK
  <2>4. QED
    BY SMTT(30), <1>1, <2>2, <2>3, IInvParts, IInvFromParts
<1>5. CASE RestoreBlock
  <2>1. PushAccepted(BlockToRestore)
    BY <1>5 DEF RestoreBlock
  <2>2. ChainOK' /\ Len(m_blocks') = Len(m_blocks) + 1
    BY <1>1, <1>3, <2>1, IInvParts, PushAcceptedKeepsChainOK
  <2>3. CASE Len(m_blocks) + 1 = SplitHeight + Len(sw.old)
    <3>1. SwOK' /\ AltsOK'
      BY <1>1, <1>5, <2>3, ForgetFailedChainOK DEF RestoreBlock
    <3>2. QED
      BY <1>1, <2>2, <3>1, IInvParts, IInvFromParts
  <2>4. CASE Len(m_blocks) + 1 # SplitHeight + Len(sw.old)
    <3>1. UNCHANGED <<m_alternative_chains, sw>>
      BY <1>5, <2>4 DEF RestoreBlock
    <3>2. SplitHeight' = SplitHeight
      BY <3>1 DEF SplitHeight
    <3>3. SwitchOK'
      BY <1>1, <1>2, <2>2, <2>4, <3>1, <3>2, SwitchFacts DEF SwitchOK
    <3>4. QED
      BY SMTT(30), <1>1, <1>2, <2>2, <3>1, <3>3, IInvParts, IInvFromParts DEF SwOK, AltsOK
  <2>5. QED
    BY <2>3, <2>4
<1>6. QED
  BY <1>4, <1>5

LEMMA ReaddBlockStep ==
  ASSUME IInv, ReaddBlock
  PROVE  IInv'
<1>1. /\ running /\ sw.pc = "readd"
      /\ UNCHANGED <<m_blocks, index, m_points, pool, disk, running, restarts>>
  BY DEF ReaddBlock, Switching
<1>2. sw.alt # <<>> /\ sw.old # <<>> /\ sw.next <= Len(sw.old) /\ sw \in Switches
  BY <1>1 DEF IInv, SwitchOK, TypeOK
<1>3. sw.old[sw.next] \in Blocks \ {Genesis}
  <2>1. sw.next \in 1 .. Len(sw.old)
    BY <1>1, <1>2, SwitchFacts
  <2>2. QED
    BY SMTT(30), <1>1, <2>1, SwitchFacts, ElementOfSeq
<1>4. ChainOK'
  BY <1>1, IInvParts, ChainOKUnchanged DEF ChainOK
<1>5. AltsOK'
  <2>1. \/ m_alternative_chains' = m_alternative_chains \cup {sw.old[sw.next]}
        \/ m_alternative_chains' = m_alternative_chains
    BY DEF ReaddBlock
  <2>2. QED
    BY <1>1, <1>3, <2>1, IInvParts DEF AltsOK
<1>6. \/ sw' = [sw EXCEPT !.pc = "finish"]
      \/ sw' = [sw EXCEPT !.next = @ + 1] /\ sw.next # Len(sw.old)
  BY DEF ReaddBlock
<1>7. /\ sw' \in Switches /\ sw'.alt = sw.alt /\ sw'.old = sw.old
      /\ \/ sw'.pc = "finish"
         \/ sw'.pc = sw.pc /\ sw'.next = sw.next + 1 /\ sw.next # Len(sw.old)
  BY <1>2, <1>6 DEF Switches, PhasesOfSwitch
<1>8. SplitHeight' = SplitHeight
  BY <1>7 DEF SplitHeight
<1>9. SwitchOK'
  BY SMTT(30), <1>1, <1>2, <1>7, <1>8, SwitchFacts DEF SwitchOK
<1>10. QED
  BY SMTT(30), <1>1, <1>4, <1>5, <1>7, <1>9, IInvParts, IInvFromParts DEF SwOK

LEMMA FinishSwitchStep ==
  ASSUME IInv, FinishSwitch
  PROVE  IInv'
<1>1. /\ running /\ sw' = NotSwitching
      /\ m_alternative_chains' = m_alternative_chains \ Range(sw.alt)
      /\ UNCHANGED <<m_blocks, index, m_points, pool, disk, running, restarts>>
  BY DEF FinishSwitch, Switching
<1>2. ChainOK'
  BY <1>1, IInvParts, ChainOKUnchanged DEF ChainOK
<1>3. SwOK' /\ AltsOK'
  BY <1>1, IInvParts, NotSwitchingOK DEF AltsOK
<1>4. QED
  BY SMTT(30), <1>1, <1>2, <1>3, IInvParts, IInvFromParts

(***************************************************************************)
(* The pool.                                                               *)
(***************************************************************************)
LEMMA PoolStep ==
  ASSUME IInv, NEW t \in Txs,
         ExpireTransaction(t) \/ \E k \in BOOLEAN : add_new_tx(t, k)
  PROVE  IInv'
<1>1. /\ running /\ sw.pc = "idle" /\ pool' \subseteq pool \cup {t}
      /\ UNCHANGED <<m_blocks, index, m_alternative_chains, m_points, sw>>
      /\ UNCHANGED <<disk, running, restarts>>
  BY DEF ExpireTransaction, add_new_tx, Idle
<1>2. ChainOK'
  <2>1. pool' \subseteq Txs
    BY <1>1, IInvParts DEF ChainOK
  <2>2. QED
    BY <1>1, <2>1, IInvParts, ChainOKUnchanged
<1>3. SwOK' /\ AltsOK'
  BY <1>1, IInvParts, SwOKUnchanged DEF AltsOK
<1>4. QED
  BY SMTT(30), <1>1, <1>2, <1>3, IInvParts, IInvFromParts

-----------------------------------------------------------------------------
(***************************************************************************)
(* The process stops: only m_blocks and the files remain.                  *)
(***************************************************************************)
LEMMA LoseMemoryKeepsIInv ==
  ASSUME IInv, restarts < MaxRestarts, LoseMemory, DiskOK'
  PROVE  IInv'
<1>1. SwOK' /\ sw'.pc = "idle"
  BY NotSwitchingOK DEF LoseMemory
<1>2. restarts' \in 0 .. MaxRestarts
  <2>1. restarts \in 0 .. MaxRestarts /\ restarts' = restarts + 1
    BY DEF IInv, TypeOK, LoseMemory
  <2>2. MaxRestarts \in Nat
    BY BlockchainAssumption
  <2>3. QED
    BY <2>1, <2>2
<1>3. DOMAIN m_transactionMap' = {}
  BY DEF LoseMemory
<1>4. TypeOK'
  BY Zenon, <1>1, <1>2, <1>3, BlockchainAssumption DEF IInv, TypeOK, LoseMemory, DiskOK, SwOK
<1>5. Linked' /\ NoDoubleSpend'
  BY DEF IInv, LoseMemory, Linked, getTailId, NoDoubleSpend
<1>6. StoppedIsIdle' /\ IndexCoversChain'
  BY <1>1 DEF StoppedIsIdle, IndexCoversChain, LoseMemory
<1>7. QED
  BY <1>1, <1>4, <1>5, <1>6 DEF IInv, SwOK, DiskOK

LEMMA StopStep ==
  ASSUME IInv, deinit \/ Crash
  PROVE  IInv'
<1>1. running /\ restarts < MaxRestarts /\ LoseMemory
  BY DEF deinit, Crash, Idle
<1>2. CASE Crash
  <2>1. DiskOK'
    BY SMTT(30), <1>1, <1>2, IInvParts DEF Crash, DiskOK, CacheCoversChain
  <2>2. QED
    BY <1>1, <2>1, LoseMemoryKeepsIInv
<1>3. CASE deinit
  <2>1. /\ disk'.cache.saved = TRUE /\ disk'.cache.tail = getTailId
        /\ disk'.cache.map = m_transactionMap /\ disk'.cache.spent = m_spent_keys
        /\ disk'.pool = pool
    BY <1>3 DEF deinit
  <2>2. getTailId \in Blocks
    BY SMTT(30), <1>1, IInvParts, LastInSeq DEF ChainOK, getTailId
  <2>3. CacheCoversChain'
    <3>1. Ancestry[disk'.cache.tail] = m_blocks
      BY <1>1, <2>1, IInvParts DEF ChainOK, Linked
    <3>2. QED
      BY SMTT(30), <1>1, <2>1, <3>1, IInvParts DEF CacheCoversChain, ChainOK, Covers
  <2>4. DiskOK'
    BY Zenon, <1>1, <2>1, <2>2, <2>3, IInvParts DEF DiskOK, ChainOK
  <2>5. QED
    BY <1>1, <2>4, LoseMemoryKeepsIInv
<1>4. QED
  BY <1>2, <1>3

-----------------------------------------------------------------------------
(***************************************************************************)
(* init.  A prefix of the chain is as good as the chain, and the blocks    *)
(* that rollbackBlockchainTo removes share nothing with those that stay.   *)
(***************************************************************************)
LEMMA PrefixOfChain ==
  ASSUME IInv, NEW size \in 1 .. Len(m_blocks), m_blocks' = SubSeq(m_blocks, 1, size)
  PROVE  /\ m_blocks' \in Seq(Blocks) /\ m_blocks' # <<>>
         /\ Linked' /\ NoDoubleSpend'
         /\ DOMAIN m_blocks' = 1 .. size
         /\ \A i \in 1 .. size : m_blocks'[i] = m_blocks[i]
<1> DEFINE n == Len(m_blocks)
<1>1. /\ m_blocks \in Seq(Blocks) /\ n \in Nat \ {0} /\ DOMAIN m_blocks = 1 .. n
      /\ m_blocks = Ancestry[m_blocks[n]] /\ m_blocks[n] \in Blocks
  BY EmptySeq, LenProperties, ElementOfSeq DEF IInv, TypeOK, Linked, getTailId, Last
<1>2. \A i \in 1 .. size : m_blocks[i] \in Blocks
  BY <1>1, ElementOfSeq
<1>3. /\ m_blocks' \in Seq(Blocks) /\ Len(m_blocks') = size
      /\ \A i \in 1 .. size : m_blocks'[i] = m_blocks[i]
  BY <1>1, <1>2, SubSeqProperties
<1>4. DOMAIN m_blocks' = 1 .. size /\ m_blocks' # <<>>
  BY <1>3, LenProperties, EmptySeq
<1>5. Linked'
  <2>1. size \in 1 .. Len(Ancestry[m_blocks[n]])
    BY <1>1
  <2>2. Ancestry[m_blocks[size]] = SubSeq(m_blocks, 1, size)
    BY <1>1, <2>1, AncestryPrefix
  <2>3. m_blocks'[size] = m_blocks[size]
    BY <1>3
  <2>4. QED
    BY <1>3, <2>2, <2>3 DEF Linked, getTailId, Last
<1>6. NoDoubleSpend'
  <2> SUFFICES ASSUME NEW i \in DOMAIN m_blocks', NEW j \in DOMAIN m_blocks',
                      NEW t \in TxsOf(m_blocks'[i]), NEW u \in TxsOf(m_blocks'[j]),
                      KeyImagesOf[t] \cap KeyImagesOf[u] # {}
               PROVE  i = j /\ t = u
    BY DEF NoDoubleSpend
  <2>1. m_blocks'[i] = m_blocks[i] /\ m_blocks'[j] = m_blocks[j]
    BY <1>3, <1>4
  <2>2. i \in 1 .. n /\ j \in 1 .. n
    BY <1>1, <1>4
  <2>3. QED
    BY <1>1, <2>1, <2>2 DEF IInv, NoDoubleSpend
<1>7. QED
  BY <1>3, <1>4, <1>5, <1>6

LEMMA BlocksApart ==
  ASSUME IInv, NEW i \in 1 .. Len(m_blocks), NEW j \in 1 .. Len(m_blocks), i # j
  PROVE  /\ ({m_blocks[i]} \cup TxsOf(m_blocks[i])) \cap ({m_blocks[j]} \cup TxsOf(m_blocks[j])) = {}
         /\ KeysOf(m_blocks[i]) \cap KeysOf(m_blocks[j]) = {}
<1> DEFINE n == Len(m_blocks)
           b == m_blocks[i]
           c == m_blocks[j]
<1>1. /\ m_blocks \in Seq(Blocks) /\ DOMAIN m_blocks = 1 .. n
      /\ m_blocks = Ancestry[m_blocks[n]] /\ b \in Blocks /\ c \in Blocks /\ m_blocks[n] \in Blocks
  BY LenProperties, ElementOfSeq DEF IInv, TypeOK, Linked, getTailId, Last
<1>2. b # c
  <2>1. Len(Ancestry[b]) = i /\ Len(Ancestry[c]) = j
    BY <1>1, AncestryPrefix
  <2>2. QED
    BY <2>1
<1>3. \A t \in TxsOf(b), u \in TxsOf(c) : KeyImagesOf[t] \cap KeyImagesOf[u] = {}
  BY <1>1 DEF IInv, NoDoubleSpend
<1> HIDE DEF b, c
<1>4. KeysOf(b) \cap KeysOf(c) = {}
  BY <1>1, <1>3, KeysOfType
<1>5. TxsOf(b) \cap TxsOf(c) = {}
  <2>1. \A t \in TxsOf(b) : KeyImagesOf[t] # {}
    BY <1>1, TxsOfType, BlockchainAssumption
  <2>2. QED
    BY <1>3, <2>1
<1>6. b \notin TxsOf(c) /\ c \notin TxsOf(b)
  BY <1>1, TxsOfType, BlockchainAssumption
<1>7. ({b} \cup TxsOf(b)) \cap ({c} \cup TxsOf(c)) = {}
  BY <1>2, <1>5, <1>6
<1>8. QED
  BY <1>4, <1>7 DEF b, c

LEMMA HighestKeptBound ==
  ASSUME IInv, NEW points, DOMAIN points \subseteq Nat
  PROVE  HighestKept(points) \in Nat /\ HighestKept(points) <= Len(m_blocks)
<1> DEFINE n == Len(m_blocks)
           failed == {c \in DOMAIN points : c < n /\ points[c] # m_blocks[c + 1]}
           passed == {c \in DOMAIN points : c < n /\ \A f \in failed : c < f}
           last == IF passed = {} THEN 0 ELSE CHOOSE c \in passed : \A d \in passed : d <= c
<1>1. n \in Nat \ {0}
  BY EmptySeq, LenProperties DEF IInv, TypeOK
<1>2. HighestKept(points) = IF failed = {} THEN n ELSE last + 1
  BY DEF HighestKept, FailedCheckpoints, LastValidCheckpoint
<1> HIDE DEF n, failed
<1>3. last \in 0 .. (n - 1)
  <2>1. CASE passed = {}
    BY <1>1, <2>1
  <2>2. CASE passed # {}
    <3>1. passed \in SUBSET (0 .. (n - 1)) /\ n - 1 \in Nat
      BY <1>1
    <3> HIDE DEF passed
    <3>2. \E c \in passed : \A d \in passed : d <= c
      BY Zenon, <2>2, <3>1, GreatestExists
    <3>3. QED
      BY Zenon, <2>2, <3>1, <3>2
  <2>3. QED
    BY <2>1, <2>2
<1> HIDE DEF last
<1>4. QED
  BY <1>1, <1>2, <1>3 DEF n

(***************************************************************************)
(* Whatever the indexes come from, they cover the chain.                   *)
(***************************************************************************)
StartMap == IF CacheUsable THEN disk.cache.map ELSE RebuiltMap(m_blocks)

StartSpentKeys == IF CacheUsable THEN disk.cache.spent ELSE RebuiltSpentKeys(m_blocks)

LEMMA StartIndexesCover ==
  ASSUME IInv
  PROVE  /\ DOMAIN StartMap \subseteq Blocks \cup Txs
         /\ StartSpentKeys \subseteq UNION {KeyImagesOf[t] : t \in Txs}
         /\ \A b \in Range(m_blocks) :
              {b} \cup TxsOf(b) \subseteq DOMAIN StartMap /\ KeysOf(b) \subseteq StartSpentKeys
<1>1. CASE CacheUsable
  <2>1. StartMap = disk.cache.map /\ StartSpentKeys = disk.cache.spent
    BY <1>1 DEF StartMap, StartSpentKeys
  <2>2. disk.cache.saved /\ Ancestry[disk.cache.tail] = m_blocks
    BY <1>1 DEF CacheUsable, IInv, Linked
  <2>3. QED
    BY <2>1, <2>2 DEF IInv, TypeOK, CacheCoversChain
<1>2. CASE ~ CacheUsable
  <2>1. \A b \in Range(m_blocks) : b \in Blocks
    BY ElementOfSeq, LenProperties DEF IInv, TypeOK, Range
  <2>2. /\ StartSpentKeys = UNION {KeysOf(b) : b \in Range(m_blocks)}
        /\ StartMap = RebuiltMap(m_blocks)
    BY <1>2 DEF StartMap, StartSpentKeys, RebuiltSpentKeys
  <2>3. DOMAIN StartMap = UNION {{b} \cup TxsOf(b) : b \in Range(m_blocks)}
    BY <2>2 DEF RebuiltMap
  <2>4. \A b \in Range(m_blocks) : TxsOf(b) \subseteq Txs
    BY <2>1, TxsOfType
  <2>5. \A b \in Range(m_blocks) : KeysOf(b) \subseteq UNION {KeyImagesOf[t] : t \in Txs}
    BY <2>1, KeysOfType
  <2>6. DOMAIN StartMap \subseteq Blocks \cup Txs
    BY <2>1, <2>3, <2>4
  <2>7. StartSpentKeys \subseteq UNION {KeyImagesOf[t] : t \in Txs}
    BY <2>2, <2>5
  <2>8. QED
    BY SMTT(30), <2>2, <2>3, <2>6, <2>7
<1>3. QED
  BY <1>1, <1>2

LEMMA InitStep ==
  ASSUME IInv, init
  PROVE  IInv'
<1>1. /\ ~ running /\ running' = TRUE /\ pool' = disk.pool
      /\ UNCHANGED <<m_alternative_chains, sw, disk, restarts>>
  BY Zenon DEF init
<1>a. PICK records \in SUBSET DOMAIN DnsCheckpoints :
        \E size \in 1 .. HighestKept(WithCheckpoints(StaticCheckpoints, Restrict(DnsCheckpoints, records))) :
        LET gone == SubSeq(m_blocks, size + 1, Len(m_blocks))
            lost == UNION {{b} \cup TxsOf(b) : b \in Range(gone)}
        IN  /\ m_points' = WithCheckpoints(StaticCheckpoints, Restrict(DnsCheckpoints, records))
            /\ m_blocks' = SubSeq(m_blocks, 1, size)
            /\ m_transactionMap' = Restrict(StartMap, DOMAIN StartMap \ lost)
            /\ m_spent_keys' = StartSpentKeys \ UNION {KeysOf(b) : b \in Range(gone)}
  BY Zenon DEF init, StartMap, StartSpentKeys
<1> DEFINE points == WithCheckpoints(StaticCheckpoints, Restrict(DnsCheckpoints, records))
<1>2. PICK size \in 1 .. HighestKept(points) :
        LET gone == SubSeq(m_blocks, size + 1, Len(m_blocks))
            lost == UNION {{b} \cup TxsOf(b) : b \in Range(gone)}
        IN  /\ m_points' = points
            /\ m_blocks' = SubSeq(m_blocks, 1, size)
            /\ m_transactionMap' = Restrict(StartMap, DOMAIN StartMap \ lost)
            /\ m_spent_keys' = StartSpentKeys \ UNION {KeysOf(b) : b \in Range(gone)}
  BY Zenon, <1>a
<1> DEFINE gone == SubSeq(m_blocks, size + 1, Len(m_blocks))
           n == Len(m_blocks)
<1>3. DOMAIN m_points' \subseteq Nat
  <2>1. DOMAIN m_points' = DOMAIN StaticCheckpoints \cup records
    BY <1>2 DEF WithCheckpoints, Insert, Restrict
  <2>2. QED
    BY Zenon, <2>1, BlockchainAssumption
<1>4. n \in Nat /\ size \in 1 .. n
  <2>1. HighestKept(m_points') \in Nat /\ HighestKept(m_points') <= n
    BY <1>3, HighestKeptBound
  <2>2. size \in 1 .. HighestKept(m_points')
    BY <1>2
  <2>3. n \in Nat
    BY LenProperties DEF IInv, TypeOK
  <2> HIDE DEF n
  <2>4. QED
    BY SMTT(30), <2>1, <2>2, <2>3
<1>5. /\ m_blocks' \in Seq(Blocks) /\ m_blocks' # <<>> /\ Linked' /\ NoDoubleSpend'
      /\ DOMAIN m_blocks' = 1 .. size
      /\ \A i \in 1 .. size : m_blocks'[i] = m_blocks[i]
  BY SMTT(30), <1>2, <1>4, PrefixOfChain
<1>6. m_blocks \in Seq(Blocks) /\ DOMAIN m_blocks = 1 .. n
  BY LenProperties DEF IInv, TypeOK
<1>7. \A b \in Range(gone) : \E j \in (size + 1) .. n : b = m_blocks[j]
  <2>1. \A i \in (size + 1) .. n : m_blocks[i] \in Blocks
    BY SMTT(30), <1>4, <1>6, ElementOfSeq
  <2>2. /\ gone \in Seq(Blocks)
        /\ Len(gone) = IF size + 1 <= n THEN n - size ELSE 0
        /\ \A i \in 1 .. (n - size) : gone[i] = m_blocks[size + i]
    <3>1. size + 1 \in Int /\ n \in Int /\ n - (size + 1) + 1 = n - size
      BY <1>4
    <3>2. /\ gone \in Seq(Blocks)
          /\ Len(gone) = IF size + 1 <= n THEN n - (size + 1) + 1 ELSE 0
          /\ \A i \in 1 .. (n - (size + 1) + 1) : gone[i] = m_blocks[(size + 1) + i - 1]
      BY SMTT(30), <1>6, <2>1, <3>1, SubSeqProperties
    <3> HIDE DEF gone, n
    <3>3. QED
      BY SMTT(30), <1>4, <3>1, <3>2
  <2>3. DOMAIN gone = 1 .. Len(gone)
    BY <2>2, LenProperties
  <2> HIDE DEF gone, n
  <2>4. \A i \in DOMAIN gone : i \in 1 .. (n - size) /\ size + i \in (size + 1) .. n
    BY SMTT(30), <1>4, <2>2, <2>3
  <2>5. QED
    BY <2>2, <2>4 DEF Range
<1>8. /\ DOMAIN m_transactionMap' = DOMAIN StartMap \ UNION {{b} \cup TxsOf(b) : b \in Range(gone)}
      /\ m_spent_keys' = StartSpentKeys \ UNION {KeysOf(b) : b \in Range(gone)}
  BY <1>2 DEF Restrict
<1> HIDE DEF gone
<1>9. IndexCoversChain'
  <2> SUFFICES ASSUME NEW i \in 1 .. size
               PROVE  /\ {m_blocks[i]} \cup TxsOf(m_blocks[i]) \subseteq DOMAIN m_transactionMap'
                      /\ KeysOf(m_blocks[i]) \subseteq m_spent_keys'
    BY <1>5 DEF IndexCoversChain, Range
  <2> DEFINE b == m_blocks[i]
  <2>1. i \in 1 .. n /\ b \in Range(m_blocks)
    BY <1>4, <1>6 DEF Range
  <2>2. {b} \cup TxsOf(b) \subseteq DOMAIN StartMap /\ KeysOf(b) \subseteq StartSpentKeys
    BY <2>1, StartIndexesCover
  <2>3. \A c \in Range(gone) : /\ ({b} \cup TxsOf(b)) \cap ({c} \cup TxsOf(c)) = {}
                               /\ KeysOf(b) \cap KeysOf(c) = {}
    <3> SUFFICES ASSUME NEW c \in Range(gone)
                 PROVE  /\ ({b} \cup TxsOf(b)) \cap ({c} \cup TxsOf(c)) = {}
                        /\ KeysOf(b) \cap KeysOf(c) = {}
      OBVIOUS
    <3>1. PICK j \in (size + 1) .. n : c = m_blocks[j]
      BY <1>7
    <3>2. j \in 1 .. n /\ i # j
      BY <1>4
    <3>3. QED
      BY Zenon, <2>1, <3>1, <3>2, BlocksApart
  <2> HIDE DEF b
  <2>4. {b} \cup TxsOf(b) \subseteq DOMAIN m_transactionMap'
    BY SMTT(30), <1>8, <2>2, <2>3
  <2>5. KeysOf(b) \subseteq m_spent_keys'
    BY SMTT(30), <1>8, <2>2, <2>3
  <2>6. QED
    BY <2>4, <2>5 DEF b
<1>10. TypeOK'
  <2>1. DOMAIN m_transactionMap' \subseteq Blocks \cup Txs
    BY <1>8, StartIndexesCover
  <2>2. m_spent_keys' \subseteq UNION {KeyImagesOf[t] : t \in Txs}
    BY SMTT(30), <1>8, StartIndexesCover
  <2>3. QED
    BY SMTT(30), <1>1, <1>3, <1>5, <2>1, <2>2 DEF IInv, TypeOK
<1>11. SwitchOK' /\ StoppedIsIdle' /\ CacheCoversChain'
  <2>1. sw'.pc = "idle"
    BY SMTT(30), <1>1 DEF IInv, StoppedIsIdle
  <2>2. QED
    BY <1>1, <2>1 DEF IInv, SwitchOK, StoppedIsIdle, CacheCoversChain
<1>12. QED
  BY SMTT(30), <1>5, <1>9, <1>10, <1>11 DEF IInv

-----------------------------------------------------------------------------
LEMMA InitIInv ==
  ASSUME Init
  PROVE  IInv
<1>1. Genesis \in Blocks /\ TxsOf(Genesis) = {} /\ KeysOf(Genesis) = {}
  BY BlockchainAssumption DEF TxsOf, KeysOf, Range
<1>2. m_blocks = <<Genesis>> /\ Len(m_blocks) = 1 /\ m_blocks[1] = Genesis /\ DOMAIN m_blocks = {1}
  BY DEF Init
<1>3. Ancestry[Genesis] = <<Genesis>>
  <2>1. Ancestry[Genesis] \in Seq(Blocks) /\ Len(Ancestry[Genesis]) = 1 /\ Ancestry[Genesis][1] = Genesis
    BY SMTT(30), <1>1, AncestryType, GenesisIsAlone
  <2>2. QED
    BY <2>1
<1>4. DOMAIN m_transactionMap = {Genesis}
  BY <1>1 DEF Init, IndexOf
<1>5. Range(m_blocks) = {Genesis}
  BY <1>2 DEF Range
<1>6. /\ ~ disk.cache.saved /\ disk.cache.saved \in BOOLEAN /\ disk.cache.tail = Genesis
      /\ DOMAIN disk.cache.map = {}
      /\ disk.cache.spent = {} /\ disk.pool = {}
  <2>1. disk.cache = NoCache /\ disk.pool = {}
    BY DEF Init
  <2>2. NoCache.saved = FALSE /\ NoCache.tail = Genesis /\ NoCache.spent = {} /\ NoCache.map = <<>>
    BY DEF NoCache
  <2>3. DOMAIN <<>> = {}
    OBVIOUS
  <2>4. QED
    BY Zenon, <2>1, <2>2, <2>3
<1>7. sw \in Switches /\ sw.pc = "idle"
  BY EmptySeq DEF Init, NotSwitching, Switches, PhasesOfSwitch
<1>8. TypeOK
  <2>1. m_blocks \in Seq(Blocks) /\ m_blocks # <<>>
    BY SMTT(30), <1>1, <1>2
  <2>2. /\ m_spent_keys = {} /\ m_alternative_chains = {} /\ DOMAIN m_points \subseteq Nat
        /\ pool = {} /\ running = TRUE /\ restarts = 0 /\ MaxRestarts \in Nat
    BY BlockchainAssumption DEF Init
  <2>3. QED
    BY <1>1, <1>4, <1>6, <1>7, <2>1, <2>2 DEF TypeOK
<1>9. Linked
  BY <1>2, <1>3 DEF Linked, getTailId, Last
<1>10. NoDoubleSpend
  BY <1>1, <1>2 DEF NoDoubleSpend
<1>11. IndexCoversChain
  BY <1>1, <1>4, <1>5 DEF IndexCoversChain
<1>12. QED
  BY SMTT(30), <1>6, <1>7, <1>8, <1>9, <1>10, <1>11 DEF IInv, SwitchOK, StoppedIsIdle, CacheCoversChain, Init

LEMMA NextIInv ==
  ASSUME IInv, [Next]_vars
  PROVE  IInv'
<1>1. CASE \E b \in Blocks \ {Genesis} : AddToMainChain(b) \/ AddAlternative(b)
  BY <1>1, AddToMainChainStep, AddAlternativeStep
<1>2. CASE SwitchStep
  BY SMTT(30), <1>2, DisconnectBlockStep, ConnectBlockStep, ConnectFailsStep, RollbackBlockStep,
     RestoreStep, ReaddBlockStep, FinishSwitchStep DEF SwitchStep
<1>3. CASE \E t \in Txs : ExpireTransaction(t) \/ \E k \in BOOLEAN : add_new_tx(t, k)
  BY <1>3, PoolStep
<1>4. CASE deinit \/ Crash
  BY <1>4, StopStep
<1>5. CASE init
  BY SMTT(30), <1>5, InitStep
<1>6. CASE UNCHANGED vars
  BY <1>6 DEF vars, memory, index, IInv, TypeOK, Linked, getTailId, SwitchOK, SplitHeight,
              StoppedIsIdle, NoDoubleSpend, IndexCoversChain, CacheCoversChain
<1>7. QED
  BY <1>1, <1>2, <1>3, <1>4, <1>5, <1>6 DEF Next

(***************************************************************************)
(* The inductive invariant holds in every state: in the middle of a        *)
(* reorganisation, while the process is down and after it comes back.      *)
(***************************************************************************)
THEOREM IInvHolds == Spec => []IInv
<1>1. Init => IInv
  BY InitIInv
<1>2. IInv /\ [Next]_vars => IInv'
  BY NextIInv
<1>3. QED
  BY <1>1, <1>2, PTL DEF Spec

(***************************************************************************)
(* The variables of the block store stay in their types.                   *)
(***************************************************************************)
THEOREM TypeCorrect == Spec => []TypeOK
<1>1. IInv => TypeOK
  BY DEF IInv
<1>2. QED
  BY <1>1, IInvHolds, PTL

(***************************************************************************)
(* No key image is ever spent twice by the main chain, whatever blocks     *)
(* arrive, however reorganisations, their rollbacks, checkpoints, crashes  *)
(* and restarts interleave.                                                *)
(***************************************************************************)
THEOREM DoubleSpendNever == Spec => []NoDoubleSpend
<1>1. IInv => NoDoubleSpend
  BY DEF IInv
<1>2. QED
  BY <1>1, IInvHolds, PTL

(***************************************************************************)
(* While the node runs, m_transactionMap and m_spent_keys cover the whole  *)
(* main chain: pushBlock misses no spent key image, and popBlock finds     *)
(* every entry that it looks up with `at`.                                 *)
(***************************************************************************)
THEOREM IndexNeverMisses == Spec => []IndexCoversChain
<1>1. IInv => IndexCoversChain
  BY DEF IInv
<1>2. QED
  BY <1>1, IInvHolds, PTL

-----------------------------------------------------------------------------
(***************************************************************************)
(* Every way a block gets onto the main chain passes the checkpoints.      *)
(***************************************************************************)
LEMMA PushAcceptedChecks ==
  ASSUME ChainOK, DOMAIN m_points \subseteq Nat, NEW b \in Blocks, PushAccepted(b)
  PROVE  check_block(m_points, Len(m_blocks), Last(m_blocks'))
<1>1. Len(m_blocks) \in Nat
  BY LenProperties DEF ChainOK
<1>2. Last(m_blocks') = b
  <2>1. m_blocks' = Append(m_blocks, b) /\ m_blocks \in Seq(Blocks)
    BY DEF PushAccepted, ChainOK
  <2>2. Len(m_blocks') = Len(m_blocks) + 1 /\ m_blocks'[Len(m_blocks) + 1] = b
    BY <2>1, AppendProperties
  <2>3. QED
    BY SMTT(30), <2>2 DEF Last
<1>3. HeaderAccepted(b)
  BY DEF PushAccepted
<1>4. CASE isInCheckpointZone
  BY <1>2, <1>3, <1>4 DEF HeaderAccepted
<1>5. CASE ~ isInCheckpointZone
  <2>1. Len(m_blocks) \notin DOMAIN m_points
    BY <1>1, <1>5 DEF isInCheckpointZone, is_in_checkpoint_zone
  <2>2. QED
    BY <2>1 DEF check_block
<1>6. QED
  BY SMTT(30), <1>4, <1>5

LEMMA GrowsOnlyByPush ==
  ASSUME IInv, [Next]_vars, Len(m_blocks') > Len(m_blocks)
  PROVE  running /\ \E b \in Blocks : PushAccepted(b)
<1>1. m_blocks \in Seq(Blocks) /\ Len(m_blocks) \in Nat /\ m_blocks' # m_blocks
  BY SMTT(30), LenProperties DEF IInv, TypeOK
<1>2. CASE \E b \in Blocks \ {Genesis} : AddToMainChain(b) \/ AddAlternative(b)
  BY Zenon, <1>1, <1>2 DEF AddToMainChain, AddAlternative, Idle, PushRejected, PushNotLoaded,
                    PushBadHeader, PushUndone, PushOversize
<1>3. CASE DisconnectBlock \/ RollbackBlock
  <2>1. running /\ sw.pc \in {"disconnect", "rollback"} /\ popBlock
    BY <1>3 DEF DisconnectBlock, RollbackBlock, Switching
  <2>2. Len(m_blocks) > SplitHeight
    BY <2>1 DEF IInv, SwitchOK
  <2>3. Len(m_blocks) > 1
    BY <2>1, <2>2, SwitchFacts
  <2>4. Len(m_blocks') = Len(m_blocks) - 1
    BY <2>1, <2>3, IInvParts, PopKeepsChainOK
  <2>5. QED
    BY <1>1, <2>4
<1>4. CASE ConnectBlock
  <2>1. running /\ sw.pc = "connect" /\ PushAccepted(sw.alt[sw.next])
    BY SMTT(30), <1>4 DEF ConnectBlock, Switching
  <2>2. sw.next <= Len(sw.alt)
    BY <2>1 DEF IInv, SwitchOK
  <2>3. sw.next \in 1 .. Len(sw.alt)
    BY <2>1, <2>2, SwitchFacts
  <2>4. sw.alt[sw.next] \in Blocks
    BY <2>1, <2>3, SwitchFacts, ElementOfSeq
  <2>5. QED
    BY <2>1, <2>4
<1>5. CASE RestoreBlock
  <2>1. running /\ sw.pc = "restore" /\ PushAccepted(BlockToRestore)
    BY <1>5 DEF RestoreBlock, Switching
  <2>2. Len(m_blocks) >= SplitHeight /\ Len(m_blocks) < SplitHeight + Len(sw.old)
    BY <2>1 DEF IInv, SwitchOK
  <2>3. Len(m_blocks) - SplitHeight + 1 \in 1 .. Len(sw.old)
    BY <2>1, <2>2, SwitchFacts
  <2>4. BlockToRestore \in Blocks
    BY SMTT(30), <2>1, <2>3, SwitchFacts, ElementOfSeq DEF BlockToRestore
  <2>5. QED
    BY <2>1, <2>4
<1>6. CASE ConnectFails \/ RestorePanics
  BY <1>1, <1>6 DEF ConnectFails, RestorePanics, PushRejected, PushNotLoaded,
                    PushBadHeader, PushUndone, PushOversize
<1>7. CASE ReaddBlock \/ FinishSwitch
  BY <1>1, <1>7 DEF ReaddBlock, FinishSwitch
<1>8. CASE \E t \in Txs : ExpireTransaction(t) \/ \E k \in BOOLEAN : add_new_tx(t, k)
  BY <1>1, <1>8 DEF ExpireTransaction, add_new_tx
<1>9. CASE deinit \/ Crash \/ UNCHANGED vars
  BY <1>1, <1>9 DEF deinit, Crash, LoseMemory, vars
<1>10. CASE init
  <2>1. PICK points, size : /\ DOMAIN points \subseteq Nat
                            /\ size \in 1 .. HighestKept(points)
                            /\ m_blocks' = SubSeq(m_blocks, 1, size)
    <3>1. PICK records \in SUBSET DOMAIN DnsCheckpoints :
            \E size \in 1 .. HighestKept(WithCheckpoints(StaticCheckpoints,
                                                         Restrict(DnsCheckpoints, records))) :
              m_blocks' = SubSeq(m_blocks, 1, size)
      BY <1>10, Zenon DEF init
    <3> DEFINE points == WithCheckpoints(StaticCheckpoints, Restrict(DnsCheckpoints, records))
    <3>2. DOMAIN points = DOMAIN StaticCheckpoints \cup records
      BY DEF WithCheckpoints, Insert, Restrict
    <3>3. DOMAIN points \subseteq Nat
      BY Zenon, <3>2, BlockchainAssumption
    <3>4. QED
      BY <3>1, <3>3
  <2>2. HighestKept(points) \in Nat /\ HighestKept(points) <= Len(m_blocks)
    BY <2>1, HighestKeptBound
  <2>3. size \in 1 .. Len(m_blocks)
    BY <1>1, <2>1, <2>2
  <2>4. \A i \in 1 .. size : m_blocks[i] \in Blocks
    BY <1>1, <2>3, ElementOfSeq
  <2>5. Len(m_blocks') = size
    BY <1>1, <2>1, <2>3, <2>4, SubSeqProperties
  <2>6. QED
    BY <1>1, <2>3, <2>5
<1>11. QED
  BY SMTT(30), <1>2, <1>3, <1>4, <1>5, <1>6, <1>7, <1>8, <1>9, <1>10 DEF Next, SwitchStep

(***************************************************************************)
(* No push contradicts a checkpoint in force, in a reorganisation and in   *)
(* the restoration of the old chain too.                                   *)
(***************************************************************************)
THEOREM CheckpointsRespected == Spec => PushRespectsCheckpoints
<1>1. ASSUME IInv, [Next]_vars
      PROVE  [Len(m_blocks') > Len(m_blocks) =>
                check_block(m_points, Len(m_blocks), Last(m_blocks'))]_vars
  <2> SUFFICES ASSUME Len(m_blocks') > Len(m_blocks)
               PROVE  check_block(m_points, Len(m_blocks), Last(m_blocks'))
    OBVIOUS
  <2>1. running /\ \E b \in Blocks : PushAccepted(b)
    BY <1>1, GrowsOnlyByPush
  <2>2. QED
    BY <1>1, <2>1, IInvParts, PushAcceptedChecks
<1>2. QED
  BY <1>1, IInvHolds, PTL DEF Spec, PushRespectsCheckpoints
=============================================================================
