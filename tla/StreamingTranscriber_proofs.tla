--------------------- MODULE StreamingTranscriber_proofs ---------------------
(***************************************************************************)
(* The transcriber implements AudioWindows: whatever the blocks, the       *)
(* failures and the resets, the windows it encodes are those the audio     *)
(* alone determines.  The frame clock then follows the encoder's caches,   *)
(* the tokens follow the clock, and the chunks see what an offline pass    *)
(* over the whole utterance sees, but for the seam of the first two.       *)
(* Lookahead 0 is excluded: there next_start underflows after the first    *)
(* window, and finish leaves complete windows behind.                      *)
(***************************************************************************)
EXTENDS StreamingTranscriber, StreamingEncoder_proofs, WellFoundedInduction, TLAPS

AudioChunks == [start : Int, length : Int, center : BOOLEAN, frames : Nat, mel : Nat]

(* The queue holds the windows between what was consumed and the next cut,  *)
(* back to back, each where the audio puts it.                              *)
Placed(w) ==
    /\ w.mel \in Nat /\ (w.mel = 0 \/ w.mel >= FirstMelFrames)
    /\ w.start = Windows!StartOf(w.mel)
    /\ w.frames = Windows!FramesOf(w.mel)
    /\ w.length = Windows!EndOf(w.mel) - w.start
    /\ (w.center <=> w.mel = 0)

QueueInv ==
    /\ queue \in Seq(AudioChunks)
    /\ \A i \in 1..Len(queue) :
          /\ Placed(queue[i])
          /\ queue[i].mel >= encodedMel + skippedMel
          /\ queue[i].mel + queue[i].frames <= melFrameIndex
          /\ ~finished => audio >= Windows!EndOf(queue[i].mel)
    /\ \A i, j \in 1..Len(queue) : i < j => queue[i].mel + queue[i].frames <= queue[j].mel
    /\ \A i, j \in 1..Len(queue) : j = i + 1 => queue[i].mel + queue[i].frames = queue[j].mel
    /\ queue = <<>> => encodedMel + skippedMel = melFrameIndex
    /\ queue # <<>> => /\ queue[1].mel = encodedMel + skippedMel
                       /\ queue[Len(queue)].mel + queue[Len(queue)].frames = melFrameIndex

(* The next cut is where the audio puts it, and outside the scheduler's     *)
(* loop no window of an open session is complete.                           *)
CutInv ==
    /\ melFrameIndex = 0 \/ melFrameIndex >= FirstMelFrames
    /\ ~finished /\ melFrameIndex > 0 =>
          \/ melFrameIndex = FirstMelFrames /\ audio >= Windows!EndOf(0)
          \/ /\ melFrameIndex >= FirstMelFrames + SubsequentMelFrames
             /\ audio >= Windows!EndOf(melFrameIndex - SubsequentMelFrames)
    /\ pc # "scheduling" /\ ~finished => audio < Windows!EndOf(melFrameIndex)
    /\ finished => /\ pc # "scheduling" /\ Len(queue) <= 1
                   /\ queue # <<>> => audio > Windows!StartOf(queue[1].mel)
    /\ pc = "idle" => queue = <<>>

Types ==
    /\ audio \in Nat /\ melFrameIndex \in Nat /\ encodedMel \in Nat /\ skippedMel \in Nat
    /\ firstProcessed \in BOOLEAN /\ finished \in BOOLEAN
    /\ pc \in {"idle", "scheduling", "decoding"} /\ reply \in Outcomes
    /\ firstProcessed <=> melFrameIndex > 0
    /\ faults \in Seq({"encode", "decode"}) /\ Len(faults) <= MaxFaults

IInv == Types /\ QueueInv /\ CutInv

-----------------------------------------------------------------------------

(* The plan's sizes are positive, and one window is longer than the part    *)
(* of it that the next one repeats.                                         *)
LEMMA PlanFacts ==
    /\ Lookahead \in Nat
    /\ FirstMelFrames \in Nat \ {0} /\ SubsequentMelFrames \in Nat \ {0}
    /\ FirstMelFrames = 1 + 8 * Lookahead /\ SubsequentMelFrames = 8 * Lookahead + 8
BY LookaheadAssumption DEF FirstMelFrames, SubsequentMelFrames

(* The window the scheduler looks at next is the one AudioWindows puts at   *)
(* the next cut.                                                            *)
LEMMA NextWindowIsPlaced ==
    ASSUME Lookahead # 0, Types, CutInv
    PROVE  /\ ~Underflow
           /\ Placed(NextWindow) /\ NextWindow.mel = melFrameIndex
           /\ NextWindow.frames \in Nat \ {0}
           /\ NextWindow \in AudioChunks
           /\ NextWindow.start + NextWindow.length = Windows!EndOf(melFrameIndex)
           /\ melFrameIndex + NextWindow.frames >= FirstMelFrames
<1> DEFINE w == NextWindow
<1>1. CASE melFrameIndex = 0
  <2>1. w = [start |-> 0, length |-> FirstAudioSamples, center |-> TRUE,
             frames |-> FirstMelFrames, mel |-> 0]
    BY <1>1 DEF Types, NextWindow, FirstWindow, Window
  <2>2. /\ w.mel = 0 /\ w.start = 0 /\ w.frames = FirstMelFrames /\ w.center = TRUE
        /\ w.length = (FirstMelFrames - 1) * 160 + 200
    BY <2>1 DEF FirstAudioSamples
  <2>3. Placed(w)
    BY <2>2, PlanFacts DEF Placed, Windows!StartOf, Windows!EndOf, Windows!FramesOf
  <2>4. w \in AudioChunks
    BY <2>1, PlanFacts DEF FirstAudioSamples, AudioChunks
  <2> QED BY <1>1, <2>2, <2>3, <2>4, PlanFacts DEF Types, Underflow, Windows!EndOf
<1>2. CASE melFrameIndex # 0
  <2>1. melFrameIndex \in Nat /\ firstProcessed /\ melFrameIndex >= FirstMelFrames /\ FirstMelFrames >= 25
    BY <1>2, PlanFacts, LookaheadAssumption DEF Types, CutInv
  <2>2. NextStart = melFrameIndex * 160 - 256 /\ NextStart >= 0
    BY <2>1, PlanFacts DEF NextStart
  <2>3. w = [start |-> NextStart, length |-> SubsequentAudioSamples, center |-> FALSE,
             frames |-> SubsequentMelFrames, mel |-> melFrameIndex]
    BY <2>1 DEF NextWindow, SubsequentWindow, Window
  <2>4. /\ w.mel = melFrameIndex /\ w.start = melFrameIndex * 160 - 256
        /\ w.frames = SubsequentMelFrames /\ w.center = FALSE
        /\ w.length = SubsequentMelFrames * 160 + 400
    BY <2>2, <2>3 DEF SubsequentAudioSamples
  <2>5. Placed(w)
    BY <1>2, <2>1, <2>4, PlanFacts DEF Placed, Windows!StartOf, Windows!EndOf, Windows!FramesOf
  <2>6. w \in AudioChunks
    BY <2>1, <2>2, <2>3, PlanFacts DEF SubsequentAudioSamples, AudioChunks
  <2> QED BY <1>2, <2>1, <2>2, <2>4, <2>5, <2>6, PlanFacts DEF Underflow, Windows!StartOf, Windows!EndOf
<1> QED BY <1>1, <1>2

(* Types, the queue and the cut are as they should be at the start.         *)
LEMMA InitIInv == Init => IInv
<1> SUFFICES ASSUME Init PROVE IInv OBVIOUS
<1>0. faults \in Seq({"encode", "decode"}) /\ Len(faults) = 0
  <2>1. faults = <<>> BY DEF Init
  <2>2. <<>> \in Seq({"encode", "decode"}) OBVIOUS
  <2> QED BY <2>1, <2>2
<1>1. Types
  <2>1. MaxFaults \in Nat BY BlockAssumption
  <2>2. Len(faults) <= MaxFaults BY <2>1, <1>0
  <2>3. /\ audio = 0 /\ melFrameIndex = 0 /\ encodedMel = 0 /\ skippedMel = 0
        /\ ~firstProcessed /\ ~finished
    BY DEF Init
  <2>4. pc = "idle" /\ reply = "none" /\ firstProcessed \in BOOLEAN /\ finished \in BOOLEAN
    BY DEF Init
  <2> QED BY <1>0, <2>2, <2>3, <2>4 DEF Types, Outcomes
<1>2. QueueInv BY DEF Init, QueueInv
<1>3. CutInv BY PlanFacts DEF Init, CutInv, Windows!EndOf
<1> QED BY <1>1, <1>2, <1>3 DEF IInv

(* Appending samples to an open session moves no window.                    *)
LEMMA PushIInv ==
    ASSUME IInv, NEW n \in Blocks, Push(n) PROVE IInv'
<1> USE BlockAssumption
<1>1. n \in Nat OBVIOUS
<1>2. CASE finished
  BY <1>2 DEF IInv, Push, Types, QueueInv, CutInv, Placed, Outcomes, transcriber, ghosts
<1>3. CASE ~finished
  <2>1. audio' = audio + n /\ pc' = "scheduling" /\ reply' = "none" /\ pc = "idle"
        /\ UNCHANGED <<firstProcessed, melFrameIndex, finished, queue, encodedMel, skippedMel, faults>>
    BY <1>3 DEF Push, ghosts
  <2>2. Types' BY <1>1, <2>1 DEF IInv, Types, Outcomes
  <2>3. queue = <<>> BY <2>1 DEF IInv, CutInv
  <2>4. QueueInv' BY <2>1, <2>3 DEF IInv, QueueInv
  <2>5. Windows!EndOf(0) \in Int /\ Windows!EndOf(melFrameIndex - SubsequentMelFrames) \in Int
    BY PlanFacts DEF IInv, Types, Windows!EndOf, Windows!StartOf
  <2>6. CutInv' BY <1>1, <1>3, <2>1, <2>3, <2>5 DEF IInv, Types, CutInv
  <2> QED BY <2>2, <2>4, <2>6 DEF IInv
<1> QED BY <1>2, <1>3 DEF IInv, Types

(* Cutting a window puts it at the end of the queue and moves the cut to    *)
(* where it ends.                                                           *)
LEMMA CutWindowIInv ==
    ASSUME Lookahead # 0, IInv, CutWindow PROVE IInv'
<1> DEFINE w == NextWindow  n == Len(queue)
<1>1. /\ pc = "scheduling" /\ queue' = Append(queue, w) /\ firstProcessed' = TRUE
      /\ melFrameIndex' = melFrameIndex + w.frames /\ audio >= w.start + w.length
      /\ UNCHANGED <<audio, finished, pc, reply, encodedMel, skippedMel, faults>>
  BY DEF CutWindow, IsComplete, ghosts
<1>2. /\ Placed(w) /\ w.mel = melFrameIndex /\ w.frames \in Nat \ {0}
      /\ w \in AudioChunks
      /\ w.start + w.length = Windows!EndOf(melFrameIndex)
      /\ melFrameIndex + w.frames >= FirstMelFrames
      /\ w.frames = Windows!FramesOf(melFrameIndex)
  BY NextWindowIsPlaced DEF IInv, Placed
<1> HIDE DEF w
<1>3. Types' BY <1>1, <1>2 DEF IInv, Types
<1>4. ~finished BY <1>1 DEF IInv, CutInv
<1>5. QueueInv'
  <2>1. n \in Nat /\ queue \in Seq(AudioChunks) BY DEF IInv, QueueInv
  <2>2. Len(queue') = n + 1 /\ queue'[n + 1] = w /\ queue' # <<>>
    BY <1>1, <1>2, <2>1
  <2>3. \A i \in 1..n : queue'[i] = queue[i] BY <1>1, <1>2, <2>1
  <2>4. queue' \in Seq(AudioChunks) BY <1>1, <1>2, <2>1
  <2>5. \A i \in 1..n : queue[i].mel \in Nat /\ queue[i].frames \in Nat
    <3>1. \A i \in 1..n : queue[i] \in AudioChunks BY <2>1
    <3> QED BY <3>1 DEF AudioChunks
  <2> HIDE DEF n
  <2>6. \A i \in 1..(n + 1) : i \in 1..n \/ i = n + 1 BY <2>1
  <2>7. encodedMel + skippedMel <= melFrameIndex
    <3>1. CASE queue = <<>> BY <3>1 DEF IInv, QueueInv, Types
    <3>2. CASE queue # <<>>
      <4>1. 1 \in 1..n BY <2>1, <3>2 DEF n
      <4>2. queue[1].mel = encodedMel + skippedMel /\ queue[1].mel + queue[1].frames <= melFrameIndex
        BY <4>1, <3>2 DEF IInv, QueueInv, n
      <4> QED BY <4>1, <4>2, <2>5 DEF IInv, Types
    <3> QED BY <3>1, <3>2
  <2>8. ASSUME NEW i \in 1..(n + 1)
        PROVE  /\ Placed(queue'[i])
               /\ queue'[i].mel >= encodedMel + skippedMel
               /\ queue'[i].mel + queue'[i].frames <= melFrameIndex'
               /\ audio >= Windows!EndOf(queue'[i].mel)
    <3>1. CASE i = n + 1 BY <3>1, <2>2, <2>7, <1>1, <1>2 DEF IInv, Types
    <3>2. CASE i \in 1..n
      <4>1. /\ Placed(queue[i]) /\ queue[i].mel >= encodedMel + skippedMel
            /\ queue[i].mel + queue[i].frames <= melFrameIndex
            /\ audio >= Windows!EndOf(queue[i].mel)
        BY <3>2, <1>4 DEF IInv, QueueInv, n
      <4>2. melFrameIndex \in Nat /\ w.frames \in Nat /\ melFrameIndex' = melFrameIndex + w.frames
        BY <1>1, <1>2 DEF IInv, Types
      <4>3. queue'[i] = queue[i] /\ queue[i].mel \in Nat /\ queue[i].frames \in Nat
        BY <3>2, <2>3, <2>5
      <4>4. Placed(queue'[i]) BY <4>1, <4>3
      <4> QED BY <4>1, <4>2, <4>3, <4>4
    <3> QED BY <3>1, <3>2, <2>6
  <2>9. ASSUME NEW i \in 1..(n + 1), NEW j \in 1..(n + 1), i < j
        PROVE  /\ queue'[i].mel + queue'[i].frames <= queue'[j].mel
               /\ j = i + 1 => queue'[i].mel + queue'[i].frames = queue'[j].mel
    <3>1. i \in 1..n BY <2>1, <2>9
    <3>2. CASE j = n + 1
      <4>1. queue[i].mel + queue[i].frames <= melFrameIndex
        BY <3>1 DEF IInv, QueueInv, n
      <4>2. ASSUME j = i + 1 PROVE queue[i].mel + queue[i].frames = melFrameIndex
        <5>1. i = n /\ n >= 1 BY <4>2, <3>1, <3>2, <2>1
        <5>2. queue # <<>> BY <5>1 DEF n
        <5> QED BY <5>1, <5>2 DEF IInv, QueueInv, n
      <4> QED BY <3>1, <3>2, <4>1, <4>2, <2>2, <2>3, <1>2
    <3>3. CASE j \in 1..n
      <4>1. /\ queue[i].mel + queue[i].frames <= queue[j].mel
            /\ j = i + 1 => queue[i].mel + queue[i].frames = queue[j].mel
        BY <3>1, <3>3, <2>9 DEF IInv, QueueInv, n
      <4> QED BY <4>1, <3>1, <3>3, <2>3
    <3> QED BY <3>2, <3>3, <2>6
  <2>10. queue'[1].mel = encodedMel + skippedMel
    <3>1. CASE n = 0
      <4>1. queue = <<>> BY <3>1, <2>1 DEF n
      <4> QED BY <4>1, <3>1, <2>2, <1>2 DEF IInv, QueueInv
    <3>2. CASE n # 0
      <4>1. 1 \in 1..n BY <3>2, <2>1
      <4>2. queue # <<>> BY <4>1 DEF n
      <4> QED BY <4>1, <4>2, <2>3 DEF IInv, QueueInv
    <3> QED BY <3>1, <3>2
  <2>11. queue'[n + 1].mel + queue'[n + 1].frames = melFrameIndex' BY <2>2, <1>1, <1>2
  <2>12. \A i, j \in 1..(n + 1) : j = i + 1 => i < j BY <2>1
  <2> QED BY <1>1, <2>2, <2>4, <2>8, <2>9, <2>10, <2>11, <2>12 DEF QueueInv
<1>6. CutInv'
  <2>1. \/ melFrameIndex = 0 /\ w.frames = FirstMelFrames
        \/ melFrameIndex >= FirstMelFrames /\ w.frames = SubsequentMelFrames
    BY <1>2, PlanFacts DEF IInv, CutInv, Windows!FramesOf
  <2>2. audio >= Windows!EndOf(melFrameIndex) BY <1>1, <1>2
  <2> QED BY <1>1, <1>2, <1>4, <2>1, <2>2, PlanFacts DEF IInv, CutInv, Types
<1> QED BY <1>3, <1>5, <1>6 DEF IInv

(* What the invariant says of the window that is decoded next.              *)
LEMMA ChunkFacts ==
    ASSUME IInv, queue # <<>>
    PROVE  /\ Len(queue) \in Nat \ {0} /\ 1 \in 1..Len(queue)
           /\ Chunk = queue[1] /\ Chunk.mel = encodedMel + skippedMel
           /\ Chunk.frames = Windows!FramesOf(Chunk.mel)
           /\ Chunk.frames \in Nat \ {0}
           /\ Chunk.mel + Chunk.frames <= melFrameIndex
           /\ ~finished => audio >= Windows!EndOf(Chunk.mel)
           /\ Len(queue) = 1 <=> Chunk.mel + Chunk.frames = melFrameIndex
<1> DEFINE n == Len(queue)
<1>1. n \in Nat \ {0} /\ queue \in Seq(AudioChunks) BY DEF IInv, QueueInv
<1>2. 1 \in 1..n /\ n \in 1..n /\ (n # 1 => 1 < n)
  <2>1. \A k \in Nat \ {0} : 1 \in 1..k /\ k \in 1..k /\ (k # 1 => 1 < k) OBVIOUS
  <2> QED BY <1>1, <2>1
<1>3. Chunk = queue[1] BY <1>1 DEF Chunk
<1>4. /\ \A i \in 1..n : queue[i] \in AudioChunks
      /\ \A i \in 1..n : queue[i].mel \in Nat /\ queue[i].frames \in Nat
  <2>1. \A i \in 1..n : queue[i] \in AudioChunks BY <1>1
  <2> QED BY <2>1 DEF AudioChunks
<1>5. /\ Placed(queue[1]) /\ queue[1].mel = encodedMel + skippedMel
      /\ queue[1].mel + queue[1].frames <= melFrameIndex
      /\ ~finished => audio >= Windows!EndOf(queue[1].mel)
      /\ Placed(queue[n])
      /\ queue[n].mel + queue[n].frames = melFrameIndex
      /\ n # 1 => queue[1].mel + queue[1].frames <= queue[n].mel
  <2> USE DEF IInv, QueueInv
  <2>1. /\ Placed(queue[1]) /\ queue[1].mel + queue[1].frames <= melFrameIndex
        /\ ~finished => audio >= Windows!EndOf(queue[1].mel)
        /\ Placed(queue[n])
    BY <1>2
  <2>2. n # 1 => queue[1].mel + queue[1].frames <= queue[n].mel
    BY <1>2
  <2> QED BY <2>1, <2>2
<1>6. /\ queue[1].frames = Windows!FramesOf(queue[1].mel)
      /\ queue[n].frames = Windows!FramesOf(queue[n].mel)
  BY <1>5 DEF Placed
<1>7. queue[1].frames \in Nat \ {0} /\ queue[n].frames \in Nat \ {0}
  BY <1>6, PlanFacts DEF Windows!FramesOf
<1>8. n = 1 <=> queue[1].mel + queue[1].frames = melFrameIndex
  <2>1. CASE n = 1 BY <2>1, <1>5
  <2>2. CASE n # 1
    <3>1. /\ queue[n].mel + queue[n].frames = melFrameIndex
          /\ queue[1].mel + queue[1].frames <= queue[n].mel
      BY <2>2, <1>5
    <3>2. queue[n].mel \in Nat /\ queue[1].mel \in Nat BY <1>2, <1>4
    <3> QED BY <2>2, <3>1, <3>2, <1>7
  <2> QED BY <2>1, <2>2
<1> QED BY <1>1, <1>2, <1>3, <1>5, <1>6, <1>7, <1>8

(* A window that the encoder has consumed leaves the queue.                 *)
LEMMA ConsumeIInv ==
    ASSUME IInv, queue # <<>>, queue' = Tail(queue),
           encodedMel' = encodedMel + Chunk.frames,
           UNCHANGED <<audio, melFrameIndex, finished, skippedMel>>
    PROVE  QueueInv' /\ Len(queue') = Len(queue) - 1
<1> DEFINE n == Len(queue)
<1>1. n \in Nat \ {0} /\ queue \in Seq(AudioChunks) BY DEF IInv, QueueInv
<1>2. /\ queue' \in Seq(AudioChunks) /\ Len(queue') = n - 1
      /\ queue' = <<>> <=> Len(queue') = 0
      /\ \A i \in 1..(n - 1) : queue'[i] = queue[i + 1] /\ i + 1 \in 1..n
  <2>1. /\ queue' \in Seq(AudioChunks) /\ Len(queue') = n - 1
        /\ \A i \in 1..(n - 1) : queue'[i] = queue[i + 1] /\ i + 1 \in 1..n
    BY <1>1
  <2>2. \A q \in Seq(AudioChunks) : q = <<>> <=> Len(q) = 0 OBVIOUS
  <2> QED BY <2>1, <2>2
<1>3. \A i \in 1..n : queue[i].mel \in Nat /\ queue[i].frames \in Nat
  <2>1. \A i \in 1..n : queue[i] \in AudioChunks BY <1>1
  <2> QED BY <2>1 DEF AudioChunks
<1>4. /\ encodedMel' + skippedMel' = queue[1].mel + queue[1].frames
      /\ 1 \in 1..n /\ n \in 1..n
      /\ n = 1 <=> encodedMel' + skippedMel' = melFrameIndex
  BY ChunkFacts, SMTT(30) DEF IInv, Types
<1>5. \A i \in 1..n :
        /\ Placed(queue[i])
        /\ queue[i].mel + queue[i].frames <= melFrameIndex
        /\ ~finished => audio >= Windows!EndOf(queue[i].mel)
        /\ i > 1 => queue[1].mel + queue[1].frames <= queue[i].mel
  BY <1>4 DEF IInv, QueueInv
<1>6. \A i, j \in 1..n : i < j => queue[i].mel + queue[i].frames <= queue[j].mel
  BY DEF IInv, QueueInv
<1>7. \A i, j \in 1..n : j = i + 1 => queue[i].mel + queue[i].frames = queue[j].mel
  BY DEF IInv, QueueInv
<1>8. queue[n].mel + queue[n].frames = melFrameIndex BY DEF IInv, QueueInv
<1> HIDE DEF n
<1>9. ASSUME NEW i \in 1..(n - 1)
      PROVE  /\ Placed(queue'[i])
             /\ queue'[i].mel >= encodedMel' + skippedMel'
             /\ queue'[i].mel + queue'[i].frames <= melFrameIndex'
             /\ ~finished' => audio' >= Windows!EndOf(queue'[i].mel)
  <2>1. queue'[i] = queue[i + 1] /\ i + 1 \in 1..n /\ i + 1 > 1 BY <1>1, <1>2
  <2> QED BY <2>1, <1>3, <1>4, <1>5
<1>10. ASSUME NEW i \in 1..(n - 1), NEW j \in 1..(n - 1)
       PROVE  /\ i < j => queue'[i].mel + queue'[i].frames <= queue'[j].mel
              /\ j = i + 1 => queue'[i].mel + queue'[i].frames = queue'[j].mel
  <2>1. queue'[i] = queue[i + 1] /\ i + 1 \in 1..n /\ queue'[j] = queue[j + 1] /\ j + 1 \in 1..n
    BY <1>2
  <2>2. (i < j => i + 1 < j + 1) /\ (j = i + 1 => j + 1 = (i + 1) + 1) BY <1>1
  <2> QED BY <2>1, <2>2, <1>6, <1>7
<1>11. queue' = <<>> => encodedMel' + skippedMel' = melFrameIndex'
  <2>1. queue' = <<>> <=> n = 1 BY <1>1, <1>2
  <2>2. UNCHANGED melFrameIndex OBVIOUS
  <2> QED BY <2>1, <2>2, <1>4
<1>12. queue' # <<>> => /\ queue'[1].mel = encodedMel' + skippedMel'
                        /\ queue'[n - 1].mel + queue'[n - 1].frames = melFrameIndex'
  <2> SUFFICES ASSUME queue' # <<>>
               PROVE  /\ queue'[1].mel = encodedMel' + skippedMel'
                      /\ queue'[n - 1].mel + queue'[n - 1].frames = melFrameIndex'
    OBVIOUS
  <2>1. n - 1 # 0 BY <1>2
  <2>2. 1 \in 1..(n - 1) /\ n - 1 \in 1..(n - 1) /\ 1 + 1 = 2 /\ (n - 1) + 1 = n /\ 2 \in 1..n
    BY <2>1, <1>1
  <2>3. queue'[1] = queue[2] /\ queue'[n - 1] = queue[n] BY <2>2, <1>2
  <2>4. queue[1].mel + queue[1].frames = queue[2].mel BY <2>2, <1>4, <1>7
  <2> QED BY <2>3, <2>4, <1>4, <1>8
<1>13. Len(queue') = n - 1 /\ queue' \in Seq(AudioChunks) BY <1>2
<1>14. \A i \in 1..Len(queue') :
          /\ Placed(queue'[i])
          /\ queue'[i].mel >= encodedMel' + skippedMel'
          /\ queue'[i].mel + queue'[i].frames <= melFrameIndex'
          /\ ~finished' => audio' >= Windows!EndOf(queue'[i].mel)
  BY <1>9, <1>13
<1>15. \A i, j \in 1..Len(queue') :
          /\ i < j => queue'[i].mel + queue'[i].frames <= queue'[j].mel
          /\ j = i + 1 => queue'[i].mel + queue'[i].frames = queue'[j].mel
  BY <1>10, <1>13
<1>16. queue' # <<>> => /\ queue'[1].mel = encodedMel' + skippedMel'
                        /\ queue'[Len(queue')].mel + queue'[Len(queue')].frames = melFrameIndex'
  BY <1>12, <1>13
<1>17. QueueInv' BY <1>11, <1>13, <1>14, <1>15, <1>16 DEF QueueInv
<1> QED BY <1>13, <1>17 DEF n

(* The scheduler's loop ends when no window is complete: an underflow of    *)
(* next_start is impossible with a lookahead.                               *)
LEMMA CutIsDoneIInv ==
    ASSUME Lookahead # 0, IInv, CutIsDone PROVE IInv'
<1>1. /\ pc = "scheduling" /\ pc' = "decoding" /\ ~IsComplete(NextWindow)
      /\ UNCHANGED <<audio, firstProcessed, melFrameIndex, finished, queue, reply,
                     encodedMel, skippedMel, faults>>
  <2>1. ~Underflow BY NextWindowIsPlaced DEF IInv
  <2> QED BY <2>1 DEF CutIsDone, scheduler
<1>2. NextWindow.start + NextWindow.length = Windows!EndOf(melFrameIndex)
      /\ NextWindow.start \in Int /\ NextWindow.length \in Int
  BY NextWindowIsPlaced DEF IInv, AudioChunks
<1>3. audio < Windows!EndOf(melFrameIndex)
  BY <1>1, <1>2 DEF IsComplete, IInv, Types
<1>4. Types' BY <1>1 DEF IInv, Types
<1>5. QueueInv' BY <1>1 DEF IInv, QueueInv
<1>6. CutInv' BY <1>1, <1>3 DEF IInv, CutInv
<1> QED BY <1>4, <1>5, <1>6 DEF IInv

(* finish closes the session and queues at most the window that pads.       *)
LEMMA FinishIInv ==
    ASSUME Lookahead # 0, IInv, Finish PROVE IInv'
<1> DEFINE w == NextWindow
<1>1. /\ Placed(w) /\ w.mel = melFrameIndex /\ w.frames \in Nat \ {0} /\ ~Underflow
      /\ w \in AudioChunks
      /\ melFrameIndex + w.frames >= FirstMelFrames
      /\ w.start = Windows!StartOf(melFrameIndex)
  BY NextWindowIsPlaced DEF IInv, Placed
<1>2. pc = "idle" /\ queue = <<>> BY DEF Finish, IInv, CutInv
<1>3. UNCHANGED <<encodedMel, skippedMel, faults>> BY DEF Finish, ghosts
<1>4. CASE finished
  <2>1. UNCHANGED <<audio, firstProcessed, melFrameIndex, finished, pc, queue>> /\ reply' = "closed"
    BY <1>4 DEF Finish, scheduler
  <2>2. Types' BY <1>3, <2>1 DEF IInv, Types, Outcomes
  <2>3. QueueInv' BY <1>3, <2>1 DEF IInv, QueueInv
  <2>4. CutInv' BY <2>1 DEF IInv, CutInv
  <2> QED BY <2>2, <2>3, <2>4 DEF IInv
<1>5. CASE ~finished /\ ~(audio > w.start)
  <2>1. /\ finished' = TRUE /\ reply' = "none" /\ pc' = "decoding"
        /\ UNCHANGED <<audio, firstProcessed, melFrameIndex, queue>>
    BY <1>1, <1>5 DEF Finish
  <2>2. Types' BY <1>3, <2>1 DEF IInv, Types, Outcomes
  <2>3. QueueInv' BY <1>2, <1>3, <2>1 DEF IInv, QueueInv
  <2>4. CutInv' BY <1>2, <2>1 DEF IInv, CutInv
  <2> QED BY <2>2, <2>3, <2>4 DEF IInv
<1>6. CASE ~finished /\ audio > w.start
  <2>1. /\ finished' = TRUE /\ reply' = "none" /\ pc' = "decoding" /\ audio' = audio
        /\ queue' = <<w>> /\ firstProcessed' = TRUE /\ melFrameIndex' = melFrameIndex + w.frames
    BY <1>1, <1>6 DEF Finish
  <2> HIDE DEF w
  <2>2. Types' BY <1>1, <1>3, <2>1 DEF IInv, Types, Outcomes
  <2>3. queue' \in Seq(AudioChunks) /\ Len(queue') = 1 /\ queue'[1] = w /\ queue' # <<>>
    BY <1>1, <2>1
  <2>4. encodedMel + skippedMel = melFrameIndex /\ melFrameIndex \in Nat
    BY <1>2 DEF IInv, QueueInv, Types
  <2>5. QueueInv'
    <3>1. \A i \in 1..Len(queue') :
            /\ Placed(queue'[i])
            /\ queue'[i].mel >= encodedMel' + skippedMel'
            /\ queue'[i].mel + queue'[i].frames <= melFrameIndex'
            /\ ~finished' => audio' >= Windows!EndOf(queue'[i].mel)
      <4> SUFFICES /\ Placed(w) /\ w.mel >= encodedMel' + skippedMel'
                   /\ w.mel + w.frames <= melFrameIndex' /\ finished'
        BY <2>3
      <4> QED BY <1>1, <1>3, <2>1, <2>4
    <3>2. \A i, j \in 1..Len(queue') : ~(i < j) /\ ~(j = i + 1) BY <2>3
    <3>3. /\ queue'[1].mel = encodedMel' + skippedMel'
          /\ queue'[Len(queue')].mel + queue'[Len(queue')].frames = melFrameIndex'
      BY <1>1, <1>3, <2>1, <2>3, <2>4
    <3> QED BY <2>3, <3>1, <3>2, <3>3 DEF QueueInv
  <2>6. CutInv' BY <1>1, <1>6, <2>1, <2>3, <2>4, PlanFacts DEF IInv, CutInv
  <2> QED BY <2>2, <2>5, <2>6 DEF IInv
<1> QED BY <1>4, <1>5, <1>6

(* Types of what a failed or a completed chunk leaves.                      *)
LEMMA FaultTypes ==
    ASSUME IInv, NEW kind \in {"encode", "decode"}, CallFails(kind)
    PROVE  /\ faults' \in Seq({"encode", "decode"}) /\ Len(faults') <= MaxFaults
           /\ pc' = "idle" /\ queue' = <<>> /\ reply' = "failed"
           /\ queue # <<>> /\ pc = "decoding"
           /\ UNCHANGED <<audio, firstProcessed, melFrameIndex, finished>>
<1>1. MaxFaults \in Nat BY BlockAssumption
<1>2. /\ faults \in Seq({"encode", "decode"}) /\ Len(faults) < MaxFaults
      /\ faults' = Append(faults, kind)
  BY DEF IInv, Types, CallFails
<1>3. faults' \in Seq({"encode", "decode"}) /\ Len(faults') = Len(faults) + 1 /\ Len(faults) \in Nat
  BY <1>2
<1>4. Len(faults') <= MaxFaults BY <1>1, <1>2, <1>3
<1> QED BY <1>3, <1>4 DEF CallFails, scheduler

(* A failure empties the queue and counts everything not consumed as lost.  *)
LEMMA FaultIInv ==
    ASSUME IInv, NEW kind \in {"encode", "decode"}, CallFails(kind),
           encodedMel' \in Nat, encodedMel' <= melFrameIndex,
           skippedMel' = melFrameIndex - encodedMel'
    PROVE  IInv'
<1>1. skippedMel' \in Nat /\ encodedMel' + skippedMel' = melFrameIndex' /\ melFrameIndex' \in Nat
  <2>1. melFrameIndex' = melFrameIndex BY FaultTypes
  <2>2. melFrameIndex \in Nat BY DEF IInv, Types
  <2>3. \A m, e \in Nat : e <= m => m - e \in Nat /\ e + (m - e) = m OBVIOUS
  <2> QED BY <2>1, <2>2, <2>3
<1>2. Types' BY <1>1, FaultTypes DEF IInv, Types, Outcomes
<1>3. queue' = <<>> /\ queue' \in Seq(AudioChunks) /\ Len(queue') = 0
  <2>1. <<>> \in Seq(AudioChunks) /\ Len(<<>>) = 0 OBVIOUS
  <2> QED BY <2>1, FaultTypes
<1>4. QueueInv' BY <1>1, <1>3 DEF QueueInv
<1>5. CutInv' BY <1>3, FaultTypes DEF IInv, CutInv
<1> QED BY <1>2, <1>4, <1>5 DEF IInv

(* A chunk that is decoded leaves the queue, the cut stays.                 *)
LEMMA DecodeChunkIInv ==
    ASSUME IInv, NEW pattern \in ScorePatterns, DecodeChunk(pattern) PROVE IInv'
<1>1. /\ queue # <<>> /\ queue' = Tail(queue) /\ encodedMel' = encodedMel + Chunk.frames
      /\ pc = "decoding"
      /\ UNCHANGED <<audio, firstProcessed, melFrameIndex, finished, skippedMel, pc, reply, faults>>
  BY DEF DecodeChunk, scheduler
<1>2. QueueInv' /\ Len(queue') = Len(queue) - 1 BY <1>1, ConsumeIInv
<1>3. Types' BY <1>1, ChunkFacts, SMTT(30) DEF IInv, Types
<1>4. CutInv'
  <2>1. Len(queue) \in Nat BY <1>1, ChunkFacts
  <2>2. finished => Len(queue') <= 0 BY <1>2, <2>1 DEF IInv, CutInv
  <2>3. finished => queue' = <<>>
    <3>1. queue' \in Seq(AudioChunks) /\ Len(queue') \in Nat BY <1>2 DEF QueueInv
    <3>2. \A q \in Seq(AudioChunks) : Len(q) = 0 => q = <<>> OBVIOUS
    <3>3. finished => Len(queue') = 0 BY <2>2, <3>1
    <3> QED BY <3>1, <3>2, <3>3
  <2> QED BY <1>1, <2>2, <2>3 DEF IInv, CutInv
<1> QED BY <1>2, <1>3, <1>4 DEF IInv

(* Every step keeps the invariant.                                          *)
LEMMA StepIInv == Lookahead # 0 /\ IInv /\ [Next]_vars => IInv'
<1> SUFFICES ASSUME Lookahead # 0, IInv, [Next]_vars PROVE IInv' OBVIOUS
<1>1. ASSUME NEW n \in Blocks, Push(n) PROVE IInv' BY <1>1, PushIInv
<1>2. CASE Finish BY <1>2, FinishIInv
<1>3. CASE Reset
  <2>0. faults' = <<>> /\ audio' = 0 /\ melFrameIndex' = 0 /\ ~firstProcessed' /\ ~finished'
        /\ firstProcessed' \in BOOLEAN /\ finished' \in BOOLEAN
        /\ encodedMel' = 0 /\ skippedMel' = 0 /\ reply' = "none"
    BY <1>3 DEF Reset, ResetScheduler
  <2>1. IInv => queue' = <<>> /\ pc' = "idle" BY <1>3 DEF Reset, ResetScheduler, IInv, CutInv
  <2>2. <<>> \in Seq({"encode", "decode"}) /\ Len(<<>>) = 0 /\ 0 <= MaxFaults BY BlockAssumption
  <2>3. Types' BY <2>0, <2>1, <2>2 DEF Types, Outcomes
  <2>4. QueueInv' BY <1>3, <2>1 DEF Reset, ResetScheduler, QueueInv
  <2>5. CutInv' BY <1>3, <2>1, PlanFacts DEF Reset, ResetScheduler, CutInv, Windows!EndOf
  <2> QED BY <2>3, <2>4, <2>5 DEF IInv
<1>4. CASE CutWindow BY <1>4, CutWindowIInv
<1>6. CASE CutIsDone BY <1>6, CutIsDoneIInv
<1>7. CASE Return
  <2>1. /\ pc' = "idle" /\ reply' = "ok" /\ queue = <<>> /\ pc = "decoding"
        /\ UNCHANGED <<audio, firstProcessed, melFrameIndex, finished, queue,
                       encodedMel, skippedMel, faults>>
    BY <1>7 DEF Return, scheduler, ghosts
  <2>2. Types' BY <2>1 DEF IInv, Types, Outcomes
  <2>3. QueueInv' BY <2>1 DEF IInv, QueueInv
  <2>4. CutInv' BY <2>1 DEF IInv, CutInv
  <2> QED BY <2>2, <2>3, <2>4 DEF IInv
<1>8. ASSUME NEW pattern \in ScorePatterns, DecodeChunk(pattern) PROVE IInv'
  BY <1>8, DecodeChunkIInv
<1>9. ASSUME NEW done \in 0..CacheUpdates, EncodeFails(done) PROVE IInv'
  <2>1. CallFails("encode") /\ encodedMel' = encodedMel /\ skippedMel' = melFrameIndex - encodedMel
    BY <1>9 DEF EncodeFails
  <2>2. queue # <<>> BY <2>1 DEF CallFails
  <2>3. encodedMel \in Nat /\ encodedMel <= melFrameIndex
    BY <2>2, ChunkFacts DEF IInv, Types
  <2> QED BY <2>1, <2>3, FaultIInv
<1>10. ASSUME NEW pattern \in ScorePatterns, NEW steps \in 0..(EncoderFramesPerChunk * MaxSymbolsPerStep),
              NEW partial \in 0..2, DecodeFails(pattern, steps, partial)
       PROVE  IInv'
  <2>1. /\ CallFails("decode") /\ encodedMel' = encodedMel + Chunk.frames
        /\ skippedMel' = melFrameIndex - encodedMel'
    BY <1>10 DEF DecodeFails
  <2>2. queue # <<>> BY <2>1 DEF CallFails
  <2>3. encodedMel' \in Nat /\ encodedMel' <= melFrameIndex
    <3>1. /\ {encodedMel, skippedMel, melFrameIndex} \subseteq Nat
          /\ Chunk.frames \in Nat /\ encodedMel' = encodedMel + Chunk.frames
      BY <2>1, <2>2, ChunkFacts DEF IInv, Types
    <3>2. encodedMel + skippedMel + Chunk.frames <= melFrameIndex
      BY <2>2, ChunkFacts
    <3> QED BY <3>1, <3>2
  <2> QED BY <2>1, <2>3, FaultIInv
<1>11. CASE UNCHANGED vars
  <2>1. UNCHANGED <<audio, firstProcessed, melFrameIndex, finished, pc, queue, reply,
                    encodedMel, skippedMel, faults>>
    BY <1>11 DEF vars, scheduler, ghosts
  <2>2. Types' BY <2>1 DEF IInv, Types
  <2>3. QueueInv' BY <2>1 DEF IInv, QueueInv
  <2>4. CutInv' BY <2>1 DEF IInv, CutInv
  <2> QED BY <2>2, <2>3, <2>4 DEF IInv
<1> QED BY <1>1, <1>2, <1>3, <1>4, <1>6, <1>7, <1>8, <1>9, <1>10, <1>11 DEF Next, Running

(* Type correctness, for every lookahead but 0.                             *)
THEOREM TypesHold == ASSUME Lookahead # 0 PROVE Spec => []TypeOK
<1>1. Init => IInv BY InitIInv
<1>2. IInv /\ [Next]_vars => IInv' BY StepIInv
<1>3. IInv => TypeOK BY DEF IInv, Types, TypeOK
<1> QED BY <1>1, <1>2, <1>3, PTL DEF Spec

(* README.md's promise for the other lookaheads: no call of an open session *)
(* fails because of the position of the next window.                        *)
THEOREM LookaheadStreams == ASSUME Lookahead # 0 PROVE Spec => []SupportedLookaheadStreams
<1> DEFINE Inv == IInv /\ SupportedLookaheadStreams
<1>1. Init => Inv BY InitIInv DEF Init, SupportedLookaheadStreams
<1>2. Inv /\ [Next]_vars => Inv'
  <2> SUFFICES ASSUME Inv, [Next]_vars PROVE SupportedLookaheadStreams'
    BY StepIInv
  <2>1. ~Underflow BY NextWindowIsPlaced DEF IInv
  <2>2. ASSUME NEW n \in Blocks, Push(n) PROVE reply' # "underflow" BY <2>2 DEF Push, SupportedLookaheadStreams
  <2>3. CASE Finish
    <3>1. CASE finished BY <2>3, <3>1 DEF Finish, SupportedLookaheadStreams
    <3>2. CASE ~finished
      <4>1. reply' = "none" BY <2>1, <2>3, <3>2 DEF Finish
      <4> QED BY <4>1 DEF SupportedLookaheadStreams
    <3> QED BY <3>1, <3>2
  <2>4. CASE Running
    <3>1. CASE CutWindow \/ CutIsDone \/ \E pattern \in ScorePatterns : DecodeChunk(pattern)
      BY <2>1, <3>1 DEF CutWindow, CutIsDone, DecodeChunk, SupportedLookaheadStreams
    <3>3. CASE Return BY <3>3 DEF Return, SupportedLookaheadStreams
    <3>4. ASSUME NEW kind, CallFails(kind) PROVE reply' # "underflow" BY <3>4 DEF CallFails
    <3> QED BY <2>4, <3>1, <3>3, <3>4 DEF Running, EncodeFails, DecodeFails, SupportedLookaheadStreams
  <2>5. CASE Reset BY <2>5 DEF Reset, ResetScheduler, SupportedLookaheadStreams
  <2>6. CASE UNCHANGED vars BY <2>6 DEF vars, SupportedLookaheadStreams
  <2> QED BY <2>2, <2>3, <2>4, <2>5, <2>6 DEF Next, SupportedLookaheadStreams
<1> QED BY <1>1, <1>2, PTL DEF Spec

(* The frames of a window in the queue are those of an offline pass.        *)
(* The windows of the plan hold the frames they count on.                   *)
LEMMA QueueIsWhole == IInv => WindowsAreWhole
<1> SUFFICES ASSUME IInv, NEW i \in DOMAIN queue
             PROVE  LET w == queue[i] IN
                      /\ FrameCount(w) = w.frames
                      /\ \A m \in DOMAIN Extract(w) :
                           Extract(w)[m] = [at |-> 160 * (w.mel + m - 1), whole |-> TRUE]
  BY DEF WindowsAreWhole
<1> DEFINE w == queue[i]
<1>1. Placed(w)
  <2>1. queue \in Seq(AudioChunks) BY DEF IInv, QueueInv
  <2>2. i \in 1..Len(queue) BY <2>1
  <2> QED BY <2>2 DEF IInv, QueueInv
<1> HIDE DEF w
<1>2. CASE w.mel = 0
  <2>1. /\ w.start = 0 /\ w.frames = FirstMelFrames /\ w.center
        /\ w.length = (FirstMelFrames - 1) * 160 + 200
    BY <1>1, <1>2, PlanFacts DEF Placed, Windows!StartOf, Windows!EndOf, Windows!FramesOf
  <2>2. FrameCount(w) = w.frames BY <2>1, PlanFacts DEF FrameCount
  <2>3. ASSUME NEW m \in 1..w.frames
        PROVE  MelFrame(w, m - 1) = [at |-> 160 * (w.mel + m - 1), whole |-> TRUE]
    <3>1. FrameStart(w, m - 1) = (m - 1) * 160 - 256 BY <2>1 DEF FrameStart
    <3>2. w.start + FrameStart(w, m - 1) + 256 = 160 * (w.mel + m - 1)
      BY <1>2, <2>1, <3>1, PlanFacts
    <3>3. /\ FrameStart(w, m - 1) + 455 < w.length
          /\ FrameStart(w, m - 1) + 56 >= 1 \/ w.start = 0
      BY <1>2, <2>1, <3>1, PlanFacts
    <3>4. (FrameStart(w, m - 1) + 455 < w.length
             /\ (FrameStart(w, m - 1) + 56 >= 1 \/ w.start = 0)) = TRUE
      BY <3>3, Zenon
    <3> QED BY <3>2, <3>4, Zenon DEF MelFrame
  <2> QED BY <2>2, <2>3, PlanFacts, <2>1 DEF Extract, w
<1>3. CASE w.mel # 0
  <2>1. /\ w.start = w.mel * 160 - 256 /\ w.frames = SubsequentMelFrames /\ ~w.center
        /\ w.length = SubsequentMelFrames * 160 + 400 /\ w.mel \in Nat
    BY <1>1, <1>3, PlanFacts DEF Placed, Windows!StartOf, Windows!EndOf, Windows!FramesOf
  <2>2. FrameCount(w) = w.frames BY <2>1, PlanFacts DEF FrameCount
  <2>3. ASSUME NEW m \in 1..w.frames
        PROVE  MelFrame(w, m - 1) = [at |-> 160 * (w.mel + m - 1), whole |-> TRUE]
    <3>1. FrameStart(w, m - 1) = (m - 1) * 160 BY <2>1 DEF FrameStart
    <3>2. w.start + FrameStart(w, m - 1) + 256 = 160 * (w.mel + m - 1)
      BY <2>1, <3>1, PlanFacts
    <3>3. /\ FrameStart(w, m - 1) + 455 < w.length
          /\ FrameStart(w, m - 1) + 56 >= 1 \/ w.start = 0
      BY <2>1, <3>1, PlanFacts
    <3>4. (FrameStart(w, m - 1) + 455 < w.length
             /\ (FrameStart(w, m - 1) + 56 >= 1 \/ w.start = 0)) = TRUE
      BY <3>3, Zenon
    <3> QED BY <3>2, <3>4, Zenon DEF MelFrame
  <2> QED BY <2>2, <2>3, PlanFacts, <2>1 DEF Extract, w
<1> QED BY <1>2, <1>3 DEF w

(* In every reachable state, with a lookahead: no window misses a sample or *)
(* reads past its slice (LogMelFrontend on AudioChunkScheduler's windows).  *)
THEOREM WindowsHold == ASSUME Lookahead # 0 PROVE Spec => []WindowsAreWhole
<1>1. IInv => WindowsAreWhole BY QueueIsWhole
<1>2. Init => IInv BY InitIInv
<1>3. IInv /\ [Next]_vars => IInv' BY StepIInv
<1> QED BY <1>1, <1>2, <1>3, PTL DEF Spec

-----------------------------------------------------------------------------
(* The refinement.                                                          *)

(* A window that is consumed, with the rest of the queue kept, is one       *)
(* Encode of AudioWindows.                                                  *)
LEMMA ConsumeIsEncode ==
    ASSUME IInv, queue # <<>>, pc = "decoding",
           queue' = Tail(queue), encodedMel' = encodedMel + Chunk.frames,
           finished \/ pc' = pc,
           UNCHANGED <<audio, melFrameIndex, finished, skippedMel>>
    PROVE  Windows!Encode
<1>1. /\ Chunk.mel = encodedMel + skippedMel /\ Chunk.frames = Windows!FramesOf(Chunk.mel)
      /\ ~finished => audio >= Windows!EndOf(Chunk.mel)
      /\ Len(queue) \in Nat \ {0}
  BY ChunkFacts
<1>2. encodedMel' = encodedMel + Windows!FramesOf(encodedMel + skippedMel) BY <1>1
<1>3. CASE ~finished
  BY <1>1, <1>2, <1>3 DEF Windows!Encode, Windows!Complete, Windows!position
<1>4. CASE finished
  <2>1. Len(queue') = Len(queue) - 1 /\ Len(queue) <= 1 /\ queue' \in Seq(AudioChunks)
    BY <1>4, ConsumeIInv DEF IInv, CutInv, QueueInv
  <2>2. Len(queue') = 0 BY <1>1, <2>1
  <2>3. queue' = <<>>
    <3>1. \A q \in Seq(AudioChunks) : Len(q) = 0 => q = <<>> OBVIOUS
    <3> QED BY <2>1, <2>2, <3>1
  <2> QED BY <1>2, <1>4, <2>3 DEF Windows!Encode, Windows!Complete, Windows!position
<1> QED BY <1>3, <1>4

(* The last window lost with a call was due.                                *)
LEMMA LostWasDue ==
    ASSUME IInv, queue # <<>>, ~finished
    PROVE  /\ melFrameIndex > encodedMel + skippedMel
           /\ melFrameIndex >= FirstMelFrames
           /\ melFrameIndex = FirstMelFrames => audio >= Windows!EndOf(0)
           /\ melFrameIndex > FirstMelFrames => audio >= Windows!EndOf(melFrameIndex - SubsequentMelFrames)
<1>1. /\ Chunk.mel = encodedMel + skippedMel /\ Chunk.frames \in Nat \ {0}
      /\ Chunk.mel + Chunk.frames <= melFrameIndex
  BY ChunkFacts
<1>2. melFrameIndex > encodedMel + skippedMel BY <1>1 DEF IInv, Types
<1>3. melFrameIndex > 0 BY <1>2 DEF IInv, Types
<1>4. melFrameIndex >= FirstMelFrames BY <1>3 DEF IInv, CutInv
<1> QED BY <1>2, <1>3, <1>4, PlanFacts DEF IInv, Types, CutInv

(* So the window that ends at the cut is complete when all before the cut   *)
(* is consumed or lost.                                                     *)
LEMMA CutIsComplete ==
    ASSUME IInv, queue # <<>>, ~finished, melFrameIndex > FirstMelFrames,
           encodedMel' + skippedMel' = melFrameIndex
    PROVE  Windows!Complete((encodedMel' + skippedMel') - SubsequentMelFrames)
<1>1. audio >= Windows!EndOf(melFrameIndex - SubsequentMelFrames) BY LostWasDue
<1> QED BY <1>1 DEF Windows!Complete

(* A call that fails in the encoder loses its windows.                      *)
LEMMA EncodeFaultIsSkip ==
    ASSUME IInv, CallFails("encode"), encodedMel' = encodedMel,
           skippedMel' = melFrameIndex - encodedMel
    PROVE  Windows!Skip
<1>1. queue # <<>> /\ queue' = <<>> /\ pc = "decoding" /\ UNCHANGED <<audio, finished, melFrameIndex>>
  BY FaultTypes
<1>2. encodedMel \in Nat /\ skippedMel \in Nat /\ melFrameIndex \in Nat BY DEF IInv, Types
<1>3. /\ Chunk.mel = encodedMel + skippedMel /\ Chunk.frames \in Nat \ {0}
      /\ Chunk.mel + Chunk.frames <= melFrameIndex
      /\ Chunk.frames = Windows!FramesOf(encodedMel + skippedMel)
      /\ Len(queue) = 1 <=> Chunk.mel + Chunk.frames = melFrameIndex
      /\ Len(queue) \in Nat \ {0}
  BY <1>1, ChunkFacts
<1>4. encodedMel' + skippedMel' = melFrameIndex /\ skippedMel' > skippedMel
  BY <1>2, <1>3
<1>5. CASE ~finished
  <2>1. \/ encodedMel' + skippedMel' = FirstMelFrames /\ Windows!Complete(0)
        \/ /\ encodedMel' + skippedMel' > FirstMelFrames
           /\ Windows!Complete((encodedMel' + skippedMel') - SubsequentMelFrames)
    BY <1>1, <1>2, <1>4, <1>5, LostWasDue, PlanFacts DEF Windows!Complete
  <2> QED BY <1>1, <1>4, <1>5, <2>1 DEF Windows!Skip
<1>6. CASE finished
  <2>0. Len(queue) <= 1 BY <1>6 DEF IInv, CutInv
  <2>1. Len(queue) = 1
    <3>1. Len(queue) \in Nat \ {0} BY <1>3
    <3>2. \A k \in Nat \ {0} : k <= 1 => k = 1 OBVIOUS
    <3> QED BY <2>0, <3>1, <3>2, Zenon
  <2>2. skippedMel' = skippedMel + Windows!FramesOf(encodedMel + skippedMel)
    <3>1. Chunk.mel + Chunk.frames = melFrameIndex BY <1>3, <2>1
    <3>2. \A e, k, f, m \in Nat : e + k + f = m => m - e = k + f OBVIOUS
    <3> QED BY <1>2, <1>3, <3>1, <3>2
  <2> QED BY <1>1, <1>4, <1>6, <2>2 DEF Windows!Skip, Windows!position
<1> QED BY <1>5, <1>6

(* A call that fails in the decoder consumes its window and loses the rest. *)
LEMMA DecodeFaultIsEncode ==
    ASSUME IInv, CallFails("decode"), encodedMel' = encodedMel + Chunk.frames,
           skippedMel' = melFrameIndex - encodedMel'
    PROVE  Windows!Encode \/ Windows!EncodeThenSkip
<1>1. queue # <<>> /\ queue' = <<>> /\ pc = "decoding" /\ UNCHANGED <<audio, finished, melFrameIndex>>
  BY FaultTypes
<1>2. encodedMel \in Nat /\ skippedMel \in Nat /\ melFrameIndex \in Nat BY DEF IInv, Types
<1>3. /\ Chunk.mel = encodedMel + skippedMel /\ Chunk.frames \in Nat \ {0}
      /\ Chunk.mel + Chunk.frames <= melFrameIndex
      /\ Chunk.frames = Windows!FramesOf(encodedMel + skippedMel)
      /\ Len(queue) = 1 <=> Chunk.mel + Chunk.frames = melFrameIndex
      /\ Len(queue) \in Nat \ {0}
      /\ ~finished => audio >= Windows!EndOf(encodedMel + skippedMel)
  BY <1>1, ChunkFacts
<1>4. encodedMel' = encodedMel + Windows!FramesOf(encodedMel + skippedMel) BY <1>3
<1>5. CASE Chunk.mel + Chunk.frames = melFrameIndex
  <2>1. skippedMel' = skippedMel BY <1>2, <1>3, <1>5
  <2> QED BY <1>1, <1>3, <1>4, <2>1 DEF Windows!Encode, Windows!Complete, Windows!position
<1>6. CASE Chunk.mel + Chunk.frames # melFrameIndex
  <2>0. finished => Len(queue) <= 1 BY DEF IInv, CutInv
  <2>1. ~finished
    <3>1. Len(queue) \in Nat \ {0} /\ Len(queue) # 1 BY <1>3, <1>6
    <3>2. \A k \in Nat \ {0} : k <= 1 => k = 1 OBVIOUS
    <3> QED BY <2>0, <3>1, <3>2, Zenon
  <2>2. skippedMel' > skippedMel /\ encodedMel' + skippedMel' = melFrameIndex
    <3> DEFINE f == Chunk.frames
    <3>2. f \in Nat BY <1>3
    <3>3. encodedMel' = encodedMel + f /\ skippedMel' = melFrameIndex - (encodedMel + f)
      OBVIOUS
    <3>4. encodedMel + skippedMel + f <= melFrameIndex /\ encodedMel + skippedMel + f # melFrameIndex
      BY <1>3, <1>6
    <3> HIDE DEF f
    <3>5. /\ melFrameIndex - (encodedMel + f) > skippedMel
          /\ (encodedMel + f) + (melFrameIndex - (encodedMel + f)) = melFrameIndex
      BY <1>2, <3>2, <3>4
    <3> QED BY <3>3, <3>5
  <2>3. melFrameIndex > FirstMelFrames
    <3>1. Chunk.mel = 0 => Chunk.frames = FirstMelFrames BY <1>3 DEF Windows!FramesOf
    <3>2. Chunk.mel = 0 \/ Chunk.mel >= FirstMelFrames
      <4>1. Placed(queue[1]) BY <1>1, ChunkFacts DEF IInv, QueueInv
      <4> QED BY <4>1, <1>1, ChunkFacts DEF Placed
    <3>3. Chunk.mel \in Nat /\ Chunk.frames \in Nat \ {0} BY <1>2, <1>3
    <3>4. Chunk.mel + Chunk.frames < melFrameIndex BY <1>2, <1>3, <1>6, <3>3
    <3>5. CASE Chunk.mel = 0
      <4>1. Chunk.mel + Chunk.frames = FirstMelFrames BY <3>1, <3>5, PlanFacts
      <4> QED BY <3>4, <4>1
    <3>6. CASE Chunk.mel >= FirstMelFrames
      <4>1. \A c, f, m, first \in Nat : c >= first /\ c + f < m => m > first OBVIOUS
      <4> QED BY <1>2, <3>3, <3>4, <3>6, <4>1, PlanFacts
    <3> QED BY <3>2, <3>5, <3>6
  <2>4. Windows!Complete((encodedMel' + skippedMel') - SubsequentMelFrames)
    BY <1>1, <2>1, <2>2, <2>3, CutIsComplete
  <2> QED BY <1>1, <1>3, <1>4, <2>1, <2>2, <2>4 DEF Windows!EncodeThenSkip, Windows!Complete, Windows!position
<1> QED BY <1>5, <1>6

(* The transcriber implements AudioWindows: the windows are a function of   *)
(* the audio heard, not of the blocks it was pushed in.                     *)
THEOREM Refinement == ASSUME Lookahead # 0 PROVE Spec => WindowsAreOfTheAudio
<1>1. Init => Windows!Init BY DEF Init, Windows!Init
<1>2. IInv /\ [Next]_vars => [Windows!Next]_(Windows!vars)
  <2> SUFFICES ASSUME IInv, [Next]_vars PROVE Windows!Next \/ UNCHANGED Windows!vars
    OBVIOUS
  <2> USE DEF Windows!vars
  <2>1. ASSUME NEW n \in Blocks, Push(n) PROVE Windows!Next \/ UNCHANGED Windows!vars
    <3>1. n \in Nat /\ audio \in Nat BY BlockAssumption DEF IInv, Types
    <3>2. pc = "idle" /\ UNCHANGED <<finished, queue, encodedMel, skippedMel>> BY <2>1 DEF Push, ghosts
    <3>3. CASE finished BY <2>1, <3>2, <3>3 DEF Push
    <3>4. CASE ~finished
      <4>1. audio' = audio + n BY <2>1, <3>4 DEF Push
      <4>2. Windows!Hear BY <3>1, <3>2, <3>4, <4>1 DEF Windows!Hear
      <4> QED BY <4>2 DEF Windows!Next
    <3> QED BY <3>3, <3>4
  <2>2. CASE Finish
    <3>1. pc = "idle" /\ queue = <<>> /\ UNCHANGED <<encodedMel, skippedMel>>
      BY <2>2 DEF Finish, IInv, CutInv, ghosts
    <3>2. encodedMel + skippedMel = melFrameIndex BY <3>1 DEF IInv, QueueInv
    <3>3. ~Underflow /\ NextWindow.start = Windows!StartOf(melFrameIndex)
      BY NextWindowIsPlaced DEF IInv, Placed
    <3>4. CASE finished BY <2>2, <3>1, <3>4 DEF Finish, scheduler
    <3>5. CASE ~finished
      <4>1. finished' = TRUE /\ audio' = audio /\ pc' = "decoding"
        BY <2>2, <3>3, <3>5 DEF Finish
      <4>2. ~Windows!Complete(encodedMel + skippedMel)
        <5>1. audio < Windows!EndOf(melFrameIndex) BY <3>1, <3>5 DEF IInv, CutInv
        <5>2. audio \in Nat /\ Windows!EndOf(melFrameIndex) \in Int
          BY PlanFacts DEF IInv, Types, Windows!EndOf, Windows!StartOf
        <5> QED BY <3>2, <5>1, <5>2 DEF Windows!Complete
      <4>3. CASE audio > Windows!StartOf(melFrameIndex)
        <5>1. queue' = <<NextWindow>> BY <2>2, <3>3, <3>5, <4>3 DEF Finish
        <5>2. queue' # <<>> BY <5>1
        <5>3. Windows!Finish
          BY <3>1, <3>2, <3>5, <4>1, <4>2, <4>3, <5>2 DEF Windows!Finish, Windows!position
        <5> QED BY <5>3 DEF Windows!Next
      <4>4. CASE ~(audio > Windows!StartOf(melFrameIndex))
        <5>1. queue' = <<>> BY <2>2, <3>1, <3>3, <3>5, <4>4 DEF Finish
        <5>2. Windows!Finish
          BY <3>1, <3>2, <3>5, <4>1, <4>2, <4>4, <5>1 DEF Windows!Finish, Windows!position
        <5> QED BY <5>2 DEF Windows!Next
      <4> QED BY <4>3, <4>4
    <3> QED BY <3>4, <3>5
  <2>3. CASE Reset
    <3>1. audio' = 0 /\ encodedMel' = 0 /\ skippedMel' = 0 /\ finished' = FALSE BY <2>3 DEF Reset, ResetScheduler
    <3> QED BY <3>1 DEF Windows!Reset, Windows!Next
  <2>4. CASE CutWindow \/ CutIsDone
    <3>1. UNCHANGED <<audio, finished, encodedMel, skippedMel>> /\ ~finished
      BY <2>4, NextWindowIsPlaced DEF CutWindow, CutIsDone, scheduler, ghosts, IInv, CutInv
    <3> QED BY <3>1
  <2>6. CASE Return
    <3>1. UNCHANGED <<audio, finished, encodedMel, skippedMel, queue>> /\ queue = <<>>
      BY <2>6 DEF Return, scheduler, ghosts
    <3> QED BY <3>1
  <2>7. ASSUME NEW pattern \in ScorePatterns, DecodeChunk(pattern) PROVE Windows!Next
    <3>1. /\ queue # <<>> /\ queue' = Tail(queue) /\ encodedMel' = encodedMel + Chunk.frames
          /\ pc = "decoding" /\ pc' = pc
          /\ UNCHANGED <<audio, melFrameIndex, finished, skippedMel>>
      BY <2>7 DEF DecodeChunk, scheduler
    <3> QED BY <3>1, ConsumeIsEncode DEF Windows!Next
  <2>8. ASSUME NEW done \in 0..CacheUpdates, EncodeFails(done) PROVE Windows!Next
    BY <2>8, EncodeFaultIsSkip DEF EncodeFails, Windows!Next
  <2>9. ASSUME NEW pattern \in ScorePatterns, NEW steps \in 0..(EncoderFramesPerChunk * MaxSymbolsPerStep),
               NEW partial \in 0..2, DecodeFails(pattern, steps, partial)
        PROVE  Windows!Next
    BY <2>9, DecodeFaultIsEncode DEF DecodeFails, Windows!Next
  <2>10. CASE UNCHANGED vars BY <2>10 DEF vars, scheduler, ghosts
  <2> QED BY <2>1, <2>2, <2>3, <2>4, <2>6, <2>7, <2>8, <2>9, <2>10 DEF Next, Running
<1>3. Init => IInv BY InitIInv
<1>4. IInv /\ [Next]_vars => IInv' BY StepIInv
<1> QED BY <1>1, <1>2, <1>3, <1>4, PTL DEF Spec, WindowsAreOfTheAudio, Windows!Spec

-----------------------------------------------------------------------------
(* The end of the audio.                                                    *)

(* A closed session has cut windows up to its last hop of audio, and        *)
(* without failures none of them was skipped.                               *)
CoverInv ==
    /\ finished /\ audio > 0 =>
          melFrameIndex > 0 /\ audio < melFrameIndex * 160 + 200
    /\ faults = <<>> => skippedMel = 0

(* finish cuts the window that the end of the audio is in.                  *)
LEMMA FinishCovers ==
    ASSUME Lookahead # 0, IInv, CoverInv, Finish PROVE CoverInv'
<1> DEFINE w == NextWindow
<1>1. /\ w.start = Windows!StartOf(melFrameIndex) /\ w.frames = Windows!FramesOf(melFrameIndex)
      /\ w.mel = melFrameIndex /\ ~Underflow /\ w.frames \in Nat \ {0}
  BY NextWindowIsPlaced DEF IInv, Placed
<1>2. pc = "idle" /\ UNCHANGED <<audio, skippedMel, faults>>
  BY DEF Finish, scheduler, ghosts
<1>3. melFrameIndex \in Nat /\ audio \in Nat BY DEF IInv, Types
<1>4. CASE finished
  <2>1. UNCHANGED <<finished, melFrameIndex>> BY <1>4 DEF Finish, scheduler
  <2> QED BY <1>2, <2>1 DEF CoverInv
<1>5. CASE ~finished /\ ~(audio > w.start)
  <2>1. UNCHANGED melFrameIndex BY <1>1, <1>5 DEF Finish
  <2>2. audio > 0 => melFrameIndex > 0 /\ audio < melFrameIndex * 160 + 200
    BY <1>1, <1>3, <1>5 DEF Windows!StartOf
  <2> QED BY <1>2, <2>1, <2>2 DEF CoverInv
<1>6. CASE ~finished /\ audio > w.start
  <2>1. melFrameIndex' = melFrameIndex + w.frames BY <1>1, <1>6 DEF Finish
  <2>2. audio < Windows!EndOf(melFrameIndex) BY <1>2, <1>6 DEF IInv, CutInv
  <2>3. melFrameIndex' > 0 /\ audio < melFrameIndex' * 160 + 200
    <3>1. CASE melFrameIndex = 0
      BY <1>1, <1>3, <2>1, <2>2, <3>1, PlanFacts DEF Windows!FramesOf, Windows!EndOf
    <3>2. CASE melFrameIndex # 0
      BY <1>1, <1>3, <2>1, <2>2, <3>2, PlanFacts
      DEF Windows!FramesOf, Windows!EndOf, Windows!StartOf
    <3> QED BY <3>1, <3>2
  <2> QED BY <1>2, <2>3 DEF CoverInv
<1> QED BY <1>4, <1>5, <1>6

(* Only finish moves the cut of a closed session, and only a failure skips. *)
LEMMA StepCovers ==
    ASSUME Lookahead # 0, IInv, CoverInv, [Next]_vars PROVE CoverInv'
<1>1. ASSUME NEW n \in Blocks, Push(n) PROVE CoverInv'
  <2>1. UNCHANGED <<finished, melFrameIndex, skippedMel, faults>>
    BY <1>1 DEF Push, ghosts
  <2>2. finished => UNCHANGED audio BY <1>1 DEF Push
  <2> QED BY <2>1, <2>2 DEF CoverInv
<1>2. CASE Finish BY <1>2, FinishCovers
<1>3. CASE Reset BY <1>3 DEF Reset, ResetScheduler, CoverInv
<1>4. CASE CutWindow \/ CutIsDone
  <2>1. ~Underflow BY NextWindowIsPlaced DEF IInv
  <2>2. ~finished /\ UNCHANGED <<finished, skippedMel, faults>>
    BY <1>4, <2>1 DEF CutWindow, CutIsDone, scheduler, ghosts, IInv, CutInv
  <2> QED BY <2>2 DEF CoverInv
<1>5. CASE Return BY <1>5 DEF Return, scheduler, CoverInv
<1>6. ASSUME NEW pattern \in ScorePatterns, DecodeChunk(pattern) PROVE CoverInv'
  BY <1>6 DEF DecodeChunk, scheduler, CoverInv
<1>7. ASSUME NEW kind \in {"encode", "decode"}, CallFails(kind) PROVE CoverInv'
  <2>1. UNCHANGED <<audio, finished, melFrameIndex>> BY <1>7, FaultTypes
  <2>2. faults' # <<>> BY <1>7 DEF CallFails, IInv, Types
  <2> QED BY <2>1, <2>2 DEF CoverInv
<1>8. CASE UNCHANGED vars
  BY <1>8 DEF vars, scheduler, ghosts, CoverInv
<1> QED BY <1>1, <1>2, <1>3, <1>4, <1>5, <1>6, <1>7, <1>8
        DEF Next, Running, EncodeFails, DecodeFails

(* After finish nothing of the audio but the end of the last Hann window is *)
(* left, unless a chunk failed (the padded window of push and finish in     *)
(* AudioChunkScheduler).                                                    *)
THEOREM FinishCoversEverything ==
    ASSUME Lookahead # 0 PROVE Spec => []FinishCoversAudio
<1>1. IInv /\ CoverInv => FinishCoversAudio
  <2> SUFFICES ASSUME IInv, CoverInv, finished, pc = "idle", faults = <<>>, audio > 0
               PROVE  encodedMel > 0 /\ audio - ((encodedMel - 1) * 160 + 200) < 160
    BY DEF FinishCoversAudio
  <2>1. encodedMel + skippedMel = melFrameIndex /\ skippedMel = 0
    BY DEF IInv, CutInv, QueueInv, CoverInv
  <2>2. audio \in Nat /\ encodedMel \in Nat BY DEF IInv, Types
  <2>3. encodedMel > 0 /\ audio < encodedMel * 160 + 200 BY <2>1, <2>2 DEF CoverInv
  <2> QED BY <2>2, <2>3
<1>2. Init => IInv /\ CoverInv BY InitIInv DEF Init, CoverInv
<1>3. IInv /\ CoverInv /\ [Next]_vars => (IInv /\ CoverInv)' BY StepIInv, StepCovers
<1> QED BY <1>1, <1>2, <1>3, PTL DEF Spec

-----------------------------------------------------------------------------
(* The frame clock.                                                         *)

(* The clock, the caches of every layer and the encoded audio move together *)
(* as long as the encoder has not failed; the convolutions are at their     *)
(* first chunk until something was encoded or skipped.                      *)
ClockInv ==
    /\ cache.subsampling \in [1..3 -> ConvCaches] /\ framesSeen \in Nat
    /\ encodedMel + skippedMel = 0 => \A s \in 1..3 : cache.subsampling[s].first
    /\ NoEncoderFault =>
          /\ \A l \in 1..NumLayers : cache.layers[l].attention.frames = Retained(framesSeen)
          /\ \A s \in 1..3 : cache.subsampling[s].first <=> framesSeen = 0
          /\ framesSeen * 8 = encodedMel + (IF framesSeen = 0 THEN 0 ELSE 7)
          /\ framesSeen = 0 => skippedMel = 0

(* The mel frames of a chunk are those of its window.                       *)
LEMMA MelFacts ==
    ASSUME IInv, queue # <<>>
    PROVE  Mel \in Frames /\ Len(Mel) = Chunk.frames
<1>1. 1 \in 1..Len(queue) /\ Chunk = queue[1] /\ Chunk.frames \in Nat \ {0}
  BY ChunkFacts
<1>2. Chunk \in AudioChunks /\ FrameCount(Chunk) = Chunk.frames
  <2>1. queue \in Seq(AudioChunks) BY DEF IInv, QueueInv
  <2>2. 1 \in DOMAIN queue BY <1>1, <2>1
  <2>3. WindowsAreWhole BY QueueIsWhole
  <2> QED BY <1>1, <2>1, <2>2, <2>3 DEF WindowsAreWhole
<1> DEFINE n == Chunk.frames
<1>3. Mel = [m \in 1..n |-> {MelFrame(Chunk, m - 1).at}]
  BY <1>2 DEF Mel, Extract
<1>4. \A m \in 1..n : MelFrame(Chunk, m - 1).at \in Int
  BY <1>2 DEF MelFrame, FrameStart, AudioChunks
<1> HIDE DEF n
<1>5. Mel \in [1..n -> SUBSET Int] BY <1>3, <1>4
<1>6. n \in Nat BY <1>1 DEF n
<1>7. Mel \in Frames /\ Len(Mel) = n BY <1>5, <1>6 DEF Frames
<1> QED BY <1>7 DEF n

(* A chunk that the encoder completes is EncoderFramesPerChunk frames, also *)
(* the first one, and every cache and the clock move by as many.            *)
LEMMA EncodeDoneKeepsTime ==
    ASSUME Lookahead # 0, IInv, ClockInv, queue # <<>>, EncodeDone,
           encodedMel' = encodedMel + Chunk.frames, skippedMel' \in Nat,
           NoEncoderFault' => NoEncoderFault
    PROVE  ClockInv' /\ framesSeen' = framesSeen + EncoderFramesPerChunk
<1> DEFINE out == Encoded(CacheUpdates)
           n   == Len(out.frames)
<1>1. framesSeen' = framesSeen + n /\ cache' = out.cache
  BY DEF EncodeDone
<1>2. Mel \in Frames /\ Len(Mel) = Chunk.frames BY MelFacts
<1>3. cache.subsampling \in [1..3 -> ConvCaches] /\ framesSeen \in Nat
  BY DEF ClockInv
<1>4. out.cache.subsampling \in [1..3 -> ConvCaches]
  BY <1>2, <1>3, PartlyEncoded DEF Encoded
<1>5. /\ out.frames = Subsample(cache.subsampling, Mel).frames
      /\ \A s \in 1..3 : ~out.cache.subsampling[s].first
      /\ \A l \in 1..NumLayers : out.cache.layers[l].attention.frames
            = Retained(cache.layers[l].attention.frames + n)
  BY <1>2, <1>3, FullyEncoded DEF Encoded
<1>6. out.frames \in Frames /\ n = ConvLength(cache.subsampling[3].first,
                                     ConvLength(cache.subsampling[2].first,
                                       ConvLength(cache.subsampling[1].first, Chunk.frames)))
  BY <1>2, <1>3, <1>5, Subsampled DEF Stages
<1>7. /\ Chunk.mel = encodedMel + skippedMel /\ Chunk.frames = Windows!FramesOf(Chunk.mel)
      /\ encodedMel \in Nat /\ skippedMel \in Nat /\ Chunk.frames \in Nat \ {0}
  BY ChunkFacts DEF IInv, Types
<1>8. n = EncoderFramesPerChunk
  <2>1. /\ cache.subsampling[1].first \in BOOLEAN /\ cache.subsampling[2].first \in BOOLEAN
        /\ cache.subsampling[3].first \in BOOLEAN
    BY <1>3 DEF ConvCaches
  <2>2. CASE Chunk.mel = 0
    <3>1. Chunk.frames = FirstMelFrames BY <1>7, <2>2 DEF Windows!FramesOf
    <3>2. /\ cache.subsampling[1].first = TRUE /\ cache.subsampling[2].first = TRUE
          /\ cache.subsampling[3].first = TRUE
      BY <1>7, <2>1, <2>2 DEF ClockInv
    <3> QED BY <1>6, <3>1, <3>2, ChunkLengths
  <2>3. CASE Chunk.mel # 0
    <3>1. Chunk.frames = SubsequentMelFrames BY <1>7, <2>3 DEF Windows!FramesOf
    <3> QED BY <1>6, <2>1, <3>1, ChunkLengths
  <2> QED BY <2>2, <2>3
<1> HIDE DEF out
<1>9. framesSeen' = framesSeen + (Lookahead + 1) /\ framesSeen' \in Nat /\ framesSeen' > 0
  BY <1>1, <1>3, <1>8, PlanFacts DEF EncoderFramesPerChunk
<1>10. encodedMel' + skippedMel' # 0
  BY <1>7
<1>11. ASSUME NoEncoderFault
       PROVE  /\ framesSeen' * 8 = encodedMel' + 7
              /\ \A l \in 1..NumLayers :
                    out.cache.layers[l].attention.frames = Retained(framesSeen')
  <2>1. /\ \A l \in 1..NumLayers : cache.layers[l].attention.frames = Retained(framesSeen)
        /\ framesSeen * 8 = encodedMel + (IF framesSeen = 0 THEN 0 ELSE 7)
        /\ framesSeen = 0 => skippedMel = 0
    BY <1>11 DEF ClockInv
  <2>2. \A l \in 1..NumLayers : out.cache.layers[l].attention.frames = Retained(framesSeen')
    <3>1. n \in Nat BY <1>8, PlanFacts DEF EncoderFramesPerChunk
    <3>2. Retained(Retained(framesSeen) + n) = Retained(framesSeen')
      BY <1>1, <1>3, <3>1, RetainedTwice
    <3>3. \A l \in 1..NumLayers :
             out.cache.layers[l].attention.frames = Retained(Retained(framesSeen) + n)
      BY <1>5, <2>1
    <3> QED BY <3>2, <3>3
  <2>3. CASE framesSeen = 0
    <3>1. encodedMel = 0 /\ Chunk.frames = FirstMelFrames
      BY <1>7, <2>1, <2>3 DEF Windows!FramesOf
    <3>2. encodedMel' = FirstMelFrames /\ framesSeen' = Lookahead + 1
      BY <1>9, <2>3, <3>1, PlanFacts
    <3> QED BY <2>2, <3>2, PlanFacts
  <2>4. CASE framesSeen # 0
    <3>1. framesSeen * 8 = encodedMel + 7 /\ encodedMel # 0 BY <1>3, <1>7, <2>1, <2>4
    <3>2. Chunk.frames = SubsequentMelFrames BY <1>7, <3>1 DEF Windows!FramesOf
    <3>3. framesSeen' * 8 = encodedMel' + 7
      <4>1. encodedMel' = encodedMel + (8 * Lookahead + 8) BY <3>2, PlanFacts
      <4>2. \A f, l \in Nat : (f + (l + 1)) * 8 = f * 8 + (8 * l + 8) OBVIOUS
      <4>3. framesSeen' * 8 = framesSeen * 8 + (8 * Lookahead + 8)
        BY <1>3, <1>9, <4>2, PlanFacts
      <4> QED BY <1>7, <3>1, <4>1, <4>3, PlanFacts
    <3> QED BY <2>2, <3>3
  <2> QED BY <2>3, <2>4
<1>12. ClockInv'
  BY <1>1, <1>4, <1>5, <1>9, <1>10, <1>11, SMTT(30) DEF ClockInv
<1> QED BY <1>1, <1>8, <1>12 DEF out

(* Another fault is no encoder fault less.                                  *)
LEMMA FaultsGrow ==
    ASSUME IInv, NEW kind \in {"encode", "decode"}, faults' = Append(faults, kind)
    PROVE  NoEncoderFault' => NoEncoderFault /\ kind # "encode"
<1>1. faults \in Seq({"encode", "decode"}) BY DEF IInv, Types
<1>2. /\ Len(faults) \in Nat /\ DOMAIN faults = 1..Len(faults)
      /\ DOMAIN faults' = 1..(Len(faults) + 1) /\ faults'[Len(faults) + 1] = kind
      /\ \A i \in 1..Len(faults) : faults'[i] = faults[i]
  BY <1>1
<1>3. Len(faults) + 1 \in 1..(Len(faults) + 1)
      /\ \A i \in 1..Len(faults) : i \in 1..(Len(faults) + 1)
  BY <1>2
<1> QED BY <1>2, <1>3 DEF NoEncoderFault

(* A new session has new caches and no time.                                *)
LEMMA ClockInit == Init => ClockInv
<1> SUFFICES ASSUME Init PROVE ClockInv OBVIOUS
<1>1. \A s \in 1..3 : cache.subsampling[s] = [first |-> TRUE, frame |-> {}]
  BY DEF Init, NewEncoderCache, NewSubsamplingCache
<1>2. cache.subsampling \in [1..3 -> ConvCaches]
  BY DEF Init, NewEncoderCache, NewSubsamplingCache, ConvCaches
<1>3. \A l \in 1..NumLayers : cache.layers[l].attention.frames = Retained(0)
  BY ConfigAssumption DEF Init, NewEncoderCache, NewLayerCache, NewKvCache, Retained
<1> QED BY <1>1, <1>2, <1>3 DEF Init, ClockInv

(* Only a chunk that is encoded, and a reset, move the clock.               *)
LEMMA StepKeepsTime ==
    ASSUME Lookahead # 0, IInv, ClockInv, [Next]_vars PROVE ClockInv'
<1>0. skippedMel' \in Nat BY StepIInv DEF IInv, Types
<1>1. ASSUME UNCHANGED <<cache, framesSeen, encodedMel, skippedMel, faults>> PROVE ClockInv'
  BY <1>1 DEF ClockInv, NoEncoderFault
<1>2. ASSUME NEW n \in Blocks, Push(n) PROVE ClockInv'
  BY <1>1, <1>2 DEF Push, transcriber, ghosts
<1>3. CASE Finish BY <1>1, <1>3 DEF Finish, transcriber, ghosts
<1>4. CASE Reset
  <2>1. cache' = NewEncoderCache /\ framesSeen' = 0 /\ encodedMel' = 0 /\ skippedMel' = 0
    BY <1>4 DEF Reset
  <2>2. \A s \in 1..3 : cache'.subsampling[s] = [first |-> TRUE, frame |-> {}]
    BY <2>1 DEF NewEncoderCache, NewSubsamplingCache
  <2>3. cache'.subsampling \in [1..3 -> ConvCaches]
    BY <2>1 DEF NewEncoderCache, NewSubsamplingCache, ConvCaches
  <2>4. \A l \in 1..NumLayers : cache'.layers[l].attention.frames = Retained(0)
    BY <2>1, ConfigAssumption DEF NewEncoderCache, NewLayerCache, NewKvCache, Retained
  <2> QED BY <2>1, <2>2, <2>3, <2>4 DEF ClockInv
<1>5. CASE CutWindow \/ CutIsDone
  <2>1. ~Underflow BY NextWindowIsPlaced DEF IInv
  <2> QED BY <1>1, <1>5, <2>1 DEF CutWindow, CutIsDone, transcriber, ghosts
<1>6. CASE Return BY <1>1, <1>6 DEF Return, transcriber
<1>7. ASSUME NEW pattern \in ScorePatterns, DecodeChunk(pattern) PROVE ClockInv'
  <2>1. /\ queue # <<>> /\ EncodeDone /\ encodedMel' = encodedMel + Chunk.frames
        /\ UNCHANGED faults
    BY <1>7 DEF DecodeChunk
  <2>2. NoEncoderFault' => NoEncoderFault BY <2>1 DEF NoEncoderFault
  <2>3. skippedMel' \in Nat BY <1>7, <1>0
  <2> QED BY <2>1, <2>2, <2>3, EncodeDoneKeepsTime
<1>8. ASSUME NEW pattern \in ScorePatterns, NEW steps \in 0..(EncoderFramesPerChunk * MaxSymbolsPerStep),
             NEW partial \in 0..2, DecodeFails(pattern, steps, partial)
      PROVE  ClockInv'
  <2>1. /\ queue # <<>> /\ EncodeDone /\ encodedMel' = encodedMel + Chunk.frames
        /\ faults' = Append(faults, "decode")
    BY <1>8 DEF DecodeFails, CallFails
  <2>2. NoEncoderFault' => NoEncoderFault BY <2>1, FaultsGrow
  <2>3. skippedMel' \in Nat BY <1>8, <1>0
  <2> QED BY <2>1, <2>2, <2>3, EncodeDoneKeepsTime
<1>9. ASSUME NEW done \in 0..CacheUpdates, EncodeFails(done) PROVE ClockInv'
  <2>1. /\ queue # <<>> /\ UNCHANGED framesSeen /\ cache' = Encoded(done).cache
        /\ faults' = Append(faults, "encode")
    BY <1>9 DEF EncodeFails, CallFails
  <2>2. ~NoEncoderFault' BY <2>1, FaultsGrow
  <2>3. Mel \in Frames BY <2>1, MelFacts
  <2>4. Encoded(done).cache.subsampling \in [1..3 -> ConvCaches]
    BY <2>3, PartlyEncoded DEF ClockInv, Encoded
  <2>5. encodedMel' + skippedMel' # 0
    <3>1. /\ Chunk.mel = encodedMel + skippedMel /\ Chunk.mel + Chunk.frames <= melFrameIndex
          /\ Chunk.frames \in Nat \ {0} /\ encodedMel \in Nat /\ skippedMel \in Nat
          /\ melFrameIndex \in Nat
      BY <2>1, ChunkFacts DEF IInv, Types
    <3>2. encodedMel' = encodedMel /\ skippedMel' = melFrameIndex - encodedMel
      BY <1>9 DEF EncodeFails
    <3> QED BY <3>1, <3>2
  <2> QED BY <2>1, <2>2, <2>4, <2>5 DEF ClockInv
<1>10. CASE UNCHANGED vars BY <1>1, <1>10 DEF vars, transcriber, ghosts
<1> QED BY <1>2, <1>3, <1>4, <1>5, <1>6, <1>7, <1>8, <1>9, <1>10 DEF Next, Running

(* The frame clock is the caches' clock, also after decode errors, and      *)
(* behind the audio by exactly the windows that were lost (decode_features  *)
(* advances frames_seen before it decodes).                                 *)
THEOREM ClockFollowsCaches ==
    ASSUME Lookahead # 0 PROVE Spec => []FrameClockFollowsCaches
<1>1. IInv /\ ClockInv => FrameClockFollowsCaches
  <2>1. IInv /\ pc = "idle" => encodedMel + skippedMel = melFrameIndex
    BY DEF IInv, CutInv, QueueInv
  <2> QED BY <2>1 DEF ClockInv, Retained, FrameClockFollowsCaches
<1>2. Init => IInv /\ ClockInv BY InitIInv, ClockInit
<1>3. IInv /\ ClockInv /\ [Next]_vars => (IInv /\ ClockInv)' BY StepIInv, StepKeepsTime
<1> QED BY <1>1, <1>2, <1>3, PTL DEF Spec

-----------------------------------------------------------------------------
(* The tokens.                                                              *)

(* s are frames of tokens in the order of time, before frame "end", each    *)
(* frame at most MaxSymbolsPerStep times.                                   *)
InOrder(s, end) ==
    /\ s \in Seq(Nat)
    /\ \A i \in 1..Len(s) : s[i] < end
    /\ \A i, j \in 1..Len(s) : i < j => s[i] <= s[j]
    /\ \A i \in 1..Len(s) : i + MaxSymbolsPerStep <= Len(s) => s[i] < s[i + MaxSymbolsPerStep]

(* No token of s comes before frame "begin".                                *)
From(s, begin) == \A i \in 1..Len(s) : s[i] >= begin

(* A concatenation, position by position.                                   *)
LEMMA Concatenated ==
    ASSUME NEW s, NEW u, s \in Seq(Nat), u \in Seq(Nat)
    PROVE  /\ s \o u \in Seq(Nat) /\ Len(s \o u) = Len(s) + Len(u)
           /\ Len(s) \in Nat /\ Len(u) \in Nat
           /\ \A i \in 1..Len(s) : (s \o u)[i] = s[i]
           /\ \A i \in 1..Len(u) : (s \o u)[Len(s) + i] = u[i]
           /\ \A i \in 1..Len(s \o u) : i \in 1..Len(s) \/ i - Len(s) \in 1..Len(u)
           /\ \A i \in 1..Len(s \o u) : i \notin 1..Len(s) => (s \o u)[i] = u[i - Len(s)]
OBVIOUS

(* Tokens in order, followed by later ones in order, are in order: a block  *)
(* of equal frames never spans the two, for they meet at a frame.           *)
LEMMA OrderContinues ==
    ASSUME NEW s, NEW u, NEW middle \in Nat, NEW end \in Nat, middle <= end,
           InOrder(s, middle), InOrder(u, end), From(u, middle)
    PROVE  InOrder(s \o u, end)
<1> DEFINE v == s \o u  a == Len(s)  b == Len(u)  m == MaxSymbolsPerStep
<1>1. /\ v \in Seq(Nat) /\ Len(v) = a + b /\ a \in Nat /\ b \in Nat
      /\ \A i \in 1..a : v[i] = s[i] /\ s[i] \in Nat
      /\ \A i \in 1..b : v[a + i] = u[i] /\ u[i] \in Nat
      /\ \A i \in 1..(a + b) : i \in 1..a \/ i - a \in 1..b
      /\ \A i \in 1..(a + b) : i \notin 1..a => v[i] = u[i - a]
  BY Concatenated, SMTT(30) DEF InOrder
<1>2. m \in Nat BY BlockAssumption
<1>3. /\ \A i \in 1..a : s[i] < middle
      /\ \A i, j \in 1..a : i < j => s[i] <= s[j]
      /\ \A i \in 1..a : i + m <= a => s[i] < s[i + m]
  BY DEF InOrder
<1>4. /\ \A i \in 1..b : u[i] < end /\ u[i] >= middle
      /\ \A i, j \in 1..b : i < j => u[i] <= u[j]
      /\ \A i \in 1..b : i + m <= b => u[i] < u[i + m]
  BY DEF InOrder, From
<1> HIDE DEF v, a, b, m
<1>5. ASSUME NEW i \in 1..(a + b) PROVE v[i] < end
  <2>1. CASE i \in 1..a
    <3>1. v[i] = s[i] /\ s[i] \in Nat /\ s[i] < middle BY <1>1, <1>3, <2>1
    <3> QED BY <3>1
  <2>2. CASE i \notin 1..a
    <3>1. i - a \in 1..b /\ v[i] = u[i - a] BY <1>1, <2>2
    <3> QED BY <1>4, <3>1
  <2> QED BY <2>1, <2>2
<1>6. ASSUME NEW i \in 1..(a + b), NEW j \in 1..(a + b), i < j PROVE v[i] <= v[j]
  <2>1. CASE j \in 1..a
    <3>1. i \in 1..a BY <1>1, <1>6, <2>1
    <3> QED BY <1>1, <1>3, <1>6, <2>1, <3>1
  <2>2. CASE i \in 1..a /\ j \notin 1..a
    <3>1. v[i] = s[i] /\ s[i] \in Nat /\ s[i] < middle BY <1>1, <1>3, <2>2
    <3>2. j - a \in 1..b /\ v[j] = u[j - a] BY <1>1, <2>2
    <3>3. u[j - a] \in Nat /\ u[j - a] >= middle BY <1>1, <1>4, <3>2
    <3> QED BY <3>1, <3>2, <3>3
  <2>3. CASE i \notin 1..a /\ j \notin 1..a
    <3>1. /\ i - a \in 1..b /\ v[i] = u[i - a] /\ j - a \in 1..b /\ v[j] = u[j - a]
      BY <1>1, <2>3
    <3>2. i - a < j - a BY <1>1, <1>6
    <3> QED BY <1>4, <3>1, <3>2
  <2> QED BY <1>1, <1>6, <2>1, <2>2, <2>3
<1>7. ASSUME NEW i \in 1..(a + b), i + m <= a + b PROVE v[i] < v[i + m]
  <2>1. i + m \in 1..(a + b) BY <1>1, <1>2, <1>7
  <2>2. CASE i + m \in 1..a
    <3>1. i \in 1..a /\ i + m <= a BY <1>1, <1>2, <2>2
    <3> QED BY <1>1, <1>3, <2>2, <3>1
  <2>3. CASE i \in 1..a /\ i + m \notin 1..a
    <3>1. v[i] = s[i] /\ s[i] \in Nat /\ s[i] < middle BY <1>1, <1>3, <2>3
    <3>2. (i + m) - a \in 1..b /\ v[i + m] = u[(i + m) - a] BY <1>1, <2>1, <2>3
    <3>3. u[(i + m) - a] \in Nat /\ u[(i + m) - a] >= middle BY <1>1, <1>4, <3>2
    <3> QED BY <3>1, <3>2, <3>3
  <2>4. CASE i \notin 1..a /\ i + m \notin 1..a
    <3>1. i - a \in 1..b /\ v[i] = u[i - a] BY <1>1, <2>4
    <3>2. (i + m) - a \in 1..b /\ v[i + m] = u[(i + m) - a] BY <1>1, <2>1, <2>4
    <3>3. (i + m) - a = (i - a) + m BY <1>1, <1>2
    <3>4. (i - a) + m <= b BY <1>1, <3>2, <3>3
    <3>5. u[i - a] < u[(i - a) + m] BY <1>4, <3>1, <3>4
    <3> QED BY <3>1, <3>2, <3>3, <3>5
  <2> QED BY <1>1, <1>2, <2>1, <2>2, <2>3, <2>4
<1>8. InOrder(v, end)
  BY <1>1, <1>2, <1>5, <1>6, <1>7 DEF InOrder, m
<1> QED BY <1>8 DEF v

(* Two sequences that begin late make one that does.                        *)
LEMMA FromContinues ==
    ASSUME NEW s, NEW u, s \in Seq(Nat), u \in Seq(Nat), NEW begin,
           From(s, begin), From(u, begin)
    PROVE  From(s \o u, begin)
<1> SUFFICES ASSUME NEW i \in 1..Len(s \o u) PROVE (s \o u)[i] >= begin
  BY DEF From
<1>1. CASE i \in 1..Len(s)
  <2>1. (s \o u)[i] = s[i] BY <1>1, Concatenated
  <2> QED BY <1>1, <2>1 DEF From
<1>2. CASE i \notin 1..Len(s)
  <2>1. i - Len(s) \in 1..Len(u) /\ (s \o u)[i] = u[i - Len(s)] BY <1>2, Concatenated
  <2> QED BY <2>1 DEF From
<1> QED BY <1>1, <1>2

(* A set of numbers that is not empty has a least one: induction on the     *)
(* numbers, for one set at a time.                                          *)
LEMMA LeastNumber ==
    ASSUME NEW T \in SUBSET Nat, T # {}
    PROVE  \E n \in T : \A m \in T : n <= m
<1> DEFINE R == {ss \in Nat \X Nat : ss[1] < ss[2]}
<1>1. IsWellFoundedOn(R, Nat)
  <2>1. R = OpToRel(<, Nat) BY DEF OpToRel
  <2> QED BY <2>1, NatLessThanWellFounded
<1>2. PICK n \in T : \A y \in T : ~(<<y, n>> \in R)
  <2> HIDE DEF R
  <2> QED BY <1>1, WFMin
<1>3. ASSUME NEW m \in T PROVE n <= m
  <2>1. <<m, n>> \notin R /\ m \in Nat /\ n \in Nat BY <1>2
  <2>2. ~(m < n) BY <2>1
  <2> QED BY <2>1, <2>2
<1> QED BY <1>3

(* g[t] are the tokens of the first t frames: the equation of upTo in       *)
(* Emitted.                                                                 *)
UpTo(pattern, offset, g) ==
    g = [t \in 0..Len(pattern) |->
           IF t = 0 THEN <<>>
           ELSE g[t - 1] \o [i \in 1..(IF pattern[t] < MaxSymbolsPerStep THEN pattern[t]
                                       ELSE MaxSymbolsPerStep) |-> offset + t - 1]]

(* How many symbols each frame of a chunk would give.                       *)
Patterns == [1..EncoderFramesPerChunk -> Nat]

(* The equation has a solution.                                             *)
LEMMA UpToExists ==
    ASSUME NEW pattern \in Patterns, NEW offset \in Nat
    PROVE  \E g : UpTo(pattern, offset, g)
<1> DEFINE Block(t) == [i \in 1..(IF pattern[t] < MaxSymbolsPerStep THEN pattern[t]
                                  ELSE MaxSymbolsPerStep) |-> offset + t - 1]
           Solves(f, n) == \A t \in 0..n : f[t] = IF t = 0 THEN <<>> ELSE f[t - 1] \o Block(t)
           Unsolved == {n \in Nat : ~ \E f : f = [t \in 0..n |-> f[t]] /\ Solves(f, n)}
<1>1. Unsolved = {}
  <2> SUFFICES ASSUME Unsolved # {} PROVE FALSE OBVIOUS
  <2>1. PICK n \in Unsolved : \A m \in Unsolved : n <= m
    <3>1. Unsolved \in SUBSET Nat OBVIOUS
    <3> HIDE DEF Unsolved
    <3> QED BY <3>1, LeastNumber
  <2>2. n \in Nat /\ ~ \E f : f = [t \in 0..n |-> f[t]] /\ Solves(f, n) BY <2>1
  <2>3. CASE n = 0
    <3> DEFINE f == [t \in 0..0 |-> <<>>]
    <3>1. f = [t \in 0..n |-> f[t]] /\ Solves(f, n) BY <2>3
    <3> QED BY <2>2, <3>1
  <2>4. CASE n # 0
    <3>1. n - 1 \in Nat /\ n - 1 \notin Unsolved
      <4>1. n \in Nat BY <2>2
      <4> HIDE DEF Unsolved
      <4>2. n - 1 \in Nat /\ ~(n <= n - 1) BY <2>4, <4>1
      <4> QED BY <2>1, <4>2
    <3>2. PICK f : Solves(f, n - 1) BY <3>1
    <3> DEFINE h == [t \in 0..n |-> IF t = n THEN f[n - 1] \o Block(n) ELSE f[t]]
    <3> HIDE DEF Block
    <3>3. h = [t \in 0..n |-> h[t]] OBVIOUS
    <3>4. ASSUME NEW t \in 0..n PROVE h[t] = IF t = 0 THEN <<>> ELSE h[t - 1] \o Block(t)
      <4>1. CASE t = n
        <5>1. h[n] = f[n - 1] \o Block(n) /\ h[n - 1] = f[n - 1] BY <2>2, <2>4
        <5> QED BY <2>4, <4>1, <5>1
      <4>2. CASE t # n
        <5>1. t \in 0..(n - 1) /\ h[t] = f[t] BY <2>2, <4>2
        <5>2. t # 0 => h[t - 1] = f[t - 1] BY <2>2, <4>2
        <5> QED BY <3>2, <5>1, <5>2
      <4> QED BY <4>1, <4>2
    <3> HIDE DEF h
    <3>5. Solves(h, n) BY <3>4
    <3> QED BY <2>2, <3>3, <3>5
  <2> QED BY <2>3, <2>4
<1> DEFINE n == Len(pattern)
<1>2. n \in Nat BY PlanFacts DEF Patterns, EncoderFramesPerChunk
<1> HIDE DEF n, Block, Solves
<1>3. PICK f : f = [t \in 0..n |-> f[t]] /\ Solves(f, n) BY <1>1, <1>2, Zenon
<1>4. f = [t \in 0..n |-> IF t = 0 THEN <<>> ELSE f[t - 1] \o Block(t)]
  BY <1>3 DEF Solves
<1> QED BY <1>4, Zenon DEF UpTo, n, Block

(* So Emitted solves it.                                                    *)
LEMMA EmittedSolves ==
    ASSUME NEW pattern \in Patterns, NEW offset \in Nat
    PROVE  \E g : UpTo(pattern, offset, g) /\ Emitted(pattern, offset) = g[Len(pattern)]
<1> DEFINE g == CHOOSE upTo : UpTo(pattern, offset, upTo)
<1>1. UpTo(pattern, offset, g) BY UpToExists, Zenon
<1>2. Emitted(pattern, offset) = g[Len(pattern)] BY Zenon DEF Emitted, UpTo
<1> QED BY <1>1, <1>2

(* The tokens of one frame.                                                 *)
LEMMA BlockInOrder ==
    ASSUME NEW n \in Nat, n <= MaxSymbolsPerStep, NEW frame \in Nat
    PROVE  /\ InOrder([i \in 1..n |-> frame], frame + 1)
           /\ From([i \in 1..n |-> frame], frame)
<1> DEFINE b == [i \in 1..n |-> frame]
<1>1. b \in Seq(Nat) /\ Len(b) = n /\ \A i \in 1..n : b[i] = frame
  OBVIOUS
<1> HIDE DEF b
<1>2. MaxSymbolsPerStep \in Nat BY BlockAssumption
<1>3. \A i \in 1..n : ~(i + MaxSymbolsPerStep <= n) BY <1>2
<1>4. InOrder(b, frame + 1) /\ From(b, frame) BY <1>1, <1>3 DEF InOrder, From
<1> QED BY <1>4 DEF b

(* A chunk's tokens are within its frames, in order, and no frame has more  *)
(* than MaxSymbolsPerStep of them.                                          *)
LEMMA EmittedInOrder ==
    ASSUME NEW pattern \in ScorePatterns, NEW offset \in Nat
    PROVE  /\ InOrder(Emitted(pattern, offset), offset + EncoderFramesPerChunk)
           /\ From(Emitted(pattern, offset), offset)
<1> DEFINE n == EncoderFramesPerChunk
<1>1. n \in Nat BY PlanFacts DEF EncoderFramesPerChunk
<1>2. pattern \in Patterns /\ Len(pattern) = n /\ \A t \in 1..n : pattern[t] \in Nat
  BY <1>1, BlockAssumption DEF Patterns
<1> HIDE DEF n
<1>3. PICK g : UpTo(pattern, offset, g) /\ Emitted(pattern, offset) = g[n]
  BY <1>2, EmittedSolves
<1> DEFINE k(t) == IF pattern[t] < MaxSymbolsPerStep THEN pattern[t] ELSE MaxSymbolsPerStep
           Block(t) == [i \in 1..k(t) |-> offset + t - 1]
<1>4. \A t \in 0..n : g[t] = IF t = 0 THEN <<>> ELSE g[t - 1] \o Block(t)
  BY <1>2, <1>3 DEF UpTo
<1>5. ASSUME NEW t \in 1..n
      PROVE  InOrder(Block(t), offset + t) /\ From(Block(t), offset + t - 1)
  <2>1. k(t) \in Nat /\ k(t) <= MaxSymbolsPerStep BY <1>2, BlockAssumption
  <2> HIDE DEF k
  <2>2. offset + t - 1 \in Nat /\ (offset + t - 1) + 1 = offset + t BY <1>1
  <2>3. /\ InOrder([i \in 1..k(t) |-> offset + t - 1], (offset + t - 1) + 1)
        /\ From([i \in 1..k(t) |-> offset + t - 1], offset + t - 1)
    BY <2>1, <2>2, BlockInOrder
  <2> QED BY <2>2, <2>3
<1> HIDE DEF Block
<1> DEFINE Ordered(t) == InOrder(g[t], offset + t) /\ From(g[t], offset)
           Bad == {t \in 0..n : ~Ordered(t)}
<1>6. Bad = {}
  <2> SUFFICES ASSUME Bad # {} PROVE FALSE OBVIOUS
  <2>1. PICK t \in Bad : \A m \in Bad : t <= m
    <3>1. Bad \in SUBSET Nat BY <1>1
    <3> HIDE DEF Bad
    <3> QED BY <3>1, LeastNumber
  <2>2. t \in 0..n /\ ~Ordered(t) OBVIOUS
  <2>3. CASE t = 0
    <3>1. g[t] = <<>> BY <1>1, <1>4, <2>3
    <3>2. <<>> \in Seq(Nat) /\ Len(<<>>) = 0 OBVIOUS
    <3> QED BY <2>2, <3>1, <3>2 DEF InOrder, From
  <2>4. CASE t # 0
    <3>1. t - 1 \in 0..n /\ t \in 1..n /\ ~(t <= t - 1) BY <1>1, <2>2, <2>4
    <3>2. Ordered(t - 1)
      <4>1. t - 1 \notin Bad
        <5> HIDE DEF Bad
        <5> QED BY <2>1, <3>1
      <4> QED BY <3>1, <4>1
    <3>3. g[t] = g[t - 1] \o Block(t) BY <1>4, <2>2, <2>4
    <3>4. InOrder(Block(t), offset + t) /\ From(Block(t), offset + t - 1) BY <1>5, <3>1
    <3>5. offset + (t - 1) = offset + t - 1 /\ offset + t - 1 \in Nat /\ offset + t \in Nat
          /\ offset + t - 1 <= offset + t
      BY <1>1, <3>1
    <3>6. InOrder(g[t], offset + t)
      <4>1. InOrder(g[t - 1], offset + t - 1) BY <3>2, <3>5
      <4>2. InOrder(g[t - 1] \o Block(t), offset + t)
        BY <3>4, <3>5, <4>1, OrderContinues
      <4> QED BY <3>3, <4>2
    <3>7. From(g[t], offset)
      <4>1. /\ g[t - 1] \in Seq(Nat) /\ Block(t) \in Seq(Nat)
            /\ \A i \in 1..Len(g[t - 1]) : g[t - 1][i] >= offset
            /\ \A i \in 1..Len(Block(t)) : Block(t)[i] >= offset + t - 1
        BY <3>2, <3>4 DEF InOrder, From
      <4>2. \A i \in 1..Len(Block(t)) : Block(t)[i] \in Nat BY <4>1
      <4>3. offset + t - 1 >= offset BY <3>1
      <4>4. \A i \in 1..Len(Block(t)) : Block(t)[i] >= offset BY <4>1, <4>2, <4>3, <3>5
      <4>5. From(g[t - 1], offset) /\ From(Block(t), offset) BY <4>1, <4>4 DEF From
      <4> QED BY <3>3, <4>1, <4>5, FromContinues
    <3> QED BY <2>2, <3>6, <3>7
  <2> QED BY <2>3, <2>4
<1>7. Ordered(n)
  <2>1. n \in 0..n /\ n \notin Bad BY <1>1, <1>6
  <2> QED BY <2>1
<1> QED BY <1>3, <1>7 DEF n

(* What the caller has, and what the call under way has decoded.            *)
Decoded == tokens \o output

(* The tokens of the session so far, returned or about to be, and the       *)
(* symbols the prediction network has been fed.                             *)
TokensInv ==
    /\ tokens \in Seq(Nat) /\ output \in Seq(Nat)
    /\ InOrder(Decoded, framesSeen)
    /\ faults = <<>> =>
          /\ prediction.initialized \in BOOLEAN
          /\ prediction.initialized =>
                /\ prediction.cached = 1 + Len(Decoded)
                /\ prediction.layers = <<1 + Len(Decoded), 1 + Len(Decoded)>>
          /\ ~prediction.initialized => Len(Decoded) = 0 /\ prediction.layers = <<0, 0>>

(* What the caller has is in order without what a failed call had decoded.  *)
LEMMA OrderOfPrefix ==
    ASSUME NEW s, NEW u, s \in Seq(Nat), u \in Seq(Nat), NEW middle \in Nat, NEW end \in Nat,
           middle <= end, InOrder(s \o u, middle)
    PROVE  InOrder(s, end)
<1>1. /\ Len(s) \in Nat /\ Len(u) \in Nat /\ Len(s \o u) = Len(s) + Len(u)
      /\ \A i \in 1..Len(s) : (s \o u)[i] = s[i] /\ s[i] \in Nat
  BY Concatenated
<1>2. \A i \in 1..Len(s) : i \in 1..Len(s \o u) BY <1>1
<1>3. ASSUME NEW i \in 1..Len(s) PROVE s[i] < end
  <2>1. s[i] < middle BY <1>1, <1>2 DEF InOrder
  <2> QED BY <1>1, <2>1
<1>4. \A i, j \in 1..Len(s) : i < j => s[i] <= s[j] BY <1>1, <1>2 DEF InOrder
<1>5. ASSUME NEW i \in 1..Len(s), i + MaxSymbolsPerStep <= Len(s)
      PROVE  s[i] < s[i + MaxSymbolsPerStep]
  <2>1. MaxSymbolsPerStep \in Nat BY BlockAssumption
  <2>2. i + MaxSymbolsPerStep \in 1..Len(s) /\ i + MaxSymbolsPerStep <= Len(s \o u)
    BY <1>1, <1>5, <2>1
  <2> QED BY <1>1, <1>2, <2>2 DEF InOrder
<1> QED BY <1>3, <1>4, <1>5 DEF InOrder

(* Before the first chunk there is no token.                                *)
LEMMA TokensInit == Init => TokensInv
<1> SUFFICES ASSUME Init PROVE TokensInv OBVIOUS
<1>1. <<>> \in Seq(Nat) /\ <<>> \o <<>> = <<>> /\ Len(<<>>) = 0 OBVIOUS
<1>2. tokens = <<>> /\ output = <<>> /\ Decoded = <<>> BY <1>1 DEF Init, Decoded
<1>3. InOrder(Decoded, framesSeen) BY <1>1, <1>2 DEF InOrder
<1> QED BY <1>1, <1>2, <1>3 DEF Init, TokensInv, NewPrediction

(* A chunk's tokens follow those of the chunks before.                      *)
LEMMA ChunkKeepsOrder ==
    ASSUME Lookahead # 0, IInv, ClockInv, TokensInv, NEW pattern \in ScorePatterns,
           DecodeChunk(pattern)
    PROVE  TokensInv'
<1> DEFINE e == Emitted(pattern, framesSeen)  n == StepsFor(e)
<1>1. /\ output' = output \o e /\ prediction' = Predicted(n, 0) /\ EncodeDone
      /\ queue # <<>> /\ encodedMel' = encodedMel + Chunk.frames
      /\ UNCHANGED <<tokens, skippedMel, faults>>
  BY DEF DecodeChunk
<1>2. framesSeen' = framesSeen + EncoderFramesPerChunk
  <2>1. NoEncoderFault' => NoEncoderFault BY <1>1 DEF NoEncoderFault
  <2>2. skippedMel' \in Nat BY <1>1 DEF IInv, Types
  <2> QED BY <1>1, <2>1, <2>2, EncodeDoneKeepsTime
<1>3. framesSeen \in Nat /\ framesSeen' \in Nat /\ framesSeen <= framesSeen'
  BY <1>2, PlanFacts DEF ClockInv, EncoderFramesPerChunk
<1>4. InOrder(e, framesSeen') /\ From(e, framesSeen) BY <1>2, <1>3, EmittedInOrder
<1> HIDE DEF e
<1>5. e \in Seq(Nat) /\ tokens \in Seq(Nat) /\ output \in Seq(Nat) /\ Decoded \in Seq(Nat)
  BY <1>4 DEF TokensInv, InOrder
<1>6. Decoded' = Decoded \o e /\ output' \in Seq(Nat)
  <2>1. \A a, b, c \in Seq(Nat) : a \o (b \o c) = (a \o b) \o c BY SMTT(30)
  <2>2. output' = output \o e /\ tokens' = tokens BY <1>1 DEF e
  <2>3. Decoded' = tokens \o (output \o e) BY <2>2 DEF Decoded
  <2>4. tokens \o (output \o e) = (tokens \o output) \o e BY <1>5, <2>1
  <2>5. output \o e \in Seq(Nat) BY <1>5, Concatenated
  <2> QED BY <2>2, <2>3, <2>4, <2>5 DEF Decoded
<1>7. InOrder(Decoded', framesSeen')
  BY <1>3, <1>4, <1>6, OrderContinues DEF TokensInv
<1>8. /\ Len(Decoded') = Len(Decoded) + Len(e) /\ Len(e) \in Nat /\ Len(Decoded) \in Nat
  BY <1>5, <1>6, Concatenated
<1>9. ASSUME faults = <<>>
      PROVE  /\ prediction'.initialized = (prediction.initialized \/ n > 0)
             /\ n = Len(e) + (IF prediction.initialized THEN 0 ELSE 1)
             /\ prediction'.layers = <<prediction.layers[1] + n, prediction.layers[2] + n>>
             /\ prediction'.cached = IF n = 0 THEN prediction.cached ELSE prediction.layers[1] + n
  BY <1>1, <1>9 DEF Predicted, StepsFor, LstmFed
<1>10. ASSUME faults = <<>>
       PROVE  /\ prediction'.initialized \in BOOLEAN
              /\ prediction'.initialized =>
                    /\ prediction'.cached = 1 + Len(Decoded')
                    /\ prediction'.layers = <<1 + Len(Decoded'), 1 + Len(Decoded')>>
              /\ ~prediction'.initialized =>
                    Len(Decoded') = 0 /\ prediction'.layers = <<0, 0>>
  <2>1. /\ prediction.initialized \in BOOLEAN
        /\ prediction.initialized =>
              /\ prediction.cached = 1 + Len(Decoded)
              /\ prediction.layers = <<1 + Len(Decoded), 1 + Len(Decoded)>>
        /\ ~prediction.initialized => Len(Decoded) = 0 /\ prediction.layers = <<0, 0>>
    BY <1>10 DEF TokensInv
  <2>2. /\ prediction'.initialized = (prediction.initialized \/ n > 0)
        /\ n = Len(e) + (IF prediction.initialized THEN 0 ELSE 1)
        /\ prediction'.layers = <<prediction.layers[1] + n, prediction.layers[2] + n>>
        /\ prediction'.cached = IF n = 0 THEN prediction.cached ELSE prediction.layers[1] + n
    BY <1>9, <1>10
  <2> HIDE DEF n
  <2>3. CASE prediction.initialized
    <3>1. n = Len(e) /\ n \in Nat BY <1>8, <2>2, <2>3
    <3>2. prediction.layers[1] = 1 + Len(Decoded) /\ prediction.layers[2] = 1 + Len(Decoded)
      BY <2>1, <2>3
    <3>6. prediction.layers[1] + n = 1 + Len(Decoded') BY <1>8, <3>1, <3>2
    <3>3. prediction'.layers = <<1 + Len(Decoded'), 1 + Len(Decoded')>>
      BY <2>2, <3>2, <3>6
    <3>4. prediction'.cached = 1 + Len(Decoded') BY <1>8, <2>1, <2>2, <2>3, <3>1, <3>2
    <3>5. prediction'.initialized = TRUE BY <2>2, <2>3
    <3> QED BY <3>3, <3>4, <3>5
  <2>4. CASE ~prediction.initialized
    <3>1. n = Len(e) + 1 /\ n \in Nat /\ n > 0 BY <1>8, <2>2, <2>4
    <3>2. prediction.layers[1] = 0 /\ prediction.layers[2] = 0 /\ Len(Decoded) = 0
      BY <2>1, <2>4
    <3>3. prediction'.layers = <<1 + Len(Decoded'), 1 + Len(Decoded')>>
      BY <1>8, <2>2, <3>1, <3>2
    <3>4. prediction'.cached = 1 + Len(Decoded') BY <1>8, <2>2, <3>1, <3>2
    <3>5. prediction'.initialized = TRUE BY <2>2, <3>1
    <3> QED BY <3>3, <3>4, <3>5
  <2> QED BY <2>1, <2>3, <2>4
<1>11. faults' = <<>> => faults = <<>> BY <1>1
<1>12. tokens' \in Seq(Nat) BY <1>1, <1>5
<1> QED BY <1>6, <1>7, <1>10, <1>11, <1>12 DEF TokensInv

(* A call that fails returns nothing, and what it had decoded is dropped.   *)
LEMMA FailureKeepsOrder ==
    ASSUME Lookahead # 0, IInv, ClockInv, TokensInv, NEW kind \in {"encode", "decode"},
           CallFails(kind), framesSeen' \in Nat, framesSeen <= framesSeen'
    PROVE  TokensInv'
<1>1. /\ output' = <<>> /\ tokens' = tokens /\ faults' = Append(faults, kind)
  BY DEF CallFails
<1>2. faults' # <<>>
  <2>1. faults \in Seq({"encode", "decode"}) BY DEF IInv, Types
  <2> QED BY <1>1, <2>1
<1>3. tokens \in Seq(Nat) /\ output \in Seq(Nat) BY DEF TokensInv
<1>4. Decoded' = tokens /\ output' \in Seq(Nat) BY <1>1, <1>3 DEF Decoded
<1>5. framesSeen \in Nat BY DEF ClockInv
<1>6. InOrder(tokens \o output, framesSeen) BY DEF TokensInv, Decoded
<1>7. InOrder(tokens, framesSeen') BY <1>3, <1>5, <1>6, OrderOfPrefix
<1>8. InOrder(Decoded', framesSeen') BY <1>4, <1>7
<1> QED BY <1>1, <1>2, <1>3, <1>4, <1>8 DEF TokensInv

(* Every step keeps the order of the tokens.                                *)
LEMMA StepTokens ==
    ASSUME Lookahead # 0, IInv, ClockInv, TokensInv, [Next]_vars PROVE TokensInv'
<1>1. ASSUME UNCHANGED <<tokens, output, framesSeen, faults, prediction>> PROVE TokensInv'
  BY <1>1 DEF TokensInv, Decoded
<1>2. ASSUME NEW n \in Blocks, Push(n) PROVE TokensInv'
  BY <1>1, <1>2 DEF Push, transcriber, ghosts
<1>3. CASE Finish BY <1>1, <1>3 DEF Finish, transcriber, ghosts
<1>4. CASE Reset
  <2>1. framesSeen' = 0 /\ prediction' = NewPrediction /\ output' = <<>> /\ tokens' = <<>>
    BY <1>4 DEF Reset
  <2>2. <<>> \in Seq(Nat) /\ <<>> \o <<>> = <<>> /\ Len(<<>>) = 0 OBVIOUS
  <2>3. Decoded' = <<>> BY <2>1, <2>2 DEF Decoded
  <2>4. InOrder(Decoded', framesSeen') BY <2>1, <2>2, <2>3 DEF InOrder
  <2> QED BY <2>1, <2>2, <2>3, <2>4 DEF TokensInv, NewPrediction
<1>5. CASE CutWindow \/ CutIsDone
  <2>1. ~Underflow BY NextWindowIsPlaced DEF IInv
  <2> QED BY <1>1, <1>5, <2>1 DEF CutWindow, CutIsDone, transcriber, ghosts
<1>6. CASE Return
  <2>1. /\ tokens' = tokens \o output /\ output' = <<>>
        /\ UNCHANGED <<framesSeen, faults, prediction>>
    BY <1>6 DEF Return, transcriber
  <2>2. tokens \in Seq(Nat) /\ output \in Seq(Nat) BY DEF TokensInv
  <2>3. tokens' \in Seq(Nat) /\ output' \in Seq(Nat) BY <2>1, <2>2, Concatenated
  <2>4. \A s \in Seq(Nat) : s \o <<>> = s OBVIOUS
  <2>5. Decoded' = tokens' \o <<>> BY <2>1 DEF Decoded
  <2>6. Decoded' = tokens' BY <2>3, <2>4, <2>5
  <2>7. Decoded' = Decoded BY <2>1, <2>6 DEF Decoded
  <2> QED BY <2>1, <2>3, <2>7 DEF TokensInv
<1>7. ASSUME NEW pattern \in ScorePatterns, DecodeChunk(pattern) PROVE TokensInv'
  BY <1>7, ChunkKeepsOrder
<1>8. ASSUME NEW pattern \in ScorePatterns, NEW steps \in 0..(EncoderFramesPerChunk * MaxSymbolsPerStep),
             NEW partial \in 0..2, DecodeFails(pattern, steps, partial)
      PROVE  TokensInv'
  <2>1. /\ queue # <<>> /\ EncodeDone /\ encodedMel' = encodedMel + Chunk.frames
        /\ faults' = Append(faults, "decode") /\ CallFails("decode")
    BY <1>8 DEF DecodeFails, CallFails
  <2>2. NoEncoderFault' => NoEncoderFault BY <2>1, FaultsGrow
  <2>3. skippedMel' \in Nat BY <1>8, StepIInv DEF IInv, Types
  <2>4. framesSeen' = framesSeen + EncoderFramesPerChunk BY <2>1, <2>2, <2>3, EncodeDoneKeepsTime
  <2>5. framesSeen' \in Nat /\ framesSeen <= framesSeen'
    BY <2>4, PlanFacts DEF ClockInv, EncoderFramesPerChunk
  <2> QED BY <2>1, <2>5, FailureKeepsOrder
<1>9. ASSUME NEW done \in 0..CacheUpdates, EncodeFails(done) PROVE TokensInv'
  <2>1. CallFails("encode") /\ framesSeen' = framesSeen BY <1>9 DEF EncodeFails
  <2>2. framesSeen' \in Nat /\ framesSeen <= framesSeen' BY <2>1 DEF ClockInv
  <2> QED BY <2>1, <2>2, FailureKeepsOrder
<1>10. CASE UNCHANGED vars BY <1>1, <1>10 DEF vars, transcriber, ghosts
<1> QED BY <1>2, <1>3, <1>4, <1>5, <1>6, <1>7, <1>8, <1>9, <1>10 DEF Next, Running

(* Tokens come out in the order of their frames, none of a frame the clock  *)
(* has not reached, and the prediction network has been fed the blank and   *)
(* every one of them: whatever fails, whatever the blocks and the scores.   *)
THEOREM TokensAreInOrder ==
    ASSUME Lookahead # 0 PROVE Spec => []TokensFollowTheClock
<1>1. TokensInv => TokensFollowTheClock
  <2> SUFFICES ASSUME TokensInv PROVE TokensFollowTheClock OBVIOUS
  <2>1. InOrder(Decoded, framesSeen) BY DEF TokensInv
  <2>2. Decoded \in Seq(Nat) /\ DOMAIN Decoded = 1..Len(Decoded) BY <2>1 DEF InOrder
  <2>3. /\ \A i \in DOMAIN Decoded : Decoded[i] < framesSeen
        /\ \A i, j \in DOMAIN Decoded : i < j => Decoded[i] <= Decoded[j]
        /\ \A i \in DOMAIN Decoded : i + MaxSymbolsPerStep \in DOMAIN Decoded =>
              Decoded[i] < Decoded[i + MaxSymbolsPerStep]
    BY <2>1, <2>2 DEF InOrder
  <2> QED BY <2>3 DEF TokensInv, Decoded, TokensFollowTheClock
<1>2. Init => IInv /\ ClockInv /\ TokensInv BY InitIInv, ClockInit, TokensInit
<1>3. IInv /\ ClockInv /\ TokensInv /\ [Next]_vars => (IInv /\ ClockInv /\ TokensInv)'
  BY StepIInv, StepKeepsTime, StepTokens
<1> QED BY <1>1, <1>2, <1>3, PTL DEF Spec

-----------------------------------------------------------------------------
(* The subsampling of an utterance.                                         *)

(* The utterance after each stage.                                          *)
After1 == StageOf(Heard, 4 * Lookahead)
After2 == StageOf(After1, 2 * Lookahead)
After3 == StageOf(After2, Lookahead)

(* The profiles of the three stages are profiles.                           *)
LEMMA Profiled ==
    /\ Heard \in Profiles /\ Heard[-1] = {} /\ Heard[-2] = {}
    /\ After1 \in Profiles /\ After1[-1] = {} /\ After1[-2] = {}
    /\ After2 \in Profiles /\ After2[-1] = {} /\ After2[-2] = {}
    /\ After3 \in Profiles
<1>1. 4 * Lookahead \in Int /\ 2 * Lookahead \in Int /\ Lookahead \in Int BY PlanFacts
<1>2. After1 \in Profiles /\ After1[-1] = {} /\ After1[-2] = {}
  BY <1>1, HeardProfile, StageProfile DEF After1
<1>3. After2 \in Profiles /\ After2[-1] = {} /\ After2[-2] = {}
  BY <1>1, <1>2, StageProfile DEF After2
<1>4. After3 \in Profiles BY <1>1, <1>3, StageProfile DEF After3
<1> QED BY <1>2, <1>3, <1>4, HeardProfile

(* The caches of the three stages when the clock is at "seen".              *)
CachesAt(caches, seen) ==
    /\ caches \in [1..3 -> ConvCaches]
    /\ IF seen = 0
       THEN \A s \in 1..3 : caches[s].first /\ caches[s].frame = {}
       ELSE /\ \A s \in 1..3 : ~caches[s].first
            /\ caches[1].frame = Heard[8 * seen - 8]
            /\ caches[2].frame = After1[4 * seen - 4]
            /\ caches[3].frame = After2[2 * seen - 2]

(* The mel frames of the chunk that comes then.                             *)
MelAt(mel, seen) ==
    /\ mel \in Frames
    /\ Len(mel) = IF seen = 0 THEN FirstMelFrames ELSE SubsequentMelFrames
    /\ \A i \in 1..Len(mel) : mel[i] = Heard[(IF seen = 0 THEN 0 ELSE 8 * seen - 7) + i - 1]

(* The three stages take the caches at one clock and the mel frames that    *)
(* come then to the frames of the profile and the caches at the next clock. *)
LEMMA SubsampleFollows ==
    ASSUME Lookahead # 0, NEW caches, NEW mel, NEW seen \in Nat,
           seen = 0 \/ seen > Lookahead, CachesAt(caches, seen), MelAt(mel, seen)
    PROVE  LET out == Subsample(caches, mel)
           IN  /\ \A t \in 1..Len(out.frames) : out.frames[t] = After3[seen + t - 1]
               /\ CachesAt(out.caches, seen + Lookahead + 1)
<1> DEFINE l  == Lookahead
           start == seen = 0
           b0 == [frames |-> mel, valid |-> Len(mel), caches |-> caches]
           b1 == SubsamplingStage(1, b0)
           b2 == SubsamplingStage(2, b1)
           b3 == SubsamplingStage(3, b2)
           new == seen + l + 1
<1>1. /\ b0 \in Stages /\ b0.caches = caches /\ b0.frames = mel /\ b0.valid = Len(mel)
      /\ caches \in [1..3 -> ConvCaches]
  <2>1. Len(mel) \in Int BY DEF Frames, MelAt
  <2> QED BY <2>1 DEF Stages, CachesAt, MelAt
<1>2. Subsample(caches, mel) = b3 BY DEF Subsample
<1>3. l \in Nat /\ l > 0 BY PlanFacts
<1>4. /\ Len(mel) = IF start THEN 2 * (4 * l) + 1 ELSE 2 * (4 * l + 4)
      /\ \A i \in 1..Len(mel) :
            mel[i] = Heard[(IF start THEN 0 ELSE 2 * (4 * seen) + 1 - 2 * 4) + i - 1]
  <2>1. /\ Len(mel) = IF start THEN 8 * l + 1 ELSE 8 * l + 8
        /\ \A i \in 1..Len(mel) : mel[i] = Heard[(IF start THEN 0 ELSE 8 * seen - 7) + i - 1]
    BY PlanFacts DEF MelAt
  <2>2. 2 * (4 * l) = 8 * l /\ 2 * (4 * l + 4) = 8 * l + 8 /\ 2 * (4 * seen) + 1 - 2 * 4 = 8 * seen - 7
    BY <1>3
  <2> QED BY <2>1, <2>2
<1>5. /\ \A s \in 1..3 : caches[s].first = start /\ (start => caches[s].frame = {})
      /\ ~start => /\ caches[1].frame = Heard[2 * (4 * seen) - 2 * 4]
                   /\ caches[2].frame = After1[2 * (2 * seen) - 2 * 2]
                   /\ caches[3].frame = After2[2 * seen - 2 * 1]
  <2>1. \A s \in 1..3 : caches[s].first \in BOOLEAN BY <1>1 DEF ConvCaches
  <2>2. /\ 2 * (4 * seen) - 2 * 4 = 8 * seen - 8 /\ 2 * (2 * seen) - 2 * 2 = 4 * seen - 4
        /\ 2 * seen - 2 * 1 = 2 * seen - 2
    OBVIOUS
  <2> QED BY <2>1, <2>2 DEF CachesAt
<1>6. /\ start \in BOOLEAN /\ (start => seen = 0) /\ (~start => seen >= l + 1)
  BY <1>3
<1>7. /\ 4 * l \in Nat /\ 4 * l > 0 /\ 4 * seen \in Nat /\ 2 * l \in Nat /\ 2 * l > 0
      /\ 2 * seen \in Nat /\ (start => 4 * seen = 0 /\ 2 * seen = 0)
      /\ (~start => 4 * seen >= 4 * l + 4 /\ 2 * seen >= 2 * l + 2)
  BY <1>3, <1>6
<1> HIDE DEF b0, start
<1>8. /\ b1 \in Stages /\ ~b1.caches[1].first
      /\ b1.caches[2] = caches[2] /\ b1.caches[3] = caches[3]
  BY <1>1, Stage
<1>9. /\ \A t \in 1..Len(b1.frames) :
            b1.frames[t] = StageOf(Heard, 4 * l)[(IF start THEN 0 ELSE 4 * seen + 1 - 4) + t - 1]
      /\ b1.caches[1].frame = Heard[2 * (4 * seen + 4 * l + 4) - 2 * 4]
      /\ b1.valid = (IF start THEN 4 * l ELSE 4 * l + 4)
      /\ Len(b1.frames) = IF start THEN 4 * l + 1 ELSE 4 * l + 4
  <2> DEFINE a == 4 * l  q == 4 * seen  k == 4
  <2>1. /\ a \in Nat /\ q \in Nat /\ k \in Nat /\ a > 0 /\ k > 0
        /\ (start => q = 0) /\ (~start => q >= a + k)
        /\ b0.caches[1].first = start /\ (start => b0.caches[1].frame = {})
        /\ (~start => b0.caches[1].frame = Heard[2 * q - 2 * k])
        /\ Len(b0.frames) = (IF start THEN 2 * a + 1 ELSE 2 * (a + k))
        /\ \A i \in 1..Len(b0.frames) :
              b0.frames[i] = Heard[(IF start THEN 0 ELSE 2 * q + 1 - 2 * k) + i - 1]
    BY <1>1, <1>4, <1>5, <1>7
  <2>2. (start => b0.valid = 2 * a + 1) /\ (~start => b0.valid = 2 * (a + k))
    BY <1>1, <1>4
  <2> HIDE DEF a, q, k
  <2>3. Scale(start, k, a, q) /\ Given(1, b0, Heard, start, k, a, q)
    BY <1>1, <1>6, <2>1, <2>2 DEF Scale, Given
  <2>5. /\ Yields(1, SubsamplingStage(1, b0), StageOf(Heard, a), IF start THEN 0 ELSE q + 1 - k,
                  Heard[2 * (q + a + k) - 2 * k])
        /\ SubsamplingStage(1, b0).valid = (IF start THEN a ELSE a + k)
        /\ Len(SubsamplingStage(1, b0).frames) = IF start THEN a + 1 ELSE a + k
    BY <2>3, Profiled, StageStep
  <2> QED BY <2>5 DEF a, q, k, Yields
<1>10. StageOf(Heard, 4 * l) = After1 BY DEF After1
<1> HIDE DEF b1
<1>11. /\ b2 \in Stages /\ ~b2.caches[2].first
       /\ b2.caches[1] = b1.caches[1] /\ b2.caches[3] = caches[3]
  BY <1>8, Stage
<1>12. /\ \A t \in 1..Len(b2.frames) :
             b2.frames[t] = StageOf(After1, 2 * l)[(IF start THEN 0 ELSE 2 * seen + 1 - 2) + t - 1]
       /\ b2.caches[2].frame = After1[2 * (2 * seen + 2 * l + 2) - 2 * 2]
       /\ b2.valid = (IF start THEN 2 * l ELSE 2 * l + 2)
       /\ Len(b2.frames) = IF start THEN 2 * l + 1 ELSE 2 * l + 2
  <2> DEFINE a == 2 * l  q == 2 * seen  k == 2
  <2>1. /\ 2 * a = 4 * l /\ 2 * (a + k) = 4 * l + 4 /\ 2 * q + 1 - 2 * k = 4 * seen + 1 - 4
    BY <1>3
  <2>2. /\ a \in Nat /\ q \in Nat /\ k \in Nat /\ a > 0 /\ k > 0
        /\ (start => q = 0) /\ (~start => q >= a + k)
        /\ b1.caches[2].first = start /\ (start => b1.caches[2].frame = {})
        /\ (~start => b1.caches[2].frame = After1[2 * q - 2 * k])
    BY <1>5, <1>7, <1>8
  <2>3. /\ Len(b1.frames) = (IF start THEN 2 * a + 1 ELSE 2 * (a + k))
        /\ \A i \in 1..Len(b1.frames) :
              b1.frames[i] = After1[(IF start THEN 0 ELSE 2 * q + 1 - 2 * k) + i - 1]
        /\ (start => b1.valid = 2 * a) /\ (~start => b1.valid = 2 * (a + k))
    BY <1>9, <1>10, <2>1
  <2> HIDE DEF a, q, k
  <2>4. Scale(start, k, a, q) /\ Given(2, b1, After1, start, k, a, q)
    BY <1>6, <1>8, <2>2, <2>3 DEF Scale, Given
  <2>5. /\ Yields(2, SubsamplingStage(2, b1), StageOf(After1, a), IF start THEN 0 ELSE q + 1 - k,
                  After1[2 * (q + a + k) - 2 * k])
        /\ SubsamplingStage(2, b1).valid = (IF start THEN a ELSE a + k)
        /\ Len(SubsamplingStage(2, b1).frames) = IF start THEN a + 1 ELSE a + k
    BY <2>4, Profiled, StageStep
  <2> QED BY <2>5 DEF a, q, k, Yields
<1>13. StageOf(After1, 2 * l) = After2 BY DEF After2
<1> HIDE DEF b2
<1>14. /\ b3 \in Stages /\ ~b3.caches[3].first
       /\ b3.caches[1] = b2.caches[1] /\ b3.caches[2] = b2.caches[2]
  BY <1>11, Stage
<1>15. /\ \A t \in 1..Len(b3.frames) :
             b3.frames[t] = StageOf(After2, l)[(IF start THEN 0 ELSE seen + 1 - 1) + t - 1]
       /\ b3.caches[3].frame = After2[2 * (seen + l + 1) - 2 * 1]
  <2> DEFINE a == l  q == seen  k == 1
  <2>1. /\ 2 * (a + k) = 2 * l + 2 /\ 2 * q + 1 - 2 * k = 2 * seen + 1 - 2
    BY <1>3
  <2>2. /\ a \in Nat /\ q \in Nat /\ k \in Nat /\ a > 0 /\ k > 0
        /\ (start => q = 0) /\ (~start => q >= a + k)
        /\ b2.caches[3].first = start /\ (start => b2.caches[3].frame = {})
        /\ (~start => b2.caches[3].frame = After2[2 * q - 2 * k])
    BY <1>3, <1>5, <1>6, <1>11
  <2>3. /\ Len(b2.frames) = (IF start THEN 2 * a + 1 ELSE 2 * (a + k))
        /\ \A i \in 1..Len(b2.frames) :
              b2.frames[i] = After2[(IF start THEN 0 ELSE 2 * q + 1 - 2 * k) + i - 1]
        /\ (start => b2.valid = 2 * a) /\ (~start => b2.valid = 2 * (a + k))
    BY <1>12, <1>13, <2>1
  <2> HIDE DEF a, q, k
  <2>4. Scale(start, k, a, q) /\ Given(3, b2, After2, start, k, a, q)
    BY <1>6, <1>11, <2>2, <2>3 DEF Scale, Given
  <2>5. /\ Yields(3, SubsamplingStage(3, b2), StageOf(After2, a), IF start THEN 0 ELSE q + 1 - k,
                  After2[2 * (q + a + k) - 2 * k])
        /\ SubsamplingStage(3, b2).valid = (IF start THEN a ELSE a + k)
        /\ Len(SubsamplingStage(3, b2).frames) = IF start THEN a + 1 ELSE a + k
    BY <2>4, Profiled, StageStep
  <2> QED BY <2>5 DEF a, q, k, Yields
<1>16. StageOf(After2, l) = After3 BY DEF After3
<1> HIDE DEF b3
<1>17. (IF start THEN 0 ELSE seen + 1 - 1) = seen BY <1>6
<1>18. /\ new # 0 /\ new \in Nat /\ 2 * (4 * seen + 4 * l + 4) - 2 * 4 = 8 * new - 8
       /\ 2 * (2 * seen + 2 * l + 2) - 2 * 2 = 4 * new - 4
       /\ 2 * (seen + l + 1) - 2 * 1 = 2 * new - 2
  BY <1>3
<1> HIDE DEF new
<1>19. b3.caches \in [1..3 -> ConvCaches] BY <1>14 DEF Stages
<1>20. \A s \in 1..3 : ~b3.caches[s].first
  <2>1. \A s \in 1..3 : s = 1 \/ s = 2 \/ s = 3 OBVIOUS
  <2> QED BY <1>8, <1>11, <1>14, <2>1
<1>21. /\ b3.caches[1].frame = Heard[8 * new - 8] /\ b3.caches[2].frame = After1[4 * new - 4]
       /\ b3.caches[3].frame = After2[2 * new - 2]
  BY <1>9, <1>11, <1>12, <1>14, <1>15, <1>18
<1>22. CachesAt(b3.caches, new) BY <1>18, <1>19, <1>20, <1>21 DEF CachesAt
<1>23. \A t \in 1..Len(b3.frames) : b3.frames[t] = After3[seen + t - 1]
  BY <1>15, <1>16, <1>17
<1> QED BY <1>2, <1>22, <1>23 DEF new

(* Samples, where the offline reference counts mel frames.                  *)
Centres(mels) == {160 * m : m \in mels}

(* The mel frames that frame t of an utterance sees where a stage has one   *)
(* frame for c of them.                                                     *)
Seen(c, t) == {m \in Nat : c * t - 2 * c + 2 <= m /\ m <= c * t}

LEMMA CentresJoin ==
    ASSUME NEW x, NEW y, NEW z
    PROVE  Centres(x) \cup Centres(y) \cup Centres(z) = Centres(x \cup y \cup z)
BY DEF Centres

(* Three frames of a stage see together what one of the next stage sees.    *)
LEMMA SeenByStage ==
    ASSUME NEW c \in {1, 2, 4}, NEW t \in Int
    PROVE  /\ Seen(c, 2 * t - 2) \cup Seen(c, 2 * t - 1) \cup Seen(c, 2 * t) = Seen(2 * c, t)
           /\ t < 0 => Seen(c, t) = {}
<1>1. CASE c = 1 BY <1>1 DEF Seen
<1>2. CASE c = 2 BY <1>2 DEF Seen
<1>3. CASE c = 4 BY <1>3 DEF Seen
<1> QED BY <1>1, <1>2, <1>3

(* One stage of the reference.                                              *)
LEMMA OfflineStageSees ==
    ASSUME NEW c \in {1, 2, 4}, NEW last \in Nat, NEW g,
           \A t \in 0..(2 * last) : g[t] = Seen(c, t)
    PROVE  \A t \in 0..last : OfflineStage(last, g)[t] = Seen(2 * c, t)
<1> SUFFICES ASSUME NEW t \in 0..last PROVE OfflineStage(last, g)[t] = Seen(2 * c, t) OBVIOUS
<1> DEFINE near == {2 * t - 2, 2 * t - 1, 2 * t}
<1>1. OfflineStage(last, g)[t] = UNION {g[u] : u \in near \cap Nat} BY DEF OfflineStage
<1>2. ASSUME NEW u \in near
      PROVE  u \in Nat => g[u] = Seen(c, u)
  <2>1. u \in Nat => u \in 0..(2 * last) OBVIOUS
  <2> QED BY <2>1
<1>3. \A u \in near : u \in Int /\ (u \notin Nat => Seen(c, u) = {})
  <2>1. \A u \in near : u \in Int /\ (u \notin Nat => u < 0) OBVIOUS
  <2> QED BY <2>1, SeenByStage
<1> HIDE DEF near
<1>4. UNION {g[u] : u \in near \cap Nat} = UNION {Seen(c, u) : u \in near} BY <1>2, <1>3
<1>5. UNION {Seen(c, u) : u \in near}
        = Seen(c, 2 * t - 2) \cup Seen(c, 2 * t - 1) \cup Seen(c, 2 * t)
  <2> DEFINE i == 2 * t - 2  j == 2 * t - 1  k == 2 * t
  <2>1. near = {i, j, k} BY DEF near
  <2> HIDE DEF i, j, k
  <2>2. UNION {Seen(c, u) : u \in {i, j, k}} = Seen(c, i) \cup Seen(c, j) \cup Seen(c, k) OBVIOUS
  <2> QED BY <2>1, <2>2 DEF i, j, k
<1>6. t \in Int OBVIOUS
<1> QED BY <1>1, <1>4, <1>5, <1>6, SeenByStage

(* A frame of the reference sees the fifteen mel frames up to its own.      *)
LEMMA OfflineSees ==
    ASSUME NEW f \in Nat PROVE OfflineSubsampled(f) = Seen(8, f)
<1> DEFINE g0 == [t \in 0..(8 * f) |-> {t}]
           g1 == OfflineStage(4 * f, g0)
           g2 == OfflineStage(2 * f, g1)
<1>1. 4 * f \in Nat /\ 2 * f \in Nat /\ 2 * (4 * f) = 8 * f /\ 2 * (2 * f) = 4 * f OBVIOUS
<1>2. \A t \in 0..(8 * f) : g0[t] = Seen(1, t) BY DEF Seen
<1> HIDE DEF g0
<1>3. \A t \in 0..(4 * f) : g1[t] = Seen(2, t) BY <1>1, <1>2, OfflineStageSees
<1> HIDE DEF g1
<1>4. \A t \in 0..(2 * f) : g2[t] = Seen(4, t) BY <1>1, <1>3, OfflineStageSees
<1> HIDE DEF g2
<1>5. \A t \in 0..f : OfflineStage(f, g2)[t] = Seen(8, t) BY <1>4, OfflineStageSees
<1>6. OfflineSubsampled(f) = OfflineStage(f, g2)[f] BY DEF OfflineSubsampled, g0, g1, g2
<1>7. f \in 0..f OBVIOUS
<1> QED BY <1>5, <1>6, <1>7

(* One stage of a profile, where it takes the frames it reads whole.        *)
LEMMA ProfileStageSees ==
    ASSUME NEW c \in {1, 2, 4}, NEW p, NEW silent \in Int, NEW t \in Int, t # silent,
           \A u \in {2 * t - 2, 2 * t - 1, 2 * t} : p[u] = Centres(Seen(c, u))
    PROVE  StageOf(p, silent)[t] = Centres(Seen(2 * c, t))
<1>1. CASE t >= 0
  <2>1. StageOf(p, silent)[t] = p[2 * t - 2] \cup p[2 * t - 1] \cup p[2 * t]
    BY <1>1 DEF StageOf
  <2>2. StageOf(p, silent)[t]
          = Centres(Seen(c, 2 * t - 2)) \cup Centres(Seen(c, 2 * t - 1)) \cup Centres(Seen(c, 2 * t))
    BY <2>1
  <2>3. StageOf(p, silent)[t]
          = Centres(Seen(c, 2 * t - 2) \cup Seen(c, 2 * t - 1) \cup Seen(c, 2 * t))
    BY <2>2, CentresJoin
  <2> QED BY <2>3, SeenByStage
<1>2. CASE ~(t >= 0)
  <2>1. StageOf(p, silent)[t] = {} BY <1>2 DEF StageOf
  <2>2. Seen(2 * c, t) = {}
    <3>1. CASE c = 1 BY <1>2, <3>1 DEF Seen
    <3>2. CASE c = 2 BY <1>2, <3>2 DEF Seen
    <3>3. CASE c = 4 BY <1>2, <3>3 DEF Seen
    <3> QED BY <3>1, <3>2, <3>3
  <2> QED BY <2>1, <2>2 DEF Centres
<1> QED BY <1>1, <1>2

(* The mel frames that frame t sees of a chunked pass: it is silent at the  *)
(* seam, and the frame after the seam sees nothing from before it.          *)
Kept(t) == IF t = Lookahead THEN {}
           ELSE IF t = Lookahead + 1 THEN {m \in Seen(8, t) : m >= 8 * Lookahead}
           ELSE Seen(8, t)

(* The stages silence the last frame of the first chunk, each of its own.   *)
LEMMA SeamOfProfile ==
    ASSUME Lookahead # 0, NEW f \in Nat PROVE After3[f] = Centres(Kept(f))
<1> DEFINE l == Lookahead
<1>1. l \in Nat /\ l > 0 BY PlanFacts
<1>2. \A u \in Int : Heard[u] = Centres(Seen(1, u))
  <2> SUFFICES ASSUME NEW u \in Int PROVE Heard[u] = Centres(Seen(1, u)) OBVIOUS
  <2>1. CASE u >= 0
    <3>1. Seen(1, u) = {u} BY <2>1 DEF Seen
    <3> QED BY <2>1, <3>1 DEF Heard, Centres
  <2>2. CASE ~(u >= 0)
    <3>1. Seen(1, u) = {} BY <2>2 DEF Seen
    <3> QED BY <2>2, <3>1 DEF Heard, Centres
  <2> QED BY <2>1, <2>2
<1> HIDE DEF l
<1>3. ASSUME NEW t \in Int, t # 4 * l PROVE After1[t] = Centres(Seen(2, t))
  <2>1. \A u \in {2 * t - 2, 2 * t - 1, 2 * t} : Heard[u] = Centres(Seen(1, u)) BY <1>2
  <2>2. 4 * l \in Int /\ 2 * 1 = 2 BY <1>1
  <2>3. StageOf(Heard, 4 * l)[t] = Centres(Seen(2 * 1, t)) BY <1>3, <2>1, <2>2, ProfileStageSees
  <2> QED BY <2>2, <2>3 DEF After1, l
<1>4. After1[4 * l] = {}
  <2>1. 4 * l \in Int BY <1>1
  <2>2. StageOf(Heard, 4 * l)[4 * l] = {} BY <2>1 DEF StageOf
  <2> QED BY <2>2 DEF After1, l
<1>5. ASSUME NEW t \in Int, t # 2 * l, t # 2 * l + 1 PROVE After2[t] = Centres(Seen(4, t))
  <2>1. 2 * t - 2 # 4 * l /\ 2 * t - 1 # 4 * l /\ 2 * t # 4 * l BY <1>1, <1>5
  <2>2. \A u \in {2 * t - 2, 2 * t - 1, 2 * t} : After1[u] = Centres(Seen(2, u)) BY <1>3, <2>1
  <2>3. 2 * l \in Int /\ 2 * 2 = 4 BY <1>1
  <2>4. StageOf(After1, 2 * l)[t] = Centres(Seen(2 * 2, t)) BY <1>5, <2>2, <2>3, ProfileStageSees
  <2> QED BY <2>3, <2>4 DEF After2, l
<1>6. After2[2 * l] = {}
  <2>1. 2 * l \in Int BY <1>1
  <2>2. StageOf(After1, 2 * l)[2 * l] = {} BY <2>1 DEF StageOf
  <2> QED BY <2>2 DEF After2, l
<1>7. After2[2 * l + 1] = Centres({m \in Seen(4, 2 * l + 1) : m >= 8 * l})
  <2>1. /\ 2 * l \in Int /\ 2 * l + 1 \in Int /\ 2 * l + 1 >= 0 /\ 2 * l + 1 # 2 * l
        /\ 2 * (2 * l + 1) - 2 = 4 * l /\ 2 * (2 * l + 1) - 1 = 4 * l + 1
        /\ 2 * (2 * l + 1) = 4 * l + 2
        /\ 4 * l + 1 \in Int /\ 4 * l + 1 # 4 * l /\ 4 * l + 2 \in Int /\ 4 * l + 2 # 4 * l
    BY <1>1
  <2>2. StageOf(After1, 2 * l)[2 * l + 1] = After1[4 * l] \cup After1[4 * l + 1] \cup After1[4 * l + 2]
    BY <2>1 DEF StageOf
  <2>3. After2[2 * l + 1] = Centres({}) \cup Centres(Seen(2, 4 * l + 1)) \cup Centres(Seen(2, 4 * l + 2))
    <3>1. Centres({}) = {} BY DEF Centres
    <3> QED BY <1>3, <1>4, <2>1, <2>2, <3>1 DEF After2, l
  <2>4. {} \cup Seen(2, 4 * l + 1) \cup Seen(2, 4 * l + 2) = {m \in Seen(4, 2 * l + 1) : m >= 8 * l}
    BY <1>1 DEF Seen
  <2> QED BY <2>3, <2>4, CentresJoin
<1>8. CASE f # l /\ f # l + 1
  <2>1. \A u \in {2 * f - 2, 2 * f - 1, 2 * f} : u \in Int /\ u # 2 * l /\ u # 2 * l + 1
    BY <1>1, <1>8
  <2>2. \A u \in {2 * f - 2, 2 * f - 1, 2 * f} : After2[u] = Centres(Seen(4, u)) BY <1>5, <2>1
  <2>3. l \in Int /\ f \in Int /\ 2 * 4 = 8 BY <1>1
  <2>4. StageOf(After2, l)[f] = Centres(Seen(2 * 4, f)) BY <1>8, <2>2, <2>3, ProfileStageSees
  <2>5. Kept(f) = Seen(8, f) BY <1>8 DEF Kept, l
  <2> QED BY <2>3, <2>4, <2>5 DEF After3, l
<1>9. CASE f = l
  <2>1. StageOf(After2, l)[f] = {} BY <1>1, <1>9 DEF StageOf
  <2>2. Kept(f) = {} BY <1>9 DEF Kept, l
  <2> QED BY <2>1, <2>2 DEF After3, l, Centres
<1>10. CASE f = l + 1
  <2>1. /\ l \in Int /\ f >= 0 /\ f # l /\ f \in Int /\ 2 * f - 2 = 2 * l /\ 2 * f - 1 = 2 * l + 1
        /\ 2 * f = 2 * l + 2 /\ 2 * l + 2 \in Int /\ 2 * l + 2 # 2 * l /\ 2 * l + 2 # 2 * l + 1
    BY <1>1, <1>10
  <2>2. StageOf(After2, l)[f] = After2[2 * l] \cup After2[2 * l + 1] \cup After2[2 * l + 2]
    BY <2>1 DEF StageOf
  <2> DEFINE x == {m \in Seen(4, 2 * l + 1) : m >= 8 * l}  y == Seen(4, 2 * l + 2)
  <2>3. After2[2 * l + 2] = Centres(y) BY <1>5, <2>1
  <2>4. Centres({}) = {} BY DEF Centres
  <2>5. StageOf(After2, l)[f] = Centres({}) \cup Centres(x) \cup Centres(y)
    BY <1>6, <1>7, <2>2, <2>3, <2>4
  <2>6. StageOf(After2, l)[f] = Centres({} \cup x \cup y) BY <2>5, CentresJoin
  <2>7. {} \cup x \cup y = {m \in Seen(8, f) : m >= 8 * l} BY <1>1, <1>10 DEF Seen
  <2>8. Kept(f) = {m \in Seen(8, f) : m >= 8 * l} BY <1>1, <1>10 DEF Kept, l
  <2> QED BY <2>6, <2>7, <2>8 DEF After3, l
<1> QED BY <1>8, <1>9, <1>10

(* Without a failure the caches of the convolutions are those of an offline *)
(* pass at the clock, and so was the last chunk.                            *)
SubInv ==
    faults = <<>> =>
        /\ framesSeen = 0 \/ framesSeen > Lookahead
        /\ CachesAt(cache.subsampling, framesSeen)
        /\ \A t \in DOMAIN views.frames :
              views.ids[t] \in Nat /\ views.frames[t] = After3[views.ids[t]]

(* The mel frames of the next chunk are those that follow the clock.        *)
LEMMA MelFollowsClock ==
    ASSUME Lookahead # 0, IInv, CoverInv, ClockInv, faults = <<>>, queue # <<>>
    PROVE  MelAt(Mel, framesSeen) /\ BaseFrame = framesSeen
<1>1. /\ Chunk.mel = encodedMel + skippedMel /\ Chunk.frames = Windows!FramesOf(Chunk.mel)
      /\ encodedMel \in Nat /\ skippedMel = 0 /\ framesSeen \in Nat
  BY ChunkFacts DEF IInv, Types, CoverInv, ClockInv
<1>2. framesSeen * 8 = encodedMel + (IF framesSeen = 0 THEN 0 ELSE 7)
  BY DEF ClockInv, NoEncoderFault
<1>3. Chunk.mel = IF framesSeen = 0 THEN 0 ELSE 8 * framesSeen - 7
  BY <1>1, <1>2
<1>4. BaseFrame = framesSeen
  <2>1. CASE framesSeen = 0 BY <1>3, <2>1 DEF BaseFrame
  <2>2. CASE framesSeen # 0
    <3>1. Chunk.mel + 7 = 8 * framesSeen BY <1>1, <1>3, <2>2
    <3>2. (8 * framesSeen) \div 8 = framesSeen BY <1>1
    <3> QED BY <3>1, <3>2 DEF BaseFrame
  <2> QED BY <2>1, <2>2
<1>5. Mel \in Frames /\ Len(Mel) = Chunk.frames BY MelFacts
<1>6. Len(Mel) = IF framesSeen = 0 THEN FirstMelFrames ELSE SubsequentMelFrames
  <2>1. Chunk.mel = 0 <=> framesSeen = 0 BY <1>1, <1>3
  <2> QED BY <1>1, <1>5, <2>1 DEF Windows!FramesOf
<1>7. ASSUME NEW i \in 1..Len(Mel) PROVE Mel[i] = Heard[Chunk.mel + i - 1]
  <2>1. /\ 1 \in DOMAIN queue /\ Chunk = queue[1]
    <3>1. queue \in Seq(AudioChunks) BY DEF IInv, QueueInv
    <3> QED BY <3>1, ChunkFacts
  <2>2. \A m \in DOMAIN Extract(Chunk) : Extract(Chunk)[m].at = 160 * (Chunk.mel + m - 1)
    BY <2>1, QueueIsWhole DEF WindowsAreWhole
  <2>3. DOMAIN Mel = DOMAIN Extract(Chunk) /\ DOMAIN Mel = 1..Len(Mel)
    BY <1>5 DEF Mel, Frames
  <2>4. Mel[i] = {Extract(Chunk)[i].at} BY <2>3 DEF Mel
  <2>5. Mel[i] = {160 * (Chunk.mel + i - 1)} BY <2>2, <2>3, <2>4
  <2>6. i \in Nat /\ i >= 1 BY <1>5 DEF Frames
  <2>7. Chunk.mel + i - 1 \in Int /\ Chunk.mel + i - 1 >= 0 BY <1>1, <2>6
  <2> QED BY <2>5, <2>7 DEF Heard
<1> QED BY <1>3, <1>4, <1>5, <1>6, <1>7 DEF MelAt

(* A chunk that is encoded continues the offline pass.                      *)
LEMMA EncodeDoneFollows ==
    ASSUME Lookahead # 0, IInv, CoverInv, ClockInv, SubInv, faults = <<>>, queue # <<>>,
           EncodeDone
    PROVE  SubInv'
<1> DEFINE out == Encoded(CacheUpdates)
           sub == Subsample(cache.subsampling, Mel)
<1>1. MelAt(Mel, framesSeen) /\ BaseFrame = framesSeen BY MelFollowsClock
<1>2. /\ framesSeen \in Nat /\ (framesSeen = 0 \/ framesSeen > Lookahead)
      /\ CachesAt(cache.subsampling, framesSeen)
      /\ cache.subsampling \in [1..3 -> ConvCaches] /\ Mel \in Frames
  BY <1>1 DEF ClockInv, SubInv, MelAt
<1>3. /\ \A t \in 1..Len(sub.frames) : sub.frames[t] = After3[framesSeen + t - 1]
      /\ CachesAt(sub.caches, framesSeen + Lookahead + 1)
  BY <1>1, <1>2, SubsampleFollows
<1>4. sub.frames \in Frames /\ sub.caches \in [1..3 -> ConvCaches]
  BY <1>2, Subsampled DEF Stages
<1>5. Len(sub.frames) = Lookahead + 1
  <2>1. Len(sub.frames) = ConvLength(cache.subsampling[3].first,
                            ConvLength(cache.subsampling[2].first,
                              ConvLength(cache.subsampling[1].first, Len(Mel))))
    BY <1>2, Subsampled
  <2>2. /\ cache.subsampling[1].first \in BOOLEAN /\ cache.subsampling[2].first \in BOOLEAN
        /\ cache.subsampling[3].first \in BOOLEAN
    BY <1>2 DEF ConvCaches
  <2>3. CASE framesSeen = 0
    <3>1. Len(Mel) = FirstMelFrames BY <1>1, <2>3 DEF MelAt
    <3>2. /\ cache.subsampling[1].first = TRUE /\ cache.subsampling[2].first = TRUE
          /\ cache.subsampling[3].first = TRUE
      BY <1>2, <2>2, <2>3 DEF CachesAt
    <3> QED BY <2>1, <3>1, <3>2, ChunkLengths DEF EncoderFramesPerChunk
  <2>4. CASE framesSeen # 0
    <3>1. Len(Mel) = SubsequentMelFrames BY <1>1, <2>4 DEF MelAt
    <3> QED BY <2>1, <2>2, <3>1, ChunkLengths DEF EncoderFramesPerChunk
  <2> QED BY <2>3, <2>4
<1>6. /\ out.frames = sub.frames
      /\ out.ids = [t \in 1..Len(sub.frames) |-> framesSeen + t - 1]
      /\ out.cache.subsampling
            = [s \in 1..3 |-> IF s <= CacheUpdates THEN sub.caches[s] ELSE cache.subsampling[s]]
  BY <1>1 DEF Encoded, EncodeChunk
<1>7. framesSeen' = framesSeen + Len(out.frames) /\ cache' = out.cache
      /\ views'.frames = out.frames /\ views'.ids = out.ids
  BY DEF EncodeDone
<1> HIDE DEF out, sub
<1>8. \A s \in 1..3 : s <= CacheUpdates BY ConfigAssumption DEF CacheUpdates
<1>9. out.cache.subsampling = sub.caches BY <1>4, <1>6, <1>8
<1>10. Lookahead \in Nat BY PlanFacts
<1>11. framesSeen' = framesSeen + Lookahead + 1 /\ framesSeen' > Lookahead
  BY <1>2, <1>5, <1>6, <1>7, <1>10
<1>12. CachesAt(cache'.subsampling, framesSeen') BY <1>3, <1>7, <1>9, <1>11
<1>13. DOMAIN views'.frames = 1..Len(sub.frames)
  BY <1>4, <1>6, <1>7 DEF Frames
<1>14. ASSUME NEW t \in 1..Len(sub.frames)
       PROVE  views'.ids[t] \in Nat /\ views'.frames[t] = After3[views'.ids[t]]
  <2>1. views'.ids[t] = framesSeen + t - 1 BY <1>6, <1>7
  <2>2. views'.frames[t] = After3[framesSeen + t - 1] BY <1>3, <1>6, <1>7
  <2>3. t \in Nat /\ t >= 1 BY <1>5, <1>10
  <2> QED BY <1>2, <2>1, <2>2, <2>3
<1> QED BY <1>11, <1>12, <1>13, <1>14 DEF SubInv, CachesAt

(* A new session's caches are those of frame 0.                             *)
LEMMA NewCachesFollow ==
    ASSUME cache = NewEncoderCache, framesSeen = 0, views = NoViews PROVE SubInv
<1>1. \A s \in 1..3 : cache.subsampling[s] = [first |-> TRUE, frame |-> {}]
  BY DEF NewEncoderCache, NewSubsamplingCache
<1>2. cache.subsampling \in [1..3 -> ConvCaches]
  BY DEF NewEncoderCache, NewSubsamplingCache, ConvCaches
<1>3. CachesAt(cache.subsampling, 0) BY <1>1, <1>2 DEF CachesAt
<1>4. DOMAIN views.frames = {} BY DEF NoViews
<1> QED BY <1>3, <1>4 DEF SubInv

(* Only an encoded chunk and a reset move the caches while nothing failed.  *)
LEMMA StepFollows ==
    ASSUME Lookahead # 0, IInv, CoverInv, ClockInv, SubInv, [Next]_vars PROVE SubInv'
<1>1. ASSUME UNCHANGED <<cache, framesSeen, views, faults>> PROVE SubInv'
  BY <1>1 DEF SubInv, CachesAt
<1>2. ASSUME NEW n \in Blocks, Push(n) PROVE SubInv'
  BY <1>1, <1>2 DEF Push, transcriber, ghosts
<1>3. CASE Finish BY <1>1, <1>3 DEF Finish, transcriber, ghosts
<1>4. CASE Reset
  <2>1. cache' = NewEncoderCache /\ framesSeen' = 0 /\ views' = NoViews BY <1>4 DEF Reset
  <2>2. \A s \in 1..3 : cache'.subsampling[s] = [first |-> TRUE, frame |-> {}]
    BY <2>1 DEF NewEncoderCache, NewSubsamplingCache
  <2>3. cache'.subsampling \in [1..3 -> ConvCaches]
    BY <2>1 DEF NewEncoderCache, NewSubsamplingCache, ConvCaches
  <2>4. CachesAt(cache'.subsampling, 0) BY <2>2, <2>3 DEF CachesAt
  <2>5. DOMAIN views'.frames = {} BY <2>1 DEF NoViews
  <2> QED BY <2>1, <2>4, <2>5 DEF SubInv
<1>5. CASE CutWindow \/ CutIsDone
  <2>1. ~Underflow BY NextWindowIsPlaced DEF IInv
  <2> QED BY <1>1, <1>5, <2>1 DEF CutWindow, CutIsDone, transcriber, ghosts
<1>6. CASE Return BY <1>1, <1>6 DEF Return, transcriber
<1>7. ASSUME NEW pattern \in ScorePatterns, DecodeChunk(pattern) PROVE SubInv'
  <2>1. queue # <<>> /\ EncodeDone /\ UNCHANGED faults BY <1>7 DEF DecodeChunk
  <2>2. CASE faults = <<>> BY <2>1, <2>2, EncodeDoneFollows
  <2>3. CASE faults # <<>> BY <2>1, <2>3 DEF SubInv
  <2> QED BY <2>2, <2>3
<1>8. ASSUME NEW kind \in {"encode", "decode"}, CallFails(kind) PROVE SubInv'
  <2>1. faults' # <<>> BY <1>8 DEF CallFails, IInv, Types
  <2> QED BY <2>1 DEF SubInv
<1>9. CASE UNCHANGED vars BY <1>1, <1>9 DEF vars, transcriber, ghosts
<1> QED BY <1>2, <1>3, <1>4, <1>5, <1>6, <1>7, <1>8, <1>9
        DEF Next, Running, EncodeFails, DecodeFails

(* Every frame of a stream without failures sees the mel frames that the    *)
(* subsampling of the whole utterance gives it, except at the seam of the   *)
(* first two chunks: the last frame of the first has seen nothing, and the  *)
(* one after it nothing from before the seam (Conv2dSubsampling::forward).  *)
THEOREM ChunksSubsampleButForTheSeam ==
    ASSUME Lookahead # 0 PROVE Spec => []SubsamplingIsOfflineButForTheSeam
<1>1. SubInv => SubsamplingIsOfflineButForTheSeam
  <2> SUFFICES ASSUME faults = <<>>, SubInv, NEW t \in DOMAIN views.frames
               PROVE  LET id   == views.ids[t]
                          lost == CASE id = Lookahead     -> OfflineSubsampled(id)
                                    [] id = Lookahead + 1 ->
                                          {m \in OfflineSubsampled(id) : m < 8 * Lookahead}
                                    [] OTHER              -> {}
                      IN  views.frames[t] = {160 * m : m \in OfflineSubsampled(id) \ lost}
    BY DEF SubsamplingIsOfflineButForTheSeam
  <2> DEFINE id == views.ids[t]
             off == OfflineSubsampled(id)
             lost == CASE id = Lookahead     -> off
                       [] id = Lookahead + 1 -> {m \in off : m < 8 * Lookahead}
                       [] OTHER              -> {}
  <2>1. id \in Nat /\ views.frames[t] = After3[id] BY DEF SubInv
  <2> HIDE DEF id
  <2>2. views.frames[t] = Centres(Kept(id)) /\ off = Seen(8, id) BY <2>1, SeamOfProfile, OfflineSees
  <2> HIDE DEF off
  <2>3. Lookahead \in Nat BY PlanFacts
  <2>4. Kept(id) = off \ lost
    <3>1. CASE id = Lookahead
      <4>1. lost = off BY <2>3, <3>1
      <4>2. Kept(id) = {} BY <3>1 DEF Kept
      <4> QED BY <4>1, <4>2
    <3>2. CASE id = Lookahead + 1
      <4>1. lost = {m \in off : m < 8 * Lookahead} BY <2>3, <3>2
      <4>2. Kept(id) = {m \in off : m >= 8 * Lookahead} BY <2>2, <2>3, <3>2 DEF Kept
      <4>3. \A m \in off : m \in Nat BY <2>2 DEF Seen
      <4>4. \A m \in off : m >= 8 * Lookahead <=> ~(m < 8 * Lookahead) BY <2>3, <4>3
      <4> HIDE DEF lost
      <4> QED BY <4>1, <4>2, <4>4
    <3>3. CASE id # Lookahead /\ id # Lookahead + 1
      <4>1. lost = {} BY <3>3
      <4>2. Kept(id) = off BY <2>2, <3>3 DEF Kept
      <4> QED BY <4>1, <4>2
    <3> QED BY <3>1, <3>2, <3>3
  <2> QED BY <2>2, <2>4 DEF Centres, id, off
<1>2. Init => IInv /\ CoverInv /\ ClockInv /\ SubInv
  <2>1. Init => SubInv BY NewCachesFollow DEF Init
  <2> QED BY <2>1, InitIInv, ClockInit DEF Init, CoverInv
<1>3. IInv /\ CoverInv /\ ClockInv /\ SubInv /\ [Next]_vars
        => (IInv /\ CoverInv /\ ClockInv /\ SubInv)'
  BY StepIInv, StepCovers, StepKeepsTime, StepFollows
<1> QED BY <1>1, <1>2, <1>3, PTL DEF Spec

-----------------------------------------------------------------------------
(* The layers of an utterance.                                              *)

(* The frames of a chunk that the encoder completes while nothing failed.   *)
LEMMA EncodeDoneFrames ==
    ASSUME Lookahead # 0, IInv, CoverInv, ClockInv, faults = <<>>, queue # <<>>, EncodeDone,
           encodedMel' = encodedMel + Chunk.frames, skippedMel' \in Nat, UNCHANGED faults
    PROVE  /\ framesSeen' = framesSeen + (Lookahead + 1)
           /\ Encoded(CacheUpdates).ids = [t \in 1..(Lookahead + 1) |-> framesSeen + t - 1]
<1> DEFINE out == Encoded(CacheUpdates)
<1>1. BaseFrame = framesSeen BY MelFollowsClock
<1>2. framesSeen \in Nat /\ Lookahead \in Nat BY PlanFacts DEF ClockInv
<1>3. framesSeen' = framesSeen + EncoderFramesPerChunk
  BY EncodeDoneKeepsTime DEF NoEncoderFault
<1>4. framesSeen' = framesSeen + Len(out.frames) BY DEF EncodeDone
<1>5. out.ids = [t \in 1..Len(out.frames) |-> framesSeen + t - 1]
  BY <1>1 DEF Encoded, EncodeChunk
<1>6. Len(out.frames) \in Nat
  <2>1. Mel \in Frames /\ cache.subsampling \in [1..3 -> ConvCaches] BY MelFacts DEF ClockInv
  <2>2. out.frames = Subsample(cache.subsampling, Mel).frames
    BY DEF Encoded, EncodeChunk
  <2>3. Subsample(cache.subsampling, Mel).frames \in Frames
    BY <2>1, Subsampled DEF Stages
  <2> QED BY <2>2, <2>3 DEF Frames
<1> HIDE DEF out
<1>7. Len(out.frames) = Lookahead + 1
  BY <1>2, <1>3, <1>4, <1>6 DEF EncoderFramesPerChunk
<1> QED BY <1>3, <1>5, <1>7 DEF EncoderFramesPerChunk, out

(* Without a failure the clock counts whole chunks, and every layer's caches *)
(* are those of the frames just before it.                                  *)
LayerInv ==
    faults = <<>> =>
        /\ \E c \in Nat : framesSeen = c * (Lookahead + 1)
        /\ \A l \in 1..NumLayers : LayerAt(cache.layers[l], framesSeen)

(* What frame t of a chunk looks at in layer l, and its row, are as offline. *)
Looks(v, seen, t, l) ==
    LET id == v.ids[t]
    IN  /\ v.rows[t] = [frames |-> {id}, prompts |-> {Prompt}]
        /\ v.views[l].attention[t] =
             {<<k, id - k, TRUE>> :
                k \in OfflineKeys(id, seen, SlidingWindow - 1, Lookahead)}
        /\ v.views[l].convolution[t] =
             [i \in 1..KernelSize |-> IF id - KernelSize + i < 0 THEN Silence
                                      ELSE {id - KernelSize + i}]

(* Without a failure the last chunk looked at what it would have offline.   *)
LookInv ==
    faults = <<>> => \A l \in DOMAIN views.views, t \in DOMAIN views.ids :
                        Looks(views, framesSeen, t, l)

(* A chunk that is encoded looks at what the offline mask shows it.         *)
LEMMA EncodeDoneLooks ==
    ASSUME WholeChunks, Lookahead # 0, IInv, CoverInv, ClockInv, LayerInv, faults = <<>>,
           queue # <<>>, EncodeDone, encodedMel' = encodedMel + Chunk.frames,
           skippedMel' \in Nat, UNCHANGED faults
    PROVE  LayerInv' /\ LookInv'
<1> DEFINE n == Lookahead + 1
           ids == [t \in 1..n |-> framesSeen + t - 1]
           out == Encoded(CacheUpdates)
           old == cache.layers
           Layer(l) == LayerForward(cache.layers[l], ids, CacheUpdates - 1 - 2 * l)
           first == framesSeen - Retained(framesSeen)
           last == framesSeen + Lookahead
<1>1. framesSeen' = framesSeen + n /\ out.ids = ids BY EncodeDoneFrames
<1>2. /\ framesSeen \in Nat /\ Lookahead \in Nat /\ n \in Nat /\ n > 0 /\ n = Lookahead + 1
      /\ framesSeen + n - 1 = last
  BY PlanFacts DEF ClockInv
<1>3. /\ ids \in Seq(Int) /\ Len(ids) = n /\ DOMAIN ids = 1..n
      /\ \A t \in 1..n : ids[t] = framesSeen + t - 1
  BY <1>2
<1>4. /\ out.cache.layers = [l \in 1..NumLayers |-> Layer(l).cache]
      /\ out.views = [l \in 1..NumLayers |-> Layer(l).views]
      /\ out.rows = Prompted(TokenMajor(ids), Len(ids))
  BY <1>1 DEF Encoded, EncodeChunk
<1>5. cache' = out.cache /\ views' = [frames |-> out.frames, ids |-> out.ids, rows |-> out.rows,
                                     views |-> out.views]
  BY DEF EncodeDone
<1> HIDE DEF out, ids, n
<1>6. ASSUME NEW l \in 1..NumLayers
      PROVE  /\ LayerAt(Layer(l).cache, framesSeen')
             /\ \A t \in 1..n : ViewAt(Layer(l).views, t, ids[t], first, last)
  <2> DEFINE updates == CacheUpdates - 1 - 2 * l
             layer == cache.layers[l]
  <2>1. NumLayers \in Nat BY ConfigAssumption
  <2>2. updates \in Int /\ updates >= 2 BY <2>1 DEF CacheUpdates
  <2>3. LayerAt(layer, framesSeen) BY DEF LayerInv
  <2>4. Len(ids) > 0 /\ \A t \in 1..Len(ids) : ids[t] = framesSeen + t - 1 BY <1>2, <1>3
  <2> HIDE DEF updates, layer
  <2> DEFINE res == LayerForward(layer, ids, updates)
  <2>5. /\ LayerAt(res.cache, framesSeen + Len(ids))
        /\ \A t \in 1..Len(ids) :
              ViewAt(res.views, t, ids[t], framesSeen - Retained(framesSeen),
                     framesSeen + Len(ids) - 1)
    BY <1>2, <1>3, <2>2, <2>3, <2>4, LayerFollows
  <2>6. framesSeen + Len(ids) = framesSeen' /\ framesSeen + Len(ids) - 1 = last
    BY <1>1, <1>2, <1>3
  <2>7. Layer(l) = res BY DEF layer, updates
  <2> HIDE DEF res, Layer, last
  <2> QED BY <1>3, <2>5, <2>6, <2>7
<1>7. \E c \in Nat : framesSeen' = c * (Lookahead + 1)
  <2>1. PICK c \in Nat : framesSeen = c * (Lookahead + 1) BY DEF LayerInv
  <2>2. framesSeen' = (c + 1) * (Lookahead + 1) BY <1>1, <1>2, <2>1
  <2> QED BY <2>2
<1> HIDE DEF Layer
<1>8. LayerInv'
  <2>1. \A l \in 1..NumLayers : cache'.layers[l] = Layer(l).cache BY <1>4, <1>5
  <2> QED BY <1>6, <1>7, <2>1 DEF LayerInv
<1>9. ASSUME NEW t \in 1..n, NEW l \in 1..NumLayers
      PROVE  Looks(views', framesSeen', t, l)
  <2> DEFINE id == ids[t]
  <2>1. views'.rows[t] = [frames |-> {id}, prompts |-> {Prompt}]
    <3>1. Len(ids) > 0 /\ t \in 1..Len(ids) BY <1>2, <1>3
    <3>2. Prompted(TokenMajor(ids), Len(ids))[t] = [frames |-> {ids[t]}, prompts |-> {Prompt}]
      BY <1>3, <3>1, PromptedAt
    <3> QED BY <1>4, <1>5, <3>2
  <2>2. views'.views[l] = Layer(l).views BY <1>4, <1>5
  <2>3. ViewAt(Layer(l).views, t, id, first, last) BY <1>6
  <2>4. OfflineKeys(id, framesSeen', SlidingWindow - 1, Lookahead) = first..last
    <3>1. PICK c \in Nat : framesSeen = c * (Lookahead + 1) BY DEF LayerInv
    <3>2. id \in framesSeen..(framesSeen + Lookahead) BY <1>2, <1>3
    <3>3. OfflineKeys(id, framesSeen + (Lookahead + 1), SlidingWindow - 1, Lookahead)
            = (framesSeen - Retained(framesSeen))..(framesSeen + Lookahead)
      BY <3>1, <3>2, MaskIsReach
    <3> QED BY <1>1, <1>2, <3>3
  <2> HIDE DEF id, first, last
  <2>5. views'.views[l].attention[t]
          = {<<k, id - k, TRUE>> : k \in OfflineKeys(id, framesSeen', SlidingWindow - 1, Lookahead)}
    BY <2>2, <2>3, <2>4 DEF ViewAt, Reach, Sight, Sighted
  <2>6. views'.views[l].convolution[t]
          = [i \in 1..KernelSize |-> IF id - KernelSize + i < 0 THEN Silence
                                     ELSE {id - KernelSize + i}]
    BY <2>2, <2>3 DEF ViewAt, Past
  <2>7. views'.ids[t] = id BY <1>1, <1>5 DEF id
  <2> QED BY <2>1, <2>5, <2>6, <2>7 DEF Looks
<1>10. LookInv'
  <2>1. DOMAIN views'.ids = 1..n /\ views'.ids = ids /\ DOMAIN views'.views = 1..NumLayers
    BY <1>1, <1>3, <1>4, <1>5
  <2> QED BY <1>9, <2>1 DEF LookInv
<1> QED BY <1>8, <1>10

(* A new session has looked at nothing, and its caches are those of frame   *)
(* 0.                                                                       *)
LEMMA NewLayersFollow ==
    ASSUME cache = NewEncoderCache, framesSeen = 0, views = NoViews
    PROVE  LayerInv /\ LookInv
<1>1. \A l \in 1..NumLayers : cache.layers[l] = NewLayerCache BY DEF NewEncoderCache
<1>2. 0 \in Nat /\ 0 = 0 * (Lookahead + 1) BY PlanFacts
<1>3. LayerInv BY <1>1, <1>2, NewLayerAt DEF LayerInv
<1>4. DOMAIN views.ids = {} BY DEF NoViews
<1> QED BY <1>3, <1>4 DEF LookInv

(* Only an encoded chunk and a reset move the layers while nothing failed.  *)
LEMMA StepLooks ==
    ASSUME WholeChunks, Lookahead # 0, IInv, CoverInv, ClockInv, LayerInv, LookInv,
           [Next]_vars
    PROVE  LayerInv' /\ LookInv'
<1> DEFINE Goal == LayerInv' /\ LookInv'
<1>1. ASSUME UNCHANGED <<cache, framesSeen, views, faults>> PROVE Goal
  BY <1>1 DEF LayerInv, LookInv
<1>2. ASSUME NEW n \in Blocks, Push(n) PROVE Goal
  BY <1>1, <1>2 DEF Push, transcriber, ghosts
<1>3. CASE Finish BY <1>1, <1>3 DEF Finish, transcriber, ghosts
<1>4. CASE Reset
  <2>1. cache' = NewEncoderCache /\ framesSeen' = 0 /\ views' = NoViews BY <1>4 DEF Reset
  <2>2. \A l \in 1..NumLayers : cache'.layers[l] = NewLayerCache BY <2>1 DEF NewEncoderCache
  <2>3. 0 \in Nat /\ 0 = 0 * (Lookahead + 1) BY PlanFacts
  <2>4. LayerInv' BY <2>1, <2>2, <2>3, NewLayerAt DEF LayerInv
  <2>5. DOMAIN views'.ids = {} BY <2>1 DEF NoViews
  <2> QED BY <2>4, <2>5 DEF LookInv
<1>5. CASE CutWindow \/ CutIsDone
  <2>1. ~Underflow BY NextWindowIsPlaced DEF IInv
  <2> QED BY <1>1, <1>5, <2>1 DEF CutWindow, CutIsDone, transcriber, ghosts
<1>6. CASE Return BY <1>1, <1>6 DEF Return, transcriber
<1>7. ASSUME NEW pattern \in ScorePatterns, DecodeChunk(pattern) PROVE Goal
  <2>1. /\ queue # <<>> /\ EncodeDone /\ UNCHANGED <<faults, skippedMel>>
        /\ encodedMel' = encodedMel + Chunk.frames
    BY <1>7 DEF DecodeChunk
  <2>2. CASE faults = <<>>
    <3>1. skippedMel' \in Nat BY <2>1 DEF IInv, Types
    <3> QED BY <2>1, <2>2, <3>1, EncodeDoneLooks
  <2>3. CASE faults # <<>> BY <2>1, <2>3 DEF LayerInv, LookInv
  <2> QED BY <2>2, <2>3
<1>8. ASSUME NEW kind \in {"encode", "decode"}, CallFails(kind) PROVE Goal
  <2>1. faults' # <<>> BY <1>8 DEF CallFails, IInv, Types
  <2> QED BY <2>1 DEF LayerInv, LookInv
<1>9. CASE UNCHANGED vars BY <1>1, <1>9 DEF vars, transcriber, ghosts
<1> QED BY <1>2, <1>3, <1>4, <1>5, <1>6, <1>7, <1>8, <1>9
        DEF Next, Running, EncodeFails, DecodeFails

(* The caches of the layers make the chunks one pass: in a stream without   *)
(* failures every frame attends, in every head and at the right distance,   *)
(* to exactly the frames that chunked_attention_mask shows it in the whole  *)
(* utterance, its convolution sees the frames just before it, and the       *)
(* decoder gets it with the prompt of the session. The window holds whole   *)
(* chunks, as the 56 frames of the checkpoint do for every lookahead.       *)
THEOREM ChunksLookAsOnePass ==
    ASSUME Lookahead # 0, WholeChunks PROVE Spec => []LayersSeeOffline
<1>1. Init => IInv /\ CoverInv /\ ClockInv /\ LayerInv /\ LookInv
  <2>1. Init => LayerInv /\ LookInv BY NewLayersFollow DEF Init
  <2> QED BY <2>1, InitIInv, ClockInit DEF Init, CoverInv
<1>2. IInv /\ CoverInv /\ ClockInv /\ LayerInv /\ LookInv /\ [Next]_vars
        => (IInv /\ CoverInv /\ ClockInv /\ LayerInv /\ LookInv)'
  BY StepIInv, StepCovers, StepKeepsTime, StepLooks
<1>3. LookInv => LayersSeeOffline BY DEF LookInv, Looks, LayersSeeOffline
<1> QED BY <1>1, <1>2, <1>3, PTL DEF Spec
=============================================================================
