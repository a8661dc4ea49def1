--------------------------- MODULE ExprCodeProofs ---------------------------
(***************************************************************************)
(* Proofs about ExprCode, for expressions of any size.                     *)
(***************************************************************************)
EXTENDS ExprCode, SequenceTheorems, TLAPS

-----------------------------------------------------------------------------
(* The inductive invariant.                                                *)

Index == 1 .. Len(frames)

(* The arity of a frame is what its handler emits; all frames but the last *)
(* wait for an operand; a call pops when it has all of them.               *)
Shape ==
  /\ \A i \in Index :
       /\ frames[i].op = "operator" => frames[i].arity = frames[i].pops + 1
       /\ frames[i].op = "call" => frames[i].arity <= ARG_REGS
       /\ i < Len(frames) => Len(frames[i].vals) < frames[i].arity
  /\ phase = "pop" => frames # << >> /\ Top.op = "call" /\ Len(Top.vals) = Top.arity

(* Below a call, and below a frame a call was met in, all are marked.      *)
Nesting ==
  \A i, j \in Index : i < j /\ (frames[j].op = "call" \/ frames[j].nested) => frames[i].nested

(* Frames whose operands are known to be right: all while no call has left *)
(* a wrong count, and always those no call was met in.                     *)
Sound(i) == matched \/ ~frames[i].nested

InPlace == \A i \in Index : Sound(i) => OperandsInPlace(i)

Ordered == \A i, j \in Index : i < j /\ Sound(i) => Height(i) <= frames[j].base

IsCall(i) == frames[i].op = "call"
LastCall(i) == IsCall(i) /\ \A j \in Index : i < j => ~IsCall(j)

(* The count belongs to the innermost call ...                             *)
Counted == \A i \in Index : LastCall(i) /\ Sound(i) => tmp_arg_count = Len(frames[i].vals)

(* ... and will, when the call inside it is done, to the one around it.    *)
CountsAgree ==
  matched =>
    \A i, j \in Index :
      i < j /\ IsCall(i) /\ IsCall(j) /\ (\A k \in Index : i < k /\ k < j => ~IsCall(k)) =>
        frames[j].arity = Len(frames[i].vals)

Bottom ==
  matched =>
    /\ eaten = 0 /\ phase # "failed"
    /\ frames = << >> => stack = << >>
    /\ frames # << >> => frames[1].base = 0

RaxRight ==
  phase = "return" /\ (matched \/ (frames # << >> /\ ~Top.nested)) => rax = result

CallRight == matched \/ ~call.nested => call.passed = call.meant

IInv ==
  /\ ExprTypeOK /\ Shape /\ Nesting /\ InPlace /\ Ordered
  /\ Counted /\ CountsAgree /\ Bottom /\ RaxRight /\ CallRight

-----------------------------------------------------------------------------
(* Lemmas about the frames.                                                *)

(* The types of the fields of a frame.                                     *)
LEMMA FrameFacts ==
  ASSUME ExprTypeOK, NEW i \in Index
  PROVE  /\ frames[i] \in Frames
         /\ frames[i].op \in Ops /\ frames[i].node \in Words /\ frames[i].nested \in BOOLEAN
         /\ frames[i].arity \in Nat /\ frames[i].pops \in Nat /\ frames[i].base \in Nat
         /\ frames[i].vals \in Seq(Words) /\ Len(frames[i].vals) \in Nat
         /\ Height(i) \in Nat
<1>1. frames[i] \in Frames
  BY ElementOfSeq DEF ExprTypeOK, Index
<1>2. frames[i].vals \in Seq(Words)
  BY <1>1 DEF Frames
<1>3. Len(frames[i].vals) \in Nat
  BY <1>2, LenProperties
<1> QED BY <1>1, <1>2, <1>3 DEF Frames, Height

(* The top of a stack of frames and what is below it.                      *)
LEMMA PoppedFacts ==
  ASSUME ExprTypeOK, frames # << >>
  PROVE  /\ Len(frames) \in Nat \ {0} /\ Len(frames) \in Index
         /\ Top \in Frames /\ Top = frames[Len(frames)]
         /\ Popped \in Seq(Frames)
         /\ Len(Popped) = Len(frames) - 1
         /\ \A i \in 1 .. Len(frames) - 1 : Popped[i] = frames[i]
<1>1. frames \in Seq(Frames) /\ Len(frames) \in Nat
  BY LenProperties DEF ExprTypeOK
<1>2. Len(frames) # 0
  BY <1>1, EmptySeq
<1>3. \A k \in Nat : k # 0 => k = 1 \/ k > 1
  OBVIOUS
<1>4. Popped \in Seq(Frames)
  BY <1>1, <1>2, SubSeqProperties DEF Popped
<1>5. \A i \in 1 .. Len(frames) - 1 : Popped[i] = frames[i]
  BY <1>1, <1>2, SubSeqProperties DEF Popped
<1>6. Top \in Frames
  BY <1>1, <1>2, ElementOfSeq DEF Top
<1>7. Len(Popped) = Len(frames) - 1
  <2>1. CASE Len(frames) = 1
    BY <1>1, <2>1, SubSeqEmpty, EmptySeq DEF Popped
  <2>2. CASE Len(frames) > 1
    BY <1>1, <2>2, SubSeqProperties DEF Popped
  <2> QED BY <1>1, <1>2, <1>3, <2>1, <2>2
<1>8. Len(frames) \in Nat \ {0} /\ Len(frames) \in Index
  BY <1>1, <1>2 DEF Index
<1> QED BY <1>4, <1>5, <1>6, <1>7, <1>8 DEF Top

(* A table of words is a sequence.                                         *)
LEMMA TableIsSeq ==
  ASSUME NEW m \in Nat, NEW S, NEW g \in [1 .. m -> S]
  PROVE  g \in Seq(S) /\ Len(g) = m
<1>1. g \in Seq(S)
  BY SeqDef
<1>2. DOMAIN g = 1 .. Len(g) /\ Len(g) \in Nat
  BY <1>1, LenProperties
<1> QED BY <1>1, <1>2

(* Popping words leaves a stack, and when there are enough no local is lost.*)
LEMMA PopWordsFacts ==
  ASSUME ExprTypeOK, NEW m \in Nat, PopWords(m)
  PROVE  /\ stack' \in Seq(Words) /\ eaten' \in Nat
         /\ m <= Len(stack) => stack' = SubSeq(stack, 1, Len(stack) - m) /\ eaten' = eaten
<1>1. stack \in Seq(Words) /\ Len(stack) \in Nat /\ eaten \in Nat
  BY LenProperties DEF ExprTypeOK
<1>2. CASE m <= Len(stack)
  <2>1. stack' = SubSeq(stack, 1, Len(stack) - m) /\ eaten' = eaten
    BY <1>2 DEF PopWords
  <2>2. \A k \in 1 .. Len(stack) - m : stack[k] \in Words
    <3> SUFFICES ASSUME NEW k \in 1 .. Len(stack) - m PROVE stack[k] \in Words
      OBVIOUS
    <3>1. k \in 1 .. Len(stack)
      BY <1>1
    <3> QED BY <1>1, <3>1, ElementOfSeq
  <2>3. SubSeq(stack, 1, Len(stack) - m) \in Seq(Words)
    BY <1>1, <2>2, SubSeqProperties
  <2> QED BY <1>1, <2>1, <2>3
<1>3. CASE ~(m <= Len(stack))
  BY <1>1, <1>3, EmptySeq DEF PopWords
<1> QED BY <1>2, <1>3

(* A handler with a right count or no call inside it makes all above it    *)
(* sound, and one that is not makes none below it sound.                   *)
LEMMA SoundUpwards ==
  ASSUME Nesting, NEW i \in Index, NEW j \in Index, i < j, Sound(i)
  PROVE  Sound(j)
BY DEF Nesting, Sound

-----------------------------------------------------------------------------
(* A handler ends: its frame is dropped, the words it pushed are popped.   *)

(* What Done, in either of its uses, keeps of the invariant.               *)
LEMMA DropFrame ==
  ASSUME IInv, frames # << >>, frames' = Popped, phase' = "return",
         matched' = matched, nodes' = nodes,
         result' = Top.node, rax' \in Words, stack' \in Seq(Words), eaten' \in Nat,
         Sound(Len(frames)) =>
           /\ rax' = Top.node /\ eaten' = eaten
           /\ stack' = SubSeq(stack, 1, Top.base)
  PROVE  /\ frames' \in Seq(Frames) /\ {nodes', rax', result'} \subseteq Words
         /\ \A i \in Index' : Len(frames'[i].vals) <= frames'[i].arity
         /\ frames' # << >> => Len(Top'.vals) < Top'.arity
         /\ Shape' /\ Nesting' /\ InPlace' /\ Ordered' /\ CountsAgree' /\ Bottom' /\ RaxRight'
<1> DEFINE n == Len(frames)
<1>1. /\ n \in Nat \ {0} /\ n \in Index /\ Top = frames[n]
      /\ frames' \in Seq(Frames) /\ Len(frames') = n - 1
      /\ \A i \in 1 .. n - 1 : frames'[i] = frames[i]
  BY PoppedFacts DEF IInv
<1>2. /\ Index = 1 .. n /\ Index' = 1 .. n - 1
      /\ \A i \in Index' : i \in Index /\ i < n
  BY <1>1 DEF Index
<1>3. ExprTypeOK /\ Shape /\ Nesting /\ InPlace /\ Ordered /\ CountsAgree /\ Bottom
  BY DEF IInv
<1>4. \A i \in Index' : Sound(i)' <=> Sound(i)
  BY <1>1, <1>2 DEF Sound
<1>5. ASSUME NEW i \in Index', Sound(i) PROVE Sound(n)
  BY <1>1, <1>2, <1>3, <1>5, SoundUpwards
<1>6. frames' # << >> => Top' = frames[n - 1] /\ n - 1 \in Index'
  <2> SUFFICES ASSUME frames' # << >> PROVE Top' = frames[n - 1] /\ n - 1 \in Index'
    OBVIOUS
  <2>1. n - 1 # 0
    BY <1>1, EmptySeq
  <2> QED BY <1>1, <1>2, <2>1 DEF Top
<1>7. frames' # << >> => Len(Top'.vals) < Top'.arity
  BY <1>1, <1>2, <1>3, <1>6 DEF Shape
<1>8. \A i \in Index' : Len(frames'[i].vals) <= frames'[i].arity
  BY <1>1, <1>2, <1>3 DEF ExprTypeOK
<1>9. Shape'
  BY <1>1, <1>2, <1>3 DEF Shape
<1>10. Nesting'
  BY <1>1, <1>2, <1>3 DEF Nesting
<1>11. \A i \in Index' : Height(i)' = Height(i) /\ frames'[i].base = frames[i].base
  BY <1>1, <1>2 DEF Height
<1>12. Ordered'
  BY <1>1, <1>2, <1>3, <1>4, <1>11 DEF Ordered
<1>13. CountsAgree'
  <2> SUFFICES ASSUME matched', NEW i \in Index', NEW j \in Index', i < j, IsCall(i)', IsCall(j)',
                      \A k \in Index' : i < k /\ k < j => ~IsCall(k)'
               PROVE  (frames[j].arity = Len(frames[i].vals))'
    BY DEF CountsAgree
  <2>1. IsCall(i) /\ IsCall(j)
    BY <1>1, <1>2 DEF IsCall
  <2>2. \A k \in Index : i < k /\ k < j => k \in Index' /\ ~IsCall(k)
    BY <1>1, <1>2 DEF IsCall
  <2>3. frames[j].arity = Len(frames[i].vals)
    BY <1>2, <1>3, <2>1, <2>2 DEF CountsAgree
  <2> QED BY <1>1, <1>2, <2>3
<1>14. Sound(n) => /\ Top.base \in Nat /\ Top.base <= Len(stack)
                   /\ Len(stack') = Top.base
                   /\ \A k \in 1 .. Top.base : stack'[k] = stack[k]
  <2> SUFFICES ASSUME Sound(n) PROVE /\ Top.base \in Nat /\ Top.base <= Len(stack)
                                     /\ Len(stack') = Top.base
                                     /\ \A k \in 1 .. Top.base : stack'[k] = stack[k]
    OBVIOUS
  <2>1. stack \in Seq(Words) /\ Len(stack) \in Nat
    BY <1>3, LenProperties DEF ExprTypeOK
  <2>2. Top.base \in Nat /\ Height(n) \in Nat /\ Top.base <= Height(n)
    BY <1>1, <1>3, FrameFacts DEF Height
  <2>3. Top.base <= Len(stack)
    BY <1>1, <1>3, <2>1, <2>2 DEF InPlace, OperandsInPlace
  <2>4. stack' = SubSeq(stack, 1, Top.base)
    OBVIOUS
  <2> QED BY <2>1, <2>2, <2>3, <2>4, SubSeqProperties
<1>15. InPlace'
  <2> SUFFICES ASSUME NEW i \in Index', Sound(i) PROVE OperandsInPlace(i)'
    BY <1>4 DEF InPlace
  <2>1. Sound(n) /\ OperandsInPlace(i)
    BY <1>2, <1>3, <1>5 DEF InPlace
  <2>2. Height(i) \in Nat /\ frames[i].base \in Nat /\ Len(frames[i].vals) \in Nat
    BY <1>2, <1>3, FrameFacts
  <2>3. Height(i) <= Top.base
    BY <1>1, <1>2, <1>3 DEF Ordered
  <2>4. Height(i)' = IF i = Len(frames') THEN Len(stack') ELSE frames'[i + 1].base
    <3>1. Height(i) = frames[i + 1].base
      BY <1>1, <1>2, <2>1 DEF OperandsInPlace
    <3>2. CASE i = n - 1
      BY <1>1, <1>11, <1>14, <2>1, <3>1, <3>2
    <3>3. CASE i # n - 1
      BY <1>1, <1>2, <1>11, <3>1, <3>3
    <3> QED BY <3>2, <3>3
  <2>5. \A k \in 1 .. Len(frames[i].vals) :
          frames[i].base + k \in 1 .. Top.base /\ stack[frames[i].base + k] = frames[i].vals[k]
    <3> TAKE k \in 1 .. Len(frames[i].vals)
    <3>1. stack[frames[i].base + k] = frames[i].vals[k]
      BY <2>1 DEF OperandsInPlace
    <3>2. frames[i].base + Len(frames[i].vals) <= Top.base
      BY <2>3 DEF Height
    <3>3. Top.base \in Nat
      BY <1>14, <2>1
    <3> HIDE DEF Top
    <3>4. frames[i].base + k \in 1 .. Top.base
      BY <2>2, <3>2, <3>3
    <3> QED BY <3>1, <3>4
  <2>6. \A k \in 1 .. Len(frames[i].vals) : stack'[frames[i].base + k] = frames[i].vals[k]
    BY <1>14, <2>1, <2>5
  <2> QED BY <1>1, <1>2, <1>11, <1>14, <2>1, <2>2, <2>3, <2>4, <2>6 DEF OperandsInPlace
<1>16. Bottom'
  <2> SUFFICES ASSUME matched PROVE /\ eaten' = 0
                                    /\ frames' = << >> => stack' = << >>
                                    /\ frames' # << >> => frames'[1].base = 0
    BY DEF Bottom
  <2>1. Sound(n)
    BY DEF Sound
  <2>2. frames[1].base = 0 /\ eaten = 0
    BY <1>3 DEF Bottom
  <2>3. frames' # << >> => frames'[1].base = 0
    BY <1>1, <1>2, <1>6, <2>2
  <2>4. frames' = << >> => stack' = << >>
    <3> SUFFICES ASSUME frames' = << >> PROVE stack' = << >>
      OBVIOUS
    <3>1. n = 1
      BY <1>1, EmptySeq
    <3>2. Len(stack') = 0
      BY <1>1, <1>14, <2>1, <2>2, <3>1
    <3> QED BY <3>2, EmptySeq
  <2> QED BY <2>1, <2>2, <2>3, <2>4
<1>17. RaxRight'
  <2> SUFFICES ASSUME matched \/ (frames' # << >> /\ ~Top'.nested) PROVE rax' = result'
    BY DEF RaxRight
  <2>1. Sound(n)
    <3>1. CASE matched
      BY <3>1 DEF Sound
    <3>2. CASE frames' # << >> /\ ~Top'.nested
      BY <1>1, <1>2, <1>3, <1>6, <3>2 DEF Nesting, Sound
    <3> QED BY <3>1, <3>2
  <2> QED BY <2>1
<1>18. {nodes', rax', result'} \subseteq Words
  BY <1>1, <1>3, FrameFacts DEF ExprTypeOK
<1> QED BY <1>1, <1>2, <1>7, <1>8, <1>9, <1>10, <1>12, <1>13, <1>15, <1>16, <1>17, <1>18

(* An operator has its operands: its code pops the ones on the stack and   *)
(* leaves the value of the node in rax.                                    *)
LEMMA OperatorResultPreserves ==
  ASSUME IInv, OperatorResult PROVE IInv'
<1> DEFINE n == Len(frames)
           f == Receive(Top)
           used == [k \in 1 .. Top.pops + 1 |->
                      IF k <= Top.pops THEN Word(Len(stack) - Top.pops + k) ELSE rax]
<1>1. /\ phase = "return" /\ frames # << >> /\ Top.op = "operator" /\ ~MoreOperands(f)
      /\ PopWords(Top.pops) /\ rax' = Value(f, used) /\ result' = f.node
      /\ frames' = Popped /\ phase' = "return"
      /\ nodes' = nodes /\ tmp_arg_count' = tmp_arg_count /\ call' = call /\ matched' = matched
  BY DEF OperatorResult, Done
<1>2. /\ n \in Nat \ {0} /\ n \in Index /\ Top \in Frames /\ Top = frames[n]
      /\ frames' \in Seq(Frames) /\ Len(frames') = n - 1
      /\ \A i \in 1 .. n - 1 : frames'[i] = frames[i]
  BY <1>1, PoppedFacts DEF IInv
<1>3. ExprTypeOK /\ Shape /\ InPlace /\ Counted /\ CallRight /\ RaxRight
  BY DEF IInv
<1>4. /\ stack \in Seq(Words) /\ Len(stack) \in Nat /\ rax \in Words /\ result \in Words
      /\ eaten \in Nat
  BY <1>3, LenProperties DEF ExprTypeOK
<1>5. /\ Top.vals \in Seq(Words) /\ Len(Top.vals) \in Nat /\ Top.node \in Words
      /\ Top.pops \in Nat /\ Top.arity = Top.pops + 1 /\ Top.base \in Nat
      /\ Height(n) = Top.base + Len(Top.vals)
  BY <1>1, <1>2, <1>3, FrameFacts DEF Shape, Height
<1>6. /\ f.vals = Append(Top.vals, result) /\ f.node = Top.node /\ f.arity = Top.arity
  BY <1>2 DEF Receive, Frames
<1>7. /\ f.vals \in Seq(Words) /\ Len(f.vals) = Len(Top.vals) + 1
      /\ \A k \in 1 .. Len(Top.vals) : f.vals[k] = Top.vals[k]
      /\ f.vals[Len(Top.vals) + 1] = result
  BY <1>4, <1>5, <1>6, AppendProperties
<1>8. Len(Top.vals) = Top.pops
  <2>1. Len(Top.vals) < Top.arity
    BY <1>1, <1>3 DEF ExprTypeOK
  <2> QED BY <1>1, <1>5, <1>6, <1>7, <2>1 DEF MoreOperands
<1>9. ASSUME Sound(n)
      PROVE  rax' = Top.node /\ eaten' = eaten /\ stack' = SubSeq(stack, 1, Top.base)
  <2>1. /\ Height(n) = Len(stack)
        /\ \A k \in 1 .. Len(Top.vals) : stack[Top.base + k] = Top.vals[k]
    BY <1>2, <1>3, <1>9 DEF InPlace, OperandsInPlace
  <2>2. Len(stack) - Top.pops = Top.base /\ Top.pops <= Len(stack)
    BY <1>4, <1>5, <1>8, <2>1
  <2>3. eaten' = eaten /\ stack' = SubSeq(stack, 1, Top.base)
    BY <1>1, <2>2 DEF PopWords
  <2>4. rax = result
    BY <1>1, <1>2, <1>3, <1>9 DEF RaxRight, Sound
  <2>5. ASSUME NEW k \in 1 .. Top.pops + 1
        PROVE  used[k] = f.vals[k] /\ used[k] \in Words
    <3>1. CASE k <= Top.pops
      <4>1. k \in 1 .. Len(Top.vals) /\ Len(stack) - Top.pops + k = Top.base + k
        BY <1>5, <1>8, <2>2, <3>1
      <4>2. Top.base + k \in 1 .. Len(stack)
        BY <1>4, <1>5, <2>1, <4>1
      <4>3. used[k] = Top.vals[k] /\ Top.vals[k] \in Words
        BY <1>5, <2>1, <3>1, <4>1, <4>2, ElementOfSeq DEF Word
      <4> QED BY <1>7, <4>1, <4>3
    <3>2. CASE ~(k <= Top.pops)
      BY <1>4, <1>5, <1>7, <1>8, <2>4, <3>2
    <3> QED BY <3>1, <3>2
  <2>6. used \in Seq(Words) /\ Len(used) = Top.pops + 1
    <3>1. used \in [1 .. Top.pops + 1 -> Words]
      BY <2>5
    <3>2. Top.pops + 1 \in Nat
      BY <1>5
    <3> HIDE DEF used
    <3> QED BY <3>1, <3>2, TableIsSeq
  <2>7. used = f.vals
    <3> HIDE DEF used, f
    <3> QED BY <1>7, <1>8, <2>5, <2>6, SeqEqual
  <2> QED BY <1>1, <1>6, <2>3, <2>7 DEF Value
<1>10. /\ rax' \in Words /\ stack' \in Seq(Words) /\ eaten' \in Nat
  <2>1. rax' \in Words
    BY <1>1, <1>5, <1>6, ExprAssumption DEF Value, Words, Junk
  <2> QED BY <1>1, <1>3, <1>5, <2>1, PopWordsFacts
<1>11. result' = Top.node
  BY <1>1, <1>6
<1> HIDE DEF used, f
<1>12. /\ frames' \in Seq(Frames) /\ {nodes', rax', result'} \subseteq Words
       /\ \A i \in Index' : Len(frames'[i].vals) <= frames'[i].arity
       /\ frames' # << >> => Len(Top'.vals) < Top'.arity
       /\ Shape' /\ Nesting' /\ InPlace' /\ Ordered' /\ CountsAgree' /\ Bottom' /\ RaxRight'
  BY <1>1, <1>9, <1>10, <1>11, DropFrame
<1>13. ExprTypeOK'
  BY <1>1, <1>3, <1>10, <1>12 DEF ExprTypeOK, Index
<1>14. Counted'
  <2> SUFFICES ASSUME NEW i \in Index', LastCall(i)', Sound(i)'
               PROVE  tmp_arg_count' = Len(frames'[i].vals)
    BY DEF Counted
  <2>1. i \in Index /\ i \in 1 .. n - 1 /\ frames'[i] = frames[i] /\ Sound(i)
    BY <1>1, <1>2 DEF Index, Sound
  <2>2. ASSUME NEW j \in Index, i < j PROVE ~IsCall(j)
    <3>1. CASE j = n
      BY <1>1, <1>2, <3>1 DEF IsCall
    <3>2. CASE j # n
      <4> HIDE DEF n
      <4>0. j \in 1 .. n /\ Index' = 1 .. n - 1
        BY <1>2 DEF Index, n
      <4>1. j \in Index' /\ frames'[j] = frames[j]
        BY <1>2, <3>2, <4>0
      <4> QED BY <2>2, <4>1 DEF LastCall, IsCall
    <3> QED BY <3>1, <3>2
  <2>3. LastCall(i)
    BY <2>1, <2>2 DEF LastCall, IsCall
  <2> QED BY <1>1, <1>3, <2>1, <2>3 DEF Counted
<1>15. CallRight'
  BY <1>1, <1>3 DEF CallRight
<1> QED BY <1>12, <1>13, <1>14, <1>15 DEF IInv

(* A call that has its arguments: when the count is its own they are popped *)
(* into their registers; more than there are registers are never counted   *)
(* while every count is right.                                             *)
LEMMA CallPreserves ==
  ASSUME IInv, emit_fn_call_expr PROVE IInv'
<1> DEFINE n == Len(frames)
           used == Passed(tmp_arg_count, Top.arity)
<1>1. /\ phase = "pop" /\ frames # << >> /\ Top.op = "call" /\ Len(Top.vals) = Top.arity
      /\ nodes' = nodes /\ tmp_arg_count' = tmp_arg_count /\ matched' = matched
  BY DEF emit_fn_call_expr, IInv, Shape
<1>2. /\ n \in Nat \ {0} /\ n \in Index /\ Top \in Frames /\ Top = frames[n]
  BY <1>1, PoppedFacts DEF IInv
<1>3. ExprTypeOK /\ Shape /\ Nesting /\ InPlace /\ Ordered /\ Counted /\ CountsAgree /\ Bottom /\ CallRight
  BY DEF IInv
<1>4. /\ stack \in Seq(Words) /\ Len(stack) \in Nat /\ tmp_arg_count \in Nat
      /\ eaten \in Nat
  BY <1>3, LenProperties DEF ExprTypeOK
<1>5. /\ Top.vals \in Seq(Words) /\ Len(Top.vals) \in Nat /\ Top.node \in Words
      /\ Top.arity \in Nat /\ Top.arity <= ARG_REGS /\ Top.base \in Nat
      /\ Top.nested \in BOOLEAN
      /\ Height(n) = Top.base + Len(Top.vals)
  BY <1>1, <1>2, <1>3, FrameFacts DEF Shape, Height
<1>6. LastCall(n)
  <2>1. \A j \in Index : ~(n < j)
    <3> HIDE DEF n
    <3>1. Index = 1 .. n /\ n \in Nat
      BY <1>2 DEF Index, n
    <3> QED BY <3>1
  <2> QED BY <1>1, <1>2, <2>1 DEF LastCall, IsCall
<1>7. Sound(n) => tmp_arg_count = Top.arity
  BY <1>1, <1>2, <1>3, <1>6 DEF Counted
<1>8. ARG_REGS \in Nat
  BY ExprAssumption
<1>9. CASE tmp_arg_count > ARG_REGS
  <2>1. phase' = "failed" /\ UNCHANGED <<frames, rax, stack, eaten, call, result>>
    BY <1>9 DEF emit_fn_call_expr
  <2>2. ~matched
    BY <1>4, <1>5, <1>7, <1>8, <1>9 DEF Sound
  <2>3. ExprTypeOK'
    BY <1>1, <1>3, <2>1 DEF ExprTypeOK, Top
  <2>4. Shape' /\ Nesting' /\ Bottom' /\ RaxRight' /\ CallRight' /\ CountsAgree'
    BY <1>1, <1>3, <2>1, <2>2
       DEF Shape, Nesting, Bottom, RaxRight, CallRight, CountsAgree, Index, Top
  <2>5. InPlace' /\ Ordered' /\ Counted'
    BY <1>1, <1>3, <2>1 DEF InPlace, Ordered, Counted, Index, Sound, LastCall, IsCall,
                            OperandsInPlace, Height
  <2> QED BY <2>3, <2>4, <2>5 DEF IInv
<1>10. CASE ~(tmp_arg_count > ARG_REGS)
  <2>1. /\ PopWords(tmp_arg_count)
        /\ call' = [meant |-> Top.vals, passed |-> used, nested |-> Top.nested]
        /\ rax' = Value(Top, used) /\ result' = Top.node /\ frames' = Popped /\ phase' = "return"
    BY <1>10 DEF emit_fn_call_expr, Done
  <2>2. /\ frames' \in Seq(Frames) /\ Len(frames') = n - 1
        /\ \A i \in 1 .. n - 1 : frames'[i] = frames[i]
    BY <1>1, <1>3, <2>1, PoppedFacts
  <2>3. used \in Seq(Words) /\ Len(used) = Top.arity
    <3>1. \A k \in 1 .. Top.arity :
            (IF k <= tmp_arg_count THEN Word(Len(stack) - tmp_arg_count + k) ELSE Junk) \in Words
      BY <1>4, ElementOfSeq, ExprAssumption DEF Word, Words, Junk
    <3>2. used \in [1 .. Top.arity -> Words]
      BY <3>1 DEF Passed
    <3> HIDE DEF used
    <3> QED BY <1>5, <3>2, TableIsSeq
  <2>4. ASSUME Sound(n)
        PROVE  used = Top.vals /\ eaten' = eaten /\ stack' = SubSeq(stack, 1, Top.base)
    <3>1. /\ Height(n) = Len(stack)
          /\ \A k \in 1 .. Len(Top.vals) : stack[Top.base + k] = Top.vals[k]
      BY <1>2, <1>3, <2>4 DEF InPlace, OperandsInPlace
    <3>2. tmp_arg_count = Len(Top.vals)
      BY <1>1, <1>7, <2>4
    <3>3. Len(stack) - tmp_arg_count = Top.base /\ tmp_arg_count <= Len(stack)
      BY <1>4, <1>5, <3>1, <3>2
    <3>4. eaten' = eaten /\ stack' = SubSeq(stack, 1, Top.base)
      BY <2>1, <3>3 DEF PopWords
    <3>5. ASSUME NEW k \in 1 .. Len(Top.vals) PROVE used[k] = Top.vals[k]
      <4>1. k \in 1 .. Top.arity /\ k <= tmp_arg_count
        BY <1>1, <1>5, <3>2
      <4>2. Top.base + k \in 1 .. Len(stack)
        BY <1>4, <1>5, <3>1
      <4>3. used[k] = Word(Top.base + k)
        BY <3>3, <4>1 DEF Passed
      <4> QED BY <3>1, <4>2, <4>3 DEF Word
    <3>6. used = Top.vals
      <4> HIDE DEF used
      <4> QED BY <1>1, <1>5, <2>3, <3>5, SeqEqual
    <3> QED BY <3>4, <3>6
  <2> HIDE DEF used
  <2>5. rax' \in Words /\ stack' \in Seq(Words) /\ eaten' \in Nat
    <3>1. rax' \in Words
      BY <1>5, <2>1, ExprAssumption DEF Value, Words, Junk
    <3> QED BY <1>3, <1>4, <2>1, <3>1, PopWordsFacts
  <2>6. Sound(n) => rax' = Top.node
    BY <2>1, <2>4 DEF Value
  <2>7. /\ frames' \in Seq(Frames) /\ {nodes', rax', result'} \subseteq Words
        /\ \A i \in Index' : Len(frames'[i].vals) <= frames'[i].arity
        /\ frames' # << >> => Len(Top'.vals) < Top'.arity
        /\ Shape' /\ Nesting' /\ InPlace' /\ Ordered' /\ CountsAgree' /\ Bottom' /\ RaxRight'
    BY <1>1, <2>1, <2>4, <2>5, <2>6, DropFrame
  <2>8. call' \in Call
    BY <1>5, <2>1, <2>3 DEF Call
  <2>9. ExprTypeOK'
    BY <1>1, <1>3, <2>1, <2>5, <2>7, <2>8 DEF ExprTypeOK, Index
  <2>10. CallRight'
    BY <1>1, <1>2, <2>1, <2>4 DEF CallRight, Sound
  <2>11. Counted'
    <3> SUFFICES ASSUME NEW i \in Index', LastCall(i)', Sound(i)'
                 PROVE  tmp_arg_count' = Len(frames'[i].vals)
      BY DEF Counted
    <3>1. /\ i \in Index /\ i < n /\ frames'[i] = frames[i] /\ Sound(i)
      BY <1>1, <1>2, <2>2 DEF Index, Sound
    <3>2. matched
      BY <1>1, <1>2, <1>3, <3>1 DEF Nesting, Sound
    <3>3. ASSUME NEW k \in Index, i < k, k < n PROVE ~IsCall(k)
      <4> HIDE DEF n
      <4>1. k \in 1 .. n /\ Index' = 1 .. n - 1 /\ n \in Nat
        BY <1>2, <2>2 DEF Index, n
      <4>2. k \in Index' /\ frames'[k] = frames[k]
        BY <2>2, <3>3, <4>1
      <4> QED BY <3>3, <4>2 DEF LastCall, IsCall
    <3>4. IsCall(i) /\ IsCall(n)
      BY <1>1, <1>2, <3>1 DEF LastCall, IsCall
    <3>5. frames[n].arity = Len(frames[i].vals)
      BY <1>2, <1>3, <3>1, <3>2, <3>3, <3>4 DEF CountsAgree
    <3> QED BY <1>1, <1>2, <1>7, <3>1, <3>2, <3>5 DEF Sound
  <2> QED BY <2>7, <2>9, <2>10, <2>11 DEF IInv
<1> QED BY <1>9, <1>10

-----------------------------------------------------------------------------
(* An operand is done and waits on the stack.                              *)

(* What pushing it, by an operator or by a call, keeps of the invariant.   *)
LEMMA PushWord ==
  ASSUME IInv, phase = "return", frames # << >>,
         stack' = Pushed, frames' = Append(Popped, Receive(Top)),
         matched' = matched, eaten' = eaten, phase' \in {"visit", "pop"}
  PROVE  /\ frames' \in Seq(Frames) /\ Len(frames') = Len(frames) /\ stack' \in Seq(Words)
         /\ \A i \in 1 .. Len(frames) - 1 : frames'[i] = frames[i]
         /\ frames'[Len(frames)] = Receive(Top) /\ Top' = Receive(Top)
         /\ Len(Receive(Top).vals) = Len(Top.vals) + 1
         /\ Len(Top.vals) < Top.arity
         /\ \A i \in Index :
              /\ frames'[i].op = frames[i].op /\ frames'[i].arity = frames[i].arity
              /\ frames'[i].pops = frames[i].pops /\ frames'[i].base = frames[i].base
              /\ frames'[i].nested = frames[i].nested
         /\ Nesting' /\ InPlace' /\ Ordered' /\ CountsAgree' /\ Bottom'
<1> DEFINE n == Len(frames)
           f == Receive(Top)
<1>1. /\ n \in Nat \ {0} /\ n \in Index /\ Top \in Frames /\ Top = frames[n]
      /\ Popped \in Seq(Frames) /\ Len(Popped) = n - 1
      /\ \A i \in 1 .. n - 1 : Popped[i] = frames[i]
  BY PoppedFacts DEF IInv
<1>2. ExprTypeOK /\ Nesting /\ InPlace /\ Ordered /\ CountsAgree /\ Bottom /\ RaxRight
  BY DEF IInv
<1>3. /\ stack \in Seq(Words) /\ Len(stack) \in Nat /\ rax \in Words /\ result \in Words
  BY <1>2, LenProperties DEF ExprTypeOK
<1>4. /\ Top.vals \in Seq(Words) /\ Len(Top.vals) \in Nat /\ Top.base \in Nat
      /\ Len(Top.vals) < Top.arity
  BY <1>1, <1>2, FrameFacts DEF ExprTypeOK
<1>5. /\ f.vals = Append(Top.vals, result) /\ f \in Frames
      /\ f.op = Top.op /\ f.arity = Top.arity /\ f.pops = Top.pops /\ f.base = Top.base
      /\ f.nested = Top.nested
  <2>1. Append(Top.vals, result) \in Seq(Words)
    BY <1>3, <1>4, AppendProperties
  <2> QED BY <1>1, <2>1 DEF Receive, Frames
<1>6. /\ Len(f.vals) = Len(Top.vals) + 1
      /\ \A k \in 1 .. Len(Top.vals) : f.vals[k] = Top.vals[k]
      /\ f.vals[Len(Top.vals) + 1] = result
  BY <1>3, <1>4, <1>5, AppendProperties
<1>7. /\ stack' \in Seq(Words) /\ Len(stack') = Len(stack) + 1
      /\ \A k \in 1 .. Len(stack) : stack'[k] = stack[k]
      /\ stack'[Len(stack) + 1] = rax
  BY <1>3, AppendProperties DEF Pushed
<1> HIDE DEF n, f
<1>8. /\ frames' \in Seq(Frames) /\ Len(frames') = n
      /\ \A i \in 1 .. n - 1 : frames'[i] = frames[i]
      /\ frames'[n] = f
  <2>1. frames' = Append(Popped, f)
    BY DEF f
  <2>2. /\ frames' \in Seq(Frames) /\ Len(frames') = (n - 1) + 1
        /\ \A i \in 1 .. n - 1 : frames'[i] = Popped[i]
        /\ frames'[(n - 1) + 1] = f
    BY <1>1, <1>5, <2>1, AppendProperties
  <2>3. (n - 1) + 1 = n
    BY <1>1
  <2> QED BY <1>1, <2>2, <2>3
<1>9. Index = 1 .. n /\ Index' = Index
  BY <1>8 DEF Index, n
<1>10. Top' = f
  BY <1>8 DEF Top
<1>11. ASSUME NEW i \in Index PROVE i \in 1 .. n - 1 \/ i = n
  BY <1>1, <1>9
<1>12. \A i \in Index :
         /\ frames'[i].op = frames[i].op /\ frames'[i].arity = frames[i].arity
         /\ frames'[i].pops = frames[i].pops /\ frames'[i].base = frames[i].base
         /\ frames'[i].nested = frames[i].nested
  BY <1>1, <1>5, <1>8, <1>11
<1>13. \A i \in Index : (Sound(i)' <=> Sound(i)) /\ (IsCall(i)' <=> IsCall(i))
  BY <1>9, <1>12 DEF Sound, IsCall
<1>14. Nesting'
  <2> SUFFICES ASSUME NEW i \in Index, NEW j \in Index, i < j,
                      frames'[j].op = "call" \/ frames'[j].nested
               PROVE  frames'[i].nested
    BY <1>9 DEF Nesting
  <2>1. frames[j].op = "call" \/ frames[j].nested
    BY <1>12, Zenon
  <2>2. frames[i].nested
    BY <1>2, <2>1 DEF Nesting
  <2> QED BY <1>12, <2>2, Zenon
<1>15. \A i \in 1 .. n - 1 : frames'[i].vals = frames[i].vals /\ Height(i)' = Height(i)
  BY <1>8 DEF Height
<1>16. \A i, j \in Index : i < j => i \in 1 .. n - 1
  BY <1>1, <1>9
<1>17. Ordered'
  <2> SUFFICES ASSUME NEW i \in Index, NEW j \in Index, i < j, Sound(i)'
               PROVE  Height(i)' <= frames'[j].base
    BY <1>9 DEF Ordered
  <2>1. Height(i) <= frames[j].base
    BY <1>2, <1>13 DEF Ordered
  <2> QED BY <1>12, <1>15, <1>16, <2>1
<1>18. CountsAgree'
  <2> SUFFICES ASSUME matched', NEW i \in Index, NEW j \in Index, i < j, IsCall(i)', IsCall(j)',
                      \A k \in Index : i < k /\ k < j => ~IsCall(k)'
               PROVE  (frames[j].arity = Len(frames[i].vals))'
    BY <1>9 DEF CountsAgree
  <2>1. frames[j].arity = Len(frames[i].vals)
    BY <1>2, <1>13 DEF CountsAgree
  <2> QED BY <1>12, <1>15, <1>16, <2>1
<1>19. InPlace'
  <2> SUFFICES ASSUME NEW i \in Index, Sound(i) PROVE OperandsInPlace(i)'
    BY <1>9, <1>13 DEF InPlace
  <2>1. OperandsInPlace(i)
    BY <1>2 DEF InPlace
  <2>2. Height(i) \in Nat /\ frames[i].base \in Nat /\ Len(frames[i].vals) \in Nat
    BY <1>2, FrameFacts
  <2>3. Height(i) <= Len(stack)
    BY <2>1 DEF OperandsInPlace
  <2>4. CASE i \in 1 .. n - 1
    <3>1. Height(i)' = Height(i) /\ frames'[i] = frames[i]
      BY <1>8, <1>15, <2>4
    <3>2. i # n /\ i + 1 \in Index
      BY <1>1, <1>9, <2>4
    <3>3. Height(i) = frames[i + 1].base
      BY <2>1, <3>2 DEF OperandsInPlace, n
    <3>4. Height(i)' = IF i = Len(frames') THEN Len(stack') ELSE frames'[i + 1].base
      BY <1>8, <1>12, <3>1, <3>2, <3>3
    <3>5. Height(i)' <= Len(stack')
      BY <1>3, <1>7, <2>2, <2>3, <3>1
    <3>6. ASSUME NEW k \in 1 .. Len(frames[i].vals)
          PROVE  stack'[frames[i].base + k] = frames[i].vals[k]
      <4>1. frames[i].base + Len(frames[i].vals) <= Len(stack)
        BY <2>3 DEF Height
      <4>2. frames[i].base + k \in 1 .. Len(stack)
        BY <1>3, <2>2, <4>1
      <4>3. stack[frames[i].base + k] = frames[i].vals[k]
        BY <2>1 DEF OperandsInPlace
      <4> QED BY <1>7, <4>2, <4>3
    <3> QED BY <3>1, <3>4, <3>5, <3>6 DEF OperandsInPlace
  <2>5. CASE i = n
    <3>1. Height(n) = Len(stack) /\ Height(n) = Top.base + Len(Top.vals)
      BY <1>1, <2>1, <2>5 DEF OperandsInPlace, Height, n
    <3>2. Height(i)' = Top.base + (Len(Top.vals) + 1)
      BY <1>5, <1>6, <1>8, <2>5 DEF Height
    <3>3. Height(i)' = Len(stack')
      BY <1>3, <1>4, <1>7, <3>1, <3>2
    <3>4. rax = result
      BY <1>1, <1>2, <2>5 DEF RaxRight, Sound
    <3>5. ASSUME NEW k \in 1 .. Len(Top.vals) + 1
          PROVE  stack'[Top.base + k] = f.vals[k]
      <4>1. CASE k \in 1 .. Len(Top.vals)
        <5>1. stack[Top.base + k] = Top.vals[k]
          BY <1>1, <2>1, <2>5, <4>1 DEF OperandsInPlace
        <5>2. Top.base + k \in 1 .. Len(stack)
          BY <1>3, <1>4, <3>1, <4>1
        <5> QED BY <1>6, <1>7, <4>1, <5>1, <5>2
      <4>2. CASE k \notin 1 .. Len(Top.vals)
        <5>1. k = Len(Top.vals) + 1
          BY <1>4, <4>2
        <5>2. Top.base + k = Len(stack) + 1
          BY <1>3, <1>4, <3>1, <5>1
        <5> QED BY <1>6, <1>7, <3>4, <5>1, <5>2
      <4> QED BY <4>1, <4>2
    <3>6. Len(stack') \in Nat
      BY <1>3, <1>7
    <3>7. frames'[i].base = Top.base /\ frames'[i].vals = f.vals
      BY <1>5, <1>8, <2>5
    <3>8. Height(i)' = (IF i = Len(frames') THEN Len(stack') ELSE frames'[i + 1].base)
      BY <1>8, <2>5, <3>3
    <3>9. Height(i)' <= Len(stack')
      BY <3>3, <3>6
    <3> QED BY <1>6, <3>5, <3>7, <3>8, <3>9 DEF OperandsInPlace
  <2> QED BY <1>11, <2>4, <2>5
<1>20. Bottom'
  <2>1. frames' # << >> /\ 1 \in Index
    BY <1>1, <1>8, <1>9, EmptySeq
  <2>2. frames'[1].base = frames[1].base
    BY <1>12, <2>1
  <2> QED BY <1>2, <2>1, <2>2 DEF Bottom
<1> QED BY <1>4, <1>6, <1>7, <1>8, <1>10, <1>12, <1>14, <1>17, <1>18, <1>19, <1>20 DEF n, f

(* An operand of an operator that is not its last.                         *)
LEMMA OperandPreserves ==
  ASSUME IInv, Operand PROVE IInv'
<1> DEFINE n == Len(frames)
<1>1. /\ phase = "return" /\ frames # << >> /\ Top.op = "operator" /\ MoreOperands(Receive(Top))
      /\ stack' = Pushed /\ frames' = Append(Popped, Receive(Top)) /\ phase' = "visit"
      /\ UNCHANGED <<nodes, tmp_arg_count, rax, eaten, call, result, matched>>
  BY DEF Operand
<1>2. ExprTypeOK /\ Shape /\ Counted /\ CallRight
  BY DEF IInv
<1>3. n \in Nat \ {0} /\ n \in Index /\ Top = frames[n] /\ Top \in Frames
  BY <1>1, <1>2, PoppedFacts
<1>4. /\ frames' \in Seq(Frames) /\ Len(frames') = n /\ stack' \in Seq(Words)
      /\ \A i \in 1 .. n - 1 : frames'[i] = frames[i]
      /\ frames'[n] = Receive(Top) /\ Top' = Receive(Top)
      /\ \A i \in Index :
           /\ frames'[i].op = frames[i].op /\ frames'[i].arity = frames[i].arity
           /\ frames'[i].pops = frames[i].pops
           /\ frames'[i].nested = frames[i].nested
      /\ Nesting' /\ InPlace' /\ Ordered' /\ CountsAgree' /\ Bottom'
  BY <1>1, PushWord
<1>5. Len(Receive(Top).vals) < Receive(Top).arity
  BY <1>1 DEF MoreOperands
<1> HIDE DEF n
<1>6. Index = 1 .. n /\ Index' = Index /\ \A i \in Index : i \in 1 .. n - 1 \/ i = n
  BY <1>3, <1>4 DEF Index, n
<1>7. \A i \in Index : Len(frames'[i].vals) <= frames'[i].arity
  <2>1. Len(Receive(Top).vals) \in Nat /\ Receive(Top).arity \in Nat
    <3>1. Receive(Top) \in Frames
      BY <1>3, <1>4, <1>6, ElementOfSeq DEF n
    <3> QED BY <3>1, LenProperties DEF Frames
  <2>2. Len(Receive(Top).vals) <= Receive(Top).arity
    BY <1>5, <2>1
  <2> QED BY <1>2, <1>4, <1>6, <2>2 DEF ExprTypeOK, Index
<1>8. ExprTypeOK'
  BY <1>1, <1>2, <1>4, <1>5, <1>6, <1>7 DEF ExprTypeOK, Index
<1>9. Shape'
  <2>1. \A i \in Index : i < n => i \in 1 .. n - 1
    BY <1>3, <1>6
  <2> QED BY <1>1, <1>2, <1>4, <1>6, <2>1 DEF Shape, n
<1>10. Counted'
  <2> SUFFICES ASSUME NEW i \in Index, LastCall(i)', Sound(i)'
               PROVE  tmp_arg_count' = Len(frames'[i].vals)
    BY <1>6 DEF Counted
  <2>0. \A j \in Index : (IsCall(j)' <=> IsCall(j)) /\ (Sound(j)' <=> Sound(j))
    BY <1>1, <1>4, <1>6 DEF IsCall, Sound
  <2>1. LastCall(i) /\ Sound(i)
    BY <1>6, <2>0 DEF LastCall
  <2>2. i # n
    BY <1>1, <1>3, <2>1 DEF LastCall, IsCall
  <2> QED BY <1>1, <1>2, <1>4, <1>6, <2>1, <2>2 DEF Counted
<1>11. RaxRight' /\ CallRight'
  BY <1>1, <1>2 DEF RaxRight, CallRight
<1> QED BY <1>4, <1>8, <1>9, <1>10, <1>11 DEF IInv

(* An argument of a call.                                                  *)
LEMMA ArgumentPreserves ==
  ASSUME IInv, Argument PROVE IInv'
<1> DEFINE n == Len(frames)
           f == Receive(Top)
<1>1. /\ phase = "return" /\ frames # << >> /\ Top.op = "call"
      /\ stack' = Pushed /\ frames' = Append(Popped, f)
      /\ phase' = (IF MoreOperands(f) THEN "visit" ELSE "pop")
      /\ tmp_arg_count' = tmp_arg_count + 1
      /\ UNCHANGED <<nodes, rax, eaten, call, result, matched>>
  BY DEF Argument
<1>2. ExprTypeOK /\ Shape /\ Counted /\ CallRight
  BY DEF IInv
<1>3. n \in Nat \ {0} /\ n \in Index /\ Top = frames[n] /\ Top \in Frames
  BY <1>1, <1>2, PoppedFacts
<1>4. /\ frames' \in Seq(Frames) /\ Len(frames') = n /\ stack' \in Seq(Words)
      /\ \A i \in 1 .. n - 1 : frames'[i] = frames[i]
      /\ frames'[n] = f /\ Top' = f
      /\ Len(f.vals) = Len(Top.vals) + 1 /\ Len(Top.vals) < Top.arity
      /\ \A i \in Index :
           /\ frames'[i].op = frames[i].op /\ frames'[i].arity = frames[i].arity
           /\ frames'[i].pops = frames[i].pops
           /\ frames'[i].nested = frames[i].nested
      /\ Nesting' /\ InPlace' /\ Ordered' /\ CountsAgree' /\ Bottom'
  BY <1>1, PushWord
<1> HIDE DEF n, f
<1>5. Index = 1 .. n /\ Index' = Index /\ \A i \in Index : i \in 1 .. n - 1 \/ i = n
  BY <1>3, <1>4 DEF Index, n
<1>6. /\ Top.arity \in Nat /\ Len(Top.vals) \in Nat /\ f.arity = Top.arity /\ f.op = "call"
      /\ tmp_arg_count \in Nat
  BY <1>1, <1>2, <1>3, <1>4, FrameFacts DEF ExprTypeOK
<1>7. Len(f.vals) <= f.arity /\ (MoreOperands(f) \/ Len(f.vals) = f.arity)
  BY <1>4, <1>6 DEF MoreOperands
<1>8. \A i \in Index : Len(frames'[i].vals) <= frames'[i].arity
  BY <1>2, <1>4, <1>5, <1>7 DEF ExprTypeOK, Index
<1>9. ExprTypeOK'
  BY <1>1, <1>2, <1>4, <1>5, <1>6, <1>8 DEF ExprTypeOK, Index, MoreOperands
<1>10. Shape'
  <2>1. \A i \in Index : i < n => i \in 1 .. n - 1
    BY <1>3, <1>5
  <2>2. frames' # << >>
    BY <1>3, <1>4, EmptySeq
  <2> QED BY <1>1, <1>2, <1>4, <1>5, <1>6, <1>7, <2>1, <2>2 DEF Shape, n
<1>11. Counted'
  <2> SUFFICES ASSUME NEW i \in Index, LastCall(i)', Sound(i)'
               PROVE  tmp_arg_count' = Len(frames'[i].vals)
    BY <1>5 DEF Counted
  <2>1. frames'[n].op = "call" /\ n \in Index'
    BY <1>3, <1>4, <1>5, <1>6
  <2>2. i = n
    <3>1. ~(i < n)
      BY <2>1 DEF LastCall, IsCall
    <3> QED BY <1>3, <1>5, <3>1
  <2>3. LastCall(n) /\ Sound(n)
    BY <1>1, <1>3, <1>4, <1>5, <2>2 DEF LastCall, IsCall, Sound
  <2>4. tmp_arg_count = Len(Top.vals)
    BY <1>2, <1>3, <2>3 DEF Counted
  <2> QED BY <1>1, <1>4, <2>2, <2>4
<1>12. RaxRight' /\ CallRight'
  BY <1>1, <1>2 DEF RaxRight, CallRight
<1> QED BY <1>4, <1>9, <1>10, <1>11, <1>12 DEF IInv

-----------------------------------------------------------------------------
(* A handler is entered.                                                   *)

(* Every handler pops the words it has pushed: one per operand but the last.*)
LEMMA HandlersBalance ==
  ASSUME NEW h \in Handlers
  PROVE  h.operands \in Nat /\ h.pops \in Nat /\ h.operands = h.pops + 1
BY DEF Handlers, emit_unary, emit_deref, emit_one_arg_math_builtin, emit_abs_builtin,
       emit_bitcount_builtin, emit_io_close_builtin, emit_binary_expr, emit_pow,
       emit_checked_arithmetic, emit_comparison_expr, emit_logical_expr, emit_array_index,
       emit_addr_of_element, emit_two_arg_math_builtin, emit_wrapping_pow_builtin,
       emit_wrapping_div_mod_builtin, emit_saturating_div_mod_builtin,
       emit_saturating_pow_builtin, emit_io_open_builtin, emit_clamp_builtin,
       emit_io_write_builtin, emit_io_read_builtin

(* A frame is put on "g", the frames below it, all marked when it is a     *)
(* call's.                                                                 *)
Opens(op, arity, pops, g) ==
  /\ Node
  /\ op \in Ops /\ arity \in Nat /\ pops \in Nat /\ g \in Seq(Frames) /\ Len(g) = Len(frames)
  /\ \A i \in Index :
       /\ g[i].op = frames[i].op /\ g[i].arity = frames[i].arity
       /\ g[i].pops = frames[i].pops /\ g[i].vals = frames[i].vals
       /\ g[i].base = frames[i].base
       /\ frames[i].nested => g[i].nested
  /\ \/ op = "operator" /\ g = frames
     \/ \A i \in Index : g[i].nested
  /\ op = "operator" => arity = pops + 1
  /\ op = "call" => arity <= ARG_REGS
  /\ frames' = Append(g, Frame(op, arity, pops))
  /\ (matched' => matched) /\ stack' = stack /\ eaten' = eaten
  /\ \/ phase' = "visit" /\ arity > 0
     \/ phase' = "pop" /\ op = "call" /\ arity = 0

(* What it keeps of the invariant.                                         *)
LEMMA OpenFrame ==
  ASSUME IInv, NEW op, NEW arity, NEW pops, NEW g, Opens(op, arity, pops, g)
  PROVE  /\ frames' \in Seq(Frames) /\ Len(frames') = Len(frames) + 1 /\ nodes' \in Words
         /\ \A i \in Index : frames'[i] = g[i]
         /\ frames'[Len(frames) + 1] = Frame(op, arity, pops)
         /\ Frame(op, arity, pops).op = op /\ Frame(op, arity, pops).vals = << >>
         /\ Frame(op, arity, pops).arity = arity
         /\ \A i \in Index' : Len(frames'[i].vals) <= frames'[i].arity
         /\ phase' = "visit" => Len(Top'.vals) < Top'.arity
         /\ Shape' /\ Nesting' /\ InPlace' /\ Ordered' /\ Bottom'
<1> USE DEF Opens
<1> DEFINE n == Len(frames)
           f == Frame(op, arity, pops)
<1>1. ExprTypeOK /\ Shape /\ Nesting /\ InPlace /\ Ordered /\ Bottom
  BY DEF IInv
<1>2. /\ n \in Nat /\ stack \in Seq(Words) /\ Len(stack) \in Nat
      /\ nodes + 1 \in Words /\ phase = "visit" /\ nodes' = nodes + 1
  BY <1>1, LenProperties, ExprAssumption DEF ExprTypeOK, Node, Words
<1>3. << >> \in Seq(Words) /\ Len(<< >>) = 0
  BY EmptySeq
<1>4. /\ f \in Frames /\ f.op = op /\ f.arity = arity /\ f.pops = pops /\ f.vals = << >>
      /\ f.base = Len(stack) /\ f.nested = FALSE
  BY <1>2, <1>3 DEF Frame, Frames
<1>5. /\ frames' \in Seq(Frames) /\ Len(frames') = n + 1
      /\ \A i \in 1 .. n : frames'[i] = g[i]
      /\ frames'[n + 1] = f
  BY <1>4, AppendProperties
<1> HIDE DEF n, f
<1>6. /\ Index = 1 .. n /\ Index' = 1 .. n + 1
      /\ \A i \in Index' : i \in Index \/ i = n + 1
      /\ \A i \in Index : i \in Index' /\ i <= n /\ i # n + 1
      /\ \A i, j \in Index' : i < j => i \in Index
  <2>1. Index = 1 .. n /\ Index' = 1 .. n + 1
    BY <1>5 DEF Index, n
  <2> QED BY <1>2, <2>1
<1>7. Top' = f
  BY <1>5 DEF Top
<1>8. \A i \in Index :
        /\ frames'[i].op = frames[i].op /\ frames'[i].arity = frames[i].arity
        /\ frames'[i].pops = frames[i].pops /\ frames'[i].vals = frames[i].vals
        /\ frames'[i].base = frames[i].base
        /\ frames[i].nested => frames'[i].nested
  BY <1>5, <1>6
<1>9. \A i \in Index' : Len(frames'[i].vals) <= frames'[i].arity
  BY <1>1, <1>3, <1>4, <1>5, <1>6, <1>8 DEF ExprTypeOK, Index
<1>10. phase' = "visit" => Len(Top'.vals) < Top'.arity
  BY <1>3, <1>4, <1>7
<1>11. Shape'
  <2>1. ASSUME NEW i \in Index PROVE Len(frames[i].vals) < frames[i].arity
    <3>1. CASE i < n
      BY <1>1, <3>1 DEF Shape, n
    <3>2. CASE ~(i < n)
      <4>1. i = n /\ n # 0
        BY <1>2, <1>6, <3>2
      <4>2. frames # << >>
        BY <4>1, EmptySeq DEF n
      <4> QED BY <1>1, <1>2, <4>1, <4>2 DEF ExprTypeOK, Top, n
    <3> QED BY <3>1, <3>2
  <2>2. \A i \in Index' :
          /\ frames'[i].op = "operator" => frames'[i].arity = frames'[i].pops + 1
          /\ frames'[i].op = "call" => frames'[i].arity <= ARG_REGS
          /\ i < Len(frames') => Len(frames'[i].vals) < frames'[i].arity
    <3> TAKE i \in Index'
    <3>1. CASE i \in Index
      BY <1>1, <1>8, <2>1, <3>1 DEF Shape
    <3>2. CASE i = n + 1
      BY <1>2, <1>4, <1>5, <3>2
    <3> QED BY <1>6, <3>1, <3>2
  <2>3. frames' # << >>
    BY <1>2, <1>5, EmptySeq
  <2>4. phase' = "pop" => Top'.op = "call" /\ Len(Top'.vals) = Top'.arity
    BY <1>3, <1>4, <1>7
  <2> QED BY <2>2, <2>3, <2>4 DEF Shape
<1>12. Nesting'
  <2> SUFFICES ASSUME NEW i \in Index', NEW j \in Index', i < j,
                      frames'[j].op = "call" \/ frames'[j].nested
               PROVE  frames'[i].nested
    BY DEF Nesting
  <2>1. i \in Index
    BY <1>6
  <2>2. CASE op = "operator" /\ g = frames
    <3>1. frames'[i] = frames[i]
      BY <1>5, <1>6, <2>1, <2>2
    <3>2. j \in Index
      BY <1>4, <1>5, <1>6, <2>2
    <3>3. frames'[j] = frames[j]
      BY <1>5, <1>6, <2>2, <3>2
    <3> QED BY <1>1, <2>1, <3>1, <3>2, <3>3 DEF Nesting
  <2>3. CASE \A k \in Index : g[k].nested
    BY <1>5, <1>6, <2>1, <2>3
  <2> QED BY <2>2, <2>3
<1>13. \A i \in Index : Sound(i)' => Sound(i)
  BY <1>8 DEF Sound
<1>14. \A i \in Index : Height(i)' = Height(i)
  BY <1>8 DEF Height
<1>15. \A i \in Index : Sound(i) => Height(i) <= Len(stack) /\ OperandsInPlace(i)
  BY <1>1 DEF InPlace, OperandsInPlace
<1>16. Ordered'
  <2> SUFFICES ASSUME NEW i \in Index', NEW j \in Index', i < j, Sound(i)'
               PROVE  Height(i)' <= frames'[j].base
    BY DEF Ordered
  <2>1. i \in Index /\ Sound(i) /\ Height(i)' = Height(i)
    BY <1>6, <1>13, <1>14
  <2>2. CASE j \in Index
    BY <1>1, <1>8, <2>1, <2>2 DEF Ordered
  <2>3. CASE j = n + 1
    BY <1>4, <1>5, <1>15, <2>1, <2>3
  <2> QED BY <1>6, <2>2, <2>3
<1>17. InPlace'
  <2> SUFFICES ASSUME NEW i \in Index', Sound(i)' PROVE OperandsInPlace(i)'
    BY DEF InPlace
  <2>1. CASE i \in Index
    <3>1. OperandsInPlace(i) /\ Height(i)' = Height(i) /\ Height(i) <= Len(stack)
      BY <1>13, <1>14, <1>15, <2>1
    <3>2. Height(i) = frames'[i + 1].base
      <4>1. CASE i = n
        BY <1>4, <1>5, <3>1, <4>1 DEF OperandsInPlace, n
      <4>2. CASE i # n
        <5>1. i + 1 \in Index
          BY <1>2, <1>6, <2>1, <4>2
        <5> QED BY <1>8, <3>1, <4>2, <5>1 DEF OperandsInPlace, n
      <4> QED BY <4>1, <4>2
    <3>3. i # Len(frames')
      BY <1>5, <1>6, <2>1
    <3>4. \A k \in 1 .. Len(frames'[i].vals) : stack'[frames'[i].base + k] = frames'[i].vals[k]
      BY <1>8, <2>1, <3>1 DEF OperandsInPlace
    <3> QED BY <3>1, <3>2, <3>3, <3>4 DEF OperandsInPlace
  <2>2. CASE i = n + 1
    <3>1. Height(i)' = Len(stack)
      BY <1>2, <1>3, <1>4, <1>5, <2>2 DEF Height
    <3>2. frames'[i].vals = << >> /\ 1 .. Len(frames'[i].vals) = {}
      BY <1>3, <1>4, <1>5, <2>2
    <3>3. \A k \in 1 .. Len(frames'[i].vals) : stack'[frames'[i].base + k] = frames'[i].vals[k]
      BY <3>2
    <3> QED BY <1>2, <1>5, <2>2, <3>1, <3>3 DEF OperandsInPlace
  <2> QED BY <1>6, <2>1, <2>2
<1>18. Bottom'
  <2> SUFFICES ASSUME matched' PROVE /\ eaten' = 0 /\ phase' # "failed"
                                     /\ frames' # << >> /\ frames'[1].base = 0
    BY DEF Bottom
  <2>1. frames' # << >>
    BY <1>2, <1>5, EmptySeq
  <2>2. CASE n = 0
    <3>1. frames = << >>
      BY <1>1, <2>2, EmptySeq DEF n, ExprTypeOK
    <3>2. stack = << >>
      BY <1>1, <3>1 DEF Bottom
    <3> QED BY <1>1, <1>3, <1>4, <1>5, <2>1, <2>2, <3>2 DEF Bottom
  <2>3. CASE n # 0
    <3>1. 1 \in Index /\ frames # << >>
      BY <1>2, <1>6, <2>3, EmptySeq DEF n
    <3> QED BY <1>1, <1>8, <2>1, <3>1 DEF Bottom
  <2> QED BY <2>2, <2>3
<1> QED BY <1>2, <1>4, <1>5, <1>6, <1>9, <1>10, <1>11, <1>12, <1>16, <1>17, <1>18 DEF n, f

(* A handler that is no call.                                              *)
LEMMA OpenOperatorPreserves ==
  ASSUME IInv, NEW h \in Handlers, OpenOperator(h) PROVE IInv'
<1> DEFINE n == Len(frames)
           f == Frame("operator", h.operands, h.pops)
<1>1. /\ Node /\ frames' = Append(frames, f) /\ phase' = phase /\ phase = "visit"
      /\ UNCHANGED <<tmp_arg_count, rax, stack, eaten, call, result, matched>>
  BY DEF OpenOperator, Node
<1>2. ExprTypeOK /\ Counted /\ CountsAgree /\ CallRight
  BY DEF IInv
<1>3. h.operands \in Nat /\ h.pops \in Nat /\ h.operands = h.pops + 1 /\ h.operands > 0
  BY HandlersBalance
<1>4. n \in Nat /\ frames \in Seq(Frames) /\ "operator" \in Ops
  BY <1>2, LenProperties DEF ExprTypeOK, Ops
<1>5. /\ frames' \in Seq(Frames) /\ Len(frames') = n + 1 /\ nodes' \in Words
      /\ \A i \in Index : frames'[i] = frames[i]
      /\ frames'[n + 1] = f /\ f.op = "operator"
      /\ \A i \in Index' : Len(frames'[i].vals) <= frames'[i].arity
      /\ Len(Top'.vals) < Top'.arity
      /\ Shape' /\ Nesting' /\ InPlace' /\ Ordered' /\ Bottom'
  <2>1. \A i \in Index :
          /\ frames[i].op = frames[i].op /\ frames[i].arity = frames[i].arity
          /\ frames[i].pops = frames[i].pops /\ frames[i].vals = frames[i].vals
          /\ frames[i].base = frames[i].base
          /\ frames[i].nested => frames[i].nested
    OBVIOUS
  <2>2. Opens("operator", h.operands, h.pops, frames)
    BY <1>1, <1>3, <1>4, <2>1 DEF Opens
  <2>3. f.op = "operator"
    BY DEF Frame
  <2>4. phase' = "visit"
    BY <1>1
  <2> QED BY <2>2, <2>3, <2>4, OpenFrame
<1> HIDE DEF n, f
<1>6. /\ \A i \in Index' : i \in Index \/ i = n + 1
      /\ \A i \in Index : i \in Index'
  <2>1. Index = 1 .. n /\ Index' = 1 .. n + 1
    BY <1>5 DEF Index, n
  <2> QED BY <1>4, <2>1
<1>7. \A i \in Index' : IsCall(i)' => i \in Index
  BY <1>5, <1>6 DEF IsCall
<1>8. \A i \in Index : (IsCall(i)' <=> IsCall(i)) /\ (Sound(i)' <=> Sound(i))
  BY <1>1, <1>5 DEF IsCall, Sound
<1>9. ExprTypeOK'
  BY <1>1, <1>2, <1>5 DEF ExprTypeOK, Index
<1>10. Counted'
  <2> SUFFICES ASSUME NEW i \in Index', LastCall(i)', Sound(i)'
               PROVE  tmp_arg_count' = Len(frames'[i].vals)
    BY DEF Counted
  <2>1. i \in Index
    BY <1>7 DEF LastCall
  <2>2. LastCall(i) /\ Sound(i)
    BY <1>6, <1>8, <2>1 DEF LastCall
  <2> QED BY <1>1, <1>2, <1>5, <2>1, <2>2 DEF Counted
<1>11. CountsAgree'
  <2> SUFFICES ASSUME matched, NEW i \in Index', NEW j \in Index', i < j, IsCall(i)', IsCall(j)',
                      \A k \in Index' : i < k /\ k < j => ~IsCall(k)'
               PROVE  (frames[j].arity = Len(frames[i].vals))'
    BY <1>1 DEF CountsAgree
  <2>1. i \in Index /\ j \in Index
    BY <1>7
  <2>2. frames[j].arity = Len(frames[i].vals)
    BY <1>2, <1>6, <1>8, <2>1 DEF CountsAgree
  <2> QED BY <1>5, <2>1, <2>2
<1>12. RaxRight' /\ CallRight'
  BY <1>1, <1>2 DEF RaxRight, CallRight
<1> QED BY <1>5, <1>9, <1>10, <1>11, <1>12 DEF IInv

(* A call: all frames around it are marked, the count starts again at 0.   *)
LEMMA OpenCallPreserves ==
  ASSUME IInv, NEW argc \in 0 .. ARG_REGS, OpenCall(argc) PROVE IInv'
<1> DEFINE n == Len(frames)
           f == Frame("call", argc, 0)
           g == [i \in 1 .. n |-> [frames[i] EXCEPT !.nested = TRUE]]
<1>1. /\ Node /\ frames' = Append(g, f)
      /\ phase' = (IF argc = 0 THEN "pop" ELSE "visit")
      /\ tmp_arg_count' = 0 /\ matched' = (matched /\ Matched(argc))
      /\ UNCHANGED <<rax, stack, eaten, call, result>>
  BY DEF OpenCall, CountAtCall
<1>2. ExprTypeOK /\ CountsAgree /\ CallRight
  BY DEF IInv
<1>3. n \in Nat /\ "call" \in Ops /\ argc \in Nat /\ argc <= ARG_REGS /\ 0 \in Nat
  BY <1>2, LenProperties, ExprAssumption DEF ExprTypeOK, Ops
<1>4. ASSUME NEW i \in Index
      PROVE  /\ g[i] \in Frames /\ g[i].nested = TRUE
             /\ g[i].op = frames[i].op /\ g[i].arity = frames[i].arity
             /\ g[i].pops = frames[i].pops /\ g[i].vals = frames[i].vals
             /\ g[i].base = frames[i].base
  <2>1. frames[i] \in Frames /\ g[i] = [frames[i] EXCEPT !.nested = TRUE]
    BY <1>2, FrameFacts DEF Index
  <2> QED BY <2>1 DEF Frames
<1>5. g \in Seq(Frames) /\ Len(g) = n
  <2>1. g \in [1 .. n -> Frames]
    BY <1>4 DEF Index
  <2> HIDE DEF g
  <2> QED BY <1>3, <2>1, TableIsSeq
<1> HIDE DEF g
<1>6. /\ frames' \in Seq(Frames) /\ Len(frames') = n + 1 /\ nodes' \in Words
      /\ \A i \in Index : frames'[i] = g[i]
      /\ frames'[n + 1] = f /\ f.op = "call" /\ f.vals = << >> /\ f.arity = argc
      /\ \A i \in Index' : Len(frames'[i].vals) <= frames'[i].arity
      /\ phase' = "visit" => Len(Top'.vals) < Top'.arity
      /\ Shape' /\ Nesting' /\ InPlace' /\ Ordered' /\ Bottom'
  <2>1. \/ phase' = "visit" /\ argc > 0
        \/ phase' = "pop" /\ "call" = "call" /\ argc = 0
    BY <1>1, <1>3
  <2>2. \A i \in Index :
          /\ g[i].op = frames[i].op /\ g[i].arity = frames[i].arity
          /\ g[i].pops = frames[i].pops /\ g[i].vals = frames[i].vals
          /\ g[i].base = frames[i].base
          /\ frames[i].nested => g[i].nested
    BY <1>4
  <2>3. Opens("call", argc, 0, g)
    BY <1>1, <1>3, <1>4, <1>5, <2>1, <2>2 DEF Opens
  <2>4. f.op = "call" /\ f.vals = << >> /\ f.arity = argc
    BY DEF Frame
  <2> QED BY <2>3, <2>4, OpenFrame
<1> HIDE DEF n, f
<1>7. /\ Index = 1 .. n
      /\ \A i \in Index' : i \in Index \/ i = n + 1
      /\ \A i \in Index : i \in Index' /\ i < n + 1
      /\ n + 1 \in Index'
  <2>1. Index = 1 .. n /\ Index' = 1 .. n + 1
    BY <1>6 DEF Index, n
  <2> QED BY <1>3, <2>1
<1>8. \A i \in Index : IsCall(i)' <=> IsCall(i)
  BY <1>4, <1>6 DEF IsCall
<1>9. ExprTypeOK'
  <2>1. phase' \in {"visit", "pop"}
    BY <1>1
  <2>2. matched' \in BOOLEAN /\ tmp_arg_count' \in Nat
    BY <1>1
  <2> QED BY <1>1, <1>2, <1>6, <2>1, <2>2 DEF ExprTypeOK, Index
<1>10. Counted'
  <2> SUFFICES ASSUME NEW i \in Index', LastCall(i)'
               PROVE  tmp_arg_count' = Len(frames'[i].vals)
    BY DEF Counted
  <2>1. i = n + 1
    <3> SUFFICES ASSUME i \in Index PROVE FALSE
      BY <1>7
    <3>1. i < n + 1 /\ n + 1 \in Index'
      BY <1>7
    <3> QED BY <1>6, <3>1 DEF LastCall, IsCall
  <2> QED BY <1>1, <1>6, <2>1, EmptySeq
<1>11. CountsAgree'
  <2> SUFFICES ASSUME matched', NEW i \in Index', NEW j \in Index', i < j, IsCall(i)', IsCall(j)',
                      \A k \in Index' : i < k /\ k < j => ~IsCall(k)'
               PROVE  frames'[j].arity = Len(frames'[i].vals)
    BY DEF CountsAgree
  <2>1. i \in Index /\ IsCall(i) /\ frames'[i].vals = frames[i].vals
    <3>1. i \in Index
      BY <1>3, <1>7
    <3> QED BY <1>4, <1>6, <1>8, <3>1
  <2>2. matched /\ Matched(argc)
    BY <1>1
  <2>3. CASE j \in Index
    <3>1. frames[j].arity = Len(frames[i].vals)
      BY <1>2, <1>7, <1>8, <2>1, <2>2, <2>3 DEF CountsAgree
    <3> QED BY <1>4, <1>6, <2>1, <2>3, <3>1
  <2>4. CASE j = n + 1
    <3> DEFINE calls == {k \in Index : frames[k].op = "call"}
    <3>1. Enclosing = IF calls = {} THEN 0 ELSE CHOOSE k \in calls : \A m \in calls : m <= k
      BY DEF Enclosing, Index
    <3>2. i \in calls
      BY <2>1 DEF IsCall
    <3>3. ASSUME NEW m \in calls PROVE m <= i
      <4>1. m \in Index /\ m < n + 1 /\ IsCall(m)' /\ m \in Index'
        BY <1>7, <1>8 DEF IsCall
      <4>2. ~(i < m)
        BY <2>4, <4>1
      <4> QED BY <1>3, <1>7, <2>1, <4>1, <4>2
    <3>4. ASSUME NEW k \in calls, \A m \in calls : m <= k PROVE k = i
      <4>1. k <= i /\ i <= k
        BY <3>2, <3>3, <3>4
      <4> QED BY <1>3, <1>7, <2>1, <4>1
    <3> HIDE DEF calls
    <3>5. Enclosing = i
      BY <3>1, <3>2, <3>3, <3>4
    <3>6. i # 0
      BY <1>3, <1>7, <2>1
    <3>7. argc = Len(frames[i].vals)
      BY <2>2, <3>5, <3>6 DEF Matched
    <3> QED BY <1>6, <2>1, <2>4, <3>7
  <2> QED BY <1>7, <2>3, <2>4
<1>12. RaxRight' /\ CallRight'
  <2>1. phase' # "return"
    BY <1>1
  <2> QED BY <1>1, <1>2, <2>1 DEF RaxRight, CallRight
<1> QED BY <1>6, <1>9, <1>10, <1>11, <1>12 DEF IInv

-----------------------------------------------------------------------------
(* Steps that leave the frames and the stack alone.                        *)

LEMMA FramesUnchanged ==
  ASSUME IInv, UNCHANGED <<frames, tmp_arg_count, stack, eaten, matched>>
  PROVE  Nesting' /\ InPlace' /\ Ordered' /\ Counted' /\ CountsAgree'
<1>1. Nesting /\ InPlace /\ Ordered /\ Counted /\ CountsAgree
  BY DEF IInv
<1>2. Nesting' /\ CountsAgree'
  BY <1>1 DEF Nesting, CountsAgree, Index, IsCall
<1>3. InPlace' /\ Ordered'
  BY <1>1 DEF InPlace, Ordered, Index, Sound, OperandsInPlace, Height
<1>4. Counted'
  BY <1>1 DEF Counted, Index, Sound, LastCall, IsCall
<1> QED BY <1>2, <1>3, <1>4

(* A leaf of the tree leaves its value in rax.                             *)
LEMMA LeafPreserves ==
  ASSUME IInv, emit_mov_rax_imm PROVE IInv'
<1>1. /\ phase = "visit" /\ nodes' = nodes + 1 /\ rax' = nodes + 1 /\ result' = nodes + 1
      /\ phase' = "return" /\ UNCHANGED <<frames, tmp_arg_count, stack, eaten, call, matched>>
  BY DEF emit_mov_rax_imm, Node
<1>2. ExprTypeOK /\ Shape /\ Bottom /\ CallRight
  BY DEF IInv
<1>3. nodes + 1 \in Words
  BY <1>2, ExprAssumption DEF emit_mov_rax_imm, Node, ExprTypeOK, Words
<1>4. ExprTypeOK'
  BY <1>1, <1>2, <1>3 DEF ExprTypeOK, Top
<1>5. Shape' /\ Bottom' /\ CallRight' /\ RaxRight'
  BY <1>1, <1>2 DEF Shape, Bottom, CallRight, RaxRight, Index, Top
<1> QED BY <1>1, <1>4, <1>5, FramesUnchanged DEF IInv

(* The statement takes rax.                                                *)
LEMMA NextExprPreserves ==
  ASSUME IInv, NextExpr PROVE IInv'
<1>1. /\ frames = << >> /\ phase' = "visit"
      /\ UNCHANGED <<frames, nodes, tmp_arg_count, rax, stack, eaten, call, result, matched>>
  BY DEF NextExpr
<1>2. ExprTypeOK /\ Shape /\ Bottom /\ CallRight
  BY DEF IInv
<1>3. ExprTypeOK'
  BY <1>1, <1>2 DEF ExprTypeOK, Top
<1>4. Shape' /\ Bottom' /\ CallRight' /\ RaxRight'
  BY <1>1, <1>2 DEF Shape, Bottom, CallRight, RaxRight, Index, Top
<1> QED BY <1>1, <1>3, <1>4, FramesUnchanged DEF IInv

(* A step that changes nothing.                                            *)
LEMMA StutterPreserves ==
  ASSUME IInv, UNCHANGED vars PROVE IInv'
<1>1. UNCHANGED <<frames, phase, nodes, tmp_arg_count, rax, stack, eaten, call, result, matched>>
  BY DEF vars
<1>2. ExprTypeOK /\ Shape /\ Bottom /\ CallRight /\ RaxRight
  BY DEF IInv
<1>3. ExprTypeOK'
  BY <1>1, <1>2 DEF ExprTypeOK, Top
<1>4. Shape' /\ Bottom' /\ CallRight' /\ RaxRight'
  BY <1>1, <1>2 DEF Shape, Bottom, CallRight, RaxRight, Index, Top
<1> QED BY <1>1, <1>3, <1>4, FramesUnchanged DEF IInv

(* The first state: no expression begun.                                   *)
LEMMA InitInvariant ==
  ASSUME Init PROVE IInv
<1>1. /\ frames = << >> /\ phase = "visit" /\ nodes = 0 /\ tmp_arg_count = 0 /\ rax = 0
      /\ stack = << >> /\ eaten = 0 /\ call = NoCall /\ result = 0 /\ matched = TRUE
  BY DEF Init, Junk
<1>2. Index = {}
  BY <1>1, EmptySeq DEF Index
<1>3. call \in Call /\ call.passed = call.meant
  BY <1>1, EmptySeq DEF Call, NoCall
<1>4. ExprTypeOK
  BY <1>1, <1>2, <1>3, EmptySeq, ExprAssumption DEF ExprTypeOK, Words, Index
<1>5. Shape /\ Nesting /\ InPlace /\ Ordered /\ Counted /\ CountsAgree
  BY <1>1, <1>2 DEF Shape, Nesting, InPlace, Ordered, Counted, CountsAgree
<1>6. Bottom /\ RaxRight /\ CallRight
  BY <1>1, <1>3 DEF Bottom, RaxRight, CallRight
<1> QED BY <1>4, <1>5, <1>6 DEF IInv

-----------------------------------------------------------------------------
(* The invariant holds of every state, for expressions of any size and any *)
(* number of argument registers.                                           *)
THEOREM ExprInvariance == Spec => []IInv
<1>1. Init => IInv
  BY InitInvariant
<1>2. IInv /\ [Next]_vars => IInv'
  <2> SUFFICES ASSUME IInv, [Next]_vars PROVE IInv'
    OBVIOUS
  <2>1. CASE emit_mov_rax_imm
    BY <2>1, LeafPreserves
  <2>2. CASE \E h \in Handlers : OpenOperator(h)
    BY <2>2, OpenOperatorPreserves
  <2>3. CASE \E argc \in 0 .. ARG_REGS : OpenCall(argc)
    BY <2>3, OpenCallPreserves
  <2>4. CASE Operand
    BY <2>4, OperandPreserves
  <2>5. CASE OperatorResult
    BY <2>5, OperatorResultPreserves
  <2>6. CASE Argument
    BY <2>6, ArgumentPreserves
  <2>7. CASE emit_fn_call_expr
    BY <2>7, CallPreserves
  <2>8. CASE NextExpr
    BY <2>8, NextExprPreserves
  <2>9. CASE UNCHANGED vars
    BY <2>9, StutterPreserves
  <2> QED BY <2>1, <2>2, <2>3, <2>4, <2>5, <2>6, <2>7, <2>8, <2>9 DEF Next
<1> QED BY <1>1, <1>2, PTL DEF Spec

(* Every state has its types, and no handler receives an operand its node  *)
(* does not have.                                                          *)
THEOREM ExprTypes == Spec => []ExprTypeOK
<1>1. IInv => ExprTypeOK
  BY DEF IInv
<1> QED BY <1>1, ExprInvariance, PTL

(* The generated code computes the expression, whatever handlers it goes   *)
(* through and however deep, as long as the counts agree.                  *)
THEOREM GeneratedCodeIsRight == Spec => []CodeComputesValue
<1>1. IInv => CodeComputesValue
  <2> SUFFICES ASSUME IInv, matched
               PROVE  /\ frames = << >> => stack = << >>
                      /\ frames # << >> => frames[1].base = 0
                      /\ \A i \in 1 .. Len(frames) : OperandsInPlace(i)
                      /\ eaten = 0
                      /\ call.passed = call.meant
                      /\ phase = "return" => rax = result
                      /\ phase # "failed"
    BY DEF CodeComputesValue
  <2>1. Bottom /\ InPlace /\ CallRight /\ RaxRight
    BY DEF IInv
  <2>2. \A i \in 1 .. Len(frames) : OperandsInPlace(i)
    BY <2>1 DEF InPlace, Sound, Index
  <2> QED BY <2>1, <2>2 DEF Bottom, CallRight, RaxRight
<1> QED BY <1>1, ExprInvariance, PTL

(* A call without calls among its arguments passes its arguments, whatever *)
(* went wrong around it.                                                   *)
THEOREM InnermostCalls == Spec => []InnermostCallsRight
<1>1. IInv => InnermostCallsRight
  BY DEF IInv, CallRight, InnermostCallsRight
<1> QED BY <1>1, ExprInvariance, PTL
=============================================================================
