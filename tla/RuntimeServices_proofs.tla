------------------------ MODULE RuntimeServices_proofs ------------------------
(*****************************************************************************)
(* Proofs about the two services of the runtime that keep a table: the       *)
(* conventional memory behind INT 21h/48h and 49h and the files behind INT   *)
(* 21h/3Ch to 42h. For every size of the pool and every sequence of          *)
(* requests and releases, the block list tiles the pool, is coalesced        *)
(* between calls and implements the pool of extents. For every set of        *)
(* files and of handles and every sequence of calls, the buffers of the      *)
(* open streams agree with the files, and the table implements the           *)
(* abstract DOS file system.                                                 *)
(*****************************************************************************)
EXTENDS ConventionalMemory, VirtualFileSystem, SequenceTheorems, NaturalsInduction, WellFoundedInduction,
        TLAPS

--------------------------------------------------------------------------------
(* Conventional memory.                                                      *)

Size == Words \ {0}
Blocks == [start : Words, size : Size, free : BOOLEAN]

(* A 16-bit number, told without the interval.                             *)
LEMMA WordRange == \A x : x \in Words <=> x \in Int /\ 0 <= x /\ x <= 65535
<1>1. MaxWord \in Nat
  BY DEF MaxWord
<1>2. \A x : x \in Words <=> x \in Int /\ 0 <= x /\ x <= MaxWord
  BY <1>1 DEF Words
<1> QED
  BY <1>2 DEF MaxWord

(* The size of a block: a 16-bit number that is not 0.                     *)
LEMMA SizeRange == \A x : x \in Size <=> x \in Int /\ 1 <= x /\ x <= 65535
  BY WordRange DEF Size

(* The blocks of a list, whichever it is, tile the pool.                   *)
Tiles(list) ==
  /\ list \subseteq Blocks
  /\ \A b \in list : b.start + b.size <= Paragraphs
  /\ \A b, c \in list : b # c => b.start + b.size <= c.start \/ c.start + c.size <= b.start
  /\ \A x \in 0 .. Paragraphs - 1 : \E b \in list : b.start <= x /\ x < b.start + b.size

(* The fields of a block.                                                  *)
LEMMA BlockFields ==
  ASSUME NEW s, NEW n, NEW f
  PROVE  Block(s, n, f).start = s /\ Block(s, n, f).size = n /\ Block(s, n, f).free = f
  BY DEF Block

(* A block of fields that have their types.                                *)
LEMMA BlockType ==
  ASSUME NEW s \in Words, NEW n \in Size, NEW f \in BOOLEAN
  PROVE  Block(s, n, f) \in Blocks
  BY DEF Block, Blocks

(* A block is its fields.                                                  *)
LEMMA BlockOfFields ==
  ASSUME NEW b \in Blocks
  PROVE  /\ b.start \in Words /\ b.size \in Size /\ b.free \in BOOLEAN
         /\ b = Block(b.start, b.size, b.free)
<1>1. b.start \in Words /\ b.size \in Size /\ b.free \in BOOLEAN
  BY DEF Blocks
<1>2. b = [start |-> b.start, size |-> b.size, free |-> b.free]
  BY DEF Blocks
<1> QED
  BY <1>1, <1>2 DEF Block

(* What tiling says of one block.                                          *)
LEMMA BlockRange ==
  ASSUME NEW list, Tiles(list), NEW b \in list
  PROVE  /\ b \in Blocks /\ b.free \in BOOLEAN
         /\ b.start \in Int /\ 0 <= b.start /\ b.start <= 65535
         /\ b.size \in Int /\ 1 <= b.size /\ b.size <= 65535
         /\ b.start + b.size <= Paragraphs
<1>1. b \in Blocks /\ b.start + b.size <= Paragraphs
  BY DEF Tiles
<1>2. b.start \in Words /\ b.size \in Size /\ b.free \in BOOLEAN
  BY <1>1, BlockOfFields
<1> QED
  BY <1>1, <1>2, WordRange, SizeRange

(* The pool has a 16-bit size.                                             *)
LEMMA ParagraphsRange == Paragraphs \in Int /\ 0 <= Paragraphs /\ Paragraphs <= 65535
  BY MemoryAssumption, WordRange

----------------------------------------------------------------------------
(* Freeing or taking a whole block changes no extent.                      *)
LEMMA ReplaceTiles ==
  ASSUME NEW list, Tiles(list), NEW b \in list, NEW f \in BOOLEAN
  PROVE  Tiles((list \ {b}) \cup {Block(b.start, b.size, f)})
<1> DEFINE d == Block(b.start, b.size, f)
           new == (list \ {b}) \cup {d}
<1>1. b \in Blocks
  BY DEF Tiles
<1>2. d \in Blocks /\ d.start = b.start /\ d.size = b.size
  <2>1. b.start \in Words /\ b.size \in Size
    BY <1>1, BlockOfFields
  <2> QED
    BY <2>1, BlockType, BlockFields
<1> HIDE DEF d
<1>3. Tiles(new)
  BY <1>1, <1>2 DEF Tiles
<1> QED
  BY <1>3 DEF d

(* A block cut in two covers what it covered.                              *)
LEMMA CutTiles ==
  ASSUME NEW list, Tiles(list), NEW b \in list, NEW n \in Nat, 0 < n, n < b.size, NEW f \in BOOLEAN,
         NEW g \in BOOLEAN
  PROVE  Tiles((list \ {b}) \cup {Block(b.start, n, f), Block(b.start + n, b.size - n, g)})
<1> DEFINE d == Block(b.start, n, f)
           e == Block(b.start + n, b.size - n, g)
           new == (list \ {b}) \cup {d, e}
<1>1. b.start \in Nat /\ b.size \in Nat \ {0} /\ b.start + b.size <= Paragraphs
  BY BlockRange
<1>2. Paragraphs \in Nat /\ Paragraphs <= 65535
  BY ParagraphsRange
<1>3. /\ d \in Blocks /\ d.start = b.start /\ d.size = n
      /\ e \in Blocks /\ e.start = b.start + n /\ e.size = b.size - n
  <2>1. b.start + n \in Words /\ b.size - n \in Size /\ n \in Size
    BY <1>1, <1>2, WordRange, SizeRange
  <2>2. b.start \in Words
    BY <1>1, <1>2, WordRange
  <2>3. d \in Blocks /\ d.start = b.start /\ d.size = n
    BY <2>1, <2>2, BlockType, BlockFields
  <2>4. e \in Blocks /\ e.start = b.start + n /\ e.size = b.size - n
    <3>1. e \in Blocks
      BY <2>1, BlockType
    <3> QED
      BY <3>1, BlockFields
  <2> QED
    BY <2>3, <2>4
<1> HIDE DEF d, e
<1>4. new \subseteq Blocks
  BY <1>3 DEF Tiles
<1>5. \A x \in new : x.start + x.size <= Paragraphs
  <2>1. \A x \in list : x.start + x.size <= Paragraphs
    BY DEF Tiles
  <2>2. d.start + d.size <= Paragraphs /\ e.start + e.size <= Paragraphs
    BY <1>1, <1>2, <1>3
  <2> QED
    BY <2>1, <2>2
<1>6. \A x \in list \ {b} : /\ x.start \in Int /\ x.size \in Int
                            /\ b.start + b.size <= x.start \/ x.start + x.size <= b.start
  BY BlockRange DEF Tiles
<1>7. \A x, y \in new : x # y => x.start + x.size <= y.start \/ y.start + y.size <= x.start
  <2>1. \A x, y \in list \ {b} : x # y => x.start + x.size <= y.start \/ y.start + y.size <= x.start
    BY DEF Tiles
  <2> QED
    BY <1>1, <1>3, <1>6, <2>1
<1>8. \A x \in 0 .. Paragraphs - 1 : \E c \in new : c.start <= x /\ x < c.start + c.size
  <2> TAKE x \in 0 .. Paragraphs - 1
  <2>1. PICK c \in list : c.start <= x /\ x < c.start + c.size
    BY DEF Tiles
  <2> QED
    BY <1>1, <1>2, <1>3, <2>1
<1>9. Tiles(new)
  BY <1>4, <1>5, <1>7, <1>8 DEF Tiles
<1> QED
  BY <1>9 DEF d, e

(* So do two neighbours made one.                                          *)
LEMMA MergeTiles ==
  ASSUME NEW list, Tiles(list), NEW b \in list, NEW c \in list, b.start + b.size = c.start,
         NEW f \in BOOLEAN
  PROVE  /\ b.size + c.size \in Size
         /\ Tiles((list \ {b, c}) \cup {Block(b.start, b.size + c.size, f)})
<1> DEFINE d == Block(b.start, b.size + c.size, f)
           new == (list \ {b, c}) \cup {d}
<1>1. /\ b.start \in Nat /\ b.size \in Nat \ {0}
      /\ c.start \in Nat /\ c.size \in Nat \ {0} /\ c.start + c.size <= Paragraphs
  BY BlockRange
<1>2. Paragraphs \in Nat /\ Paragraphs <= 65535
  BY ParagraphsRange
<1>3. b.size + c.size \in Size /\ b # c /\ b.start \in Words
  BY <1>1, <1>2, WordRange, SizeRange
<1>4. d \in Blocks /\ d.start = b.start /\ d.size = b.size + c.size
  BY <1>1, <1>3, BlockType, BlockFields
<1> HIDE DEF d
<1>5. new \subseteq Blocks /\ \A x \in new : x.start + x.size <= Paragraphs
  BY <1>1, <1>4 DEF Tiles
<1>6. \A x \in list \ {b, c} : /\ x.start \in Int /\ x.size \in Int /\ x.size > 0
                               /\ b.start + b.size <= x.start \/ x.start + x.size <= b.start
                               /\ c.start + c.size <= x.start \/ x.start + x.size <= c.start
  <2>1. \A x \in list : x.start \in Int /\ x.size \in Int /\ x.size > 0
    BY BlockRange
  <2> QED
    BY <2>1 DEF Tiles
<1>7. \A x, y \in new : x # y => x.start + x.size <= y.start \/ y.start + y.size <= x.start
  <2>1. \A x, y \in list \ {b, c} :
          x # y => x.start + x.size <= y.start \/ y.start + y.size <= x.start
    BY DEF Tiles
  <2> QED
    BY <1>1, <1>4, <1>6, <2>1
<1>8. \A x \in 0 .. Paragraphs - 1 : \E y \in new : y.start <= x /\ x < y.start + y.size
  <2> TAKE x \in 0 .. Paragraphs - 1
  <2>1. PICK y \in list : y.start <= x /\ x < y.start + y.size
    BY DEF Tiles
  <2> QED
    BY <1>1, <1>2, <1>4, <2>1
<1>9. Tiles(new)
  BY <1>5, <1>7, <1>8 DEF Tiles
<1> QED
  BY <1>3, <1>9 DEF d

(* The next block of the vector begins where a block ends.                 *)
LEMMA NextToTouches ==
  ASSUME Tiles(blocks), NEW b \in blocks, NEW c \in blocks
  PROVE  NextTo(b, c) <=> b.start + b.size = c.start
<1>1. \A x \in blocks : x.start \in Nat /\ x.size \in Nat \ {0}
  BY BlockRange
<1>2. Paragraphs \in Nat /\ Paragraphs <= 65535
  BY ParagraphsRange
<1>3. ASSUME NextTo(b, c) PROVE b.start + b.size = c.start
  <2>1. b # c /\ b.start < c.start
    BY <1>1, <1>3 DEF NextTo
  <2>2. b.start + b.size <= c.start
    BY <1>1, <2>1 DEF Tiles
  <2>3. c.start + c.size <= Paragraphs
    BY DEF Tiles
  <2>4. b.start + b.size \in 0 .. Paragraphs - 1
    BY <1>1, <1>2, <2>2, <2>3
  <2>5. PICK d \in blocks : d.start <= b.start + b.size /\ b.start + b.size < d.start + d.size
    BY <2>4 DEF Tiles
  <2>6. b.start + b.size <= d.start
    <3>1. d # b
      BY <1>1, <2>5
    <3> QED
      BY <1>1, <2>5, <3>1 DEF Tiles
  <2>7. d.start <= b.start \/ c.start <= d.start
    BY <1>3 DEF NextTo
  <2> QED
    BY <1>1, <2>2, <2>5, <2>6, <2>7
<1>4. ASSUME b.start + b.size = c.start PROVE NextTo(b, c)
  <2>1. ASSUME NEW d \in blocks PROVE d.start <= b.start \/ c.start <= d.start
    <3>1. CASE d = b
      BY <1>1, <3>1
    <3>2. CASE d # b
      BY <1>1, <1>4, <3>2 DEF Tiles
    <3> QED
      BY <3>1, <3>2
  <2> QED
    BY <1>1, <1>4, <2>1 DEF NextTo
<1> QED
  BY <1>3, <1>4

(* No two blocks begin at the same paragraph.                              *)
LEMMA SameStart ==
  ASSUME Tiles(blocks), NEW b \in blocks, NEW c \in blocks, b.start = c.start
  PROVE  b = c
<1>1. b.start \in Nat /\ b.size \in Nat \ {0} /\ c.start \in Nat /\ c.size \in Nat \ {0}
  BY BlockRange
<1> QED
  BY <1>1 DEF Tiles

(* The block an allocation takes, cut in two when it is larger.            *)
LEMMA CutBlockTiles ==
  ASSUME Tiles(blocks), NEW b \in blocks, NEW n \in Nat \ {0}, n <= b.size
  PROVE  /\ CutBlock(b, n) = IF b.size = n THEN {Block(b.start, b.size, FALSE)}
                             ELSE {Block(b.start, n, FALSE), Block(b.start + n, b.size - n, TRUE)}
         /\ Tiles((blocks \ {b}) \cup CutBlock(b, n))
<1>1. b.start \in Nat /\ b.size \in Nat \ {0} /\ b.start + b.size <= Paragraphs
  BY BlockRange
<1>2. Paragraphs \in Nat /\ Paragraphs <= 65535
  BY ParagraphsRange
<1>3. CASE b.size = n
  <2>1. CutBlock(b, n) = {Block(b.start, b.size, FALSE)}
    BY <1>3 DEF CutBlock
  <2> QED
    BY <1>3, <2>1, ReplaceTiles
<1>4. CASE b.size # n
  <2>1. uint16(b.start + n) = b.start + n /\ uint16(b.size - n) = b.size - n
    <3>1. b.start + n \in Nat /\ b.start + n < 65536 /\ b.size - n \in Nat /\ b.size - n < 65536
      BY <1>1, <1>2, <1>4
    <3> QED
      BY <3>1 DEF uint16
  <2>2. CutBlock(b, n) = {Block(b.start, n, FALSE), Block(b.start + n, b.size - n, TRUE)}
    BY <1>4, <2>1 DEF CutBlock
  <2>3. 0 < n /\ n < b.size
    BY <1>1, <1>4
  <2> QED
    BY <1>4, <2>2, <2>3, CutTiles
<1> QED
  BY <1>3, <1>4

----------------------------------------------------------------------------
(* The inductive invariant: between calls no two free blocks touch; in the *)
(* loop of release those that touch are not yet passed.                    *)
Touching(b, c) == b.free /\ c.free /\ b.start + b.size = c.start

MemInv ==
  /\ Tiles(blocks)
  /\ result \in [call : {"allocate", "release", "none"}, argument : Words,
                 ok : BOOLEAN, segment : Words]
  /\ cursor \in {Idle} \cup { b.start : b \in blocks }
  /\ \A b, c \in blocks : Touching(b, c) => cursor # Idle /\ cursor <= b.start

(* An answer is one.                                                       *)
LEMMA AnswerType ==
  ASSUME NEW call \in {"allocate", "release", "none"}, NEW argument \in Words,
         NEW ok \in BOOLEAN, NEW segment \in Words
  PROVE  Answer(call, argument, ok, segment) \in
           [call : {"allocate", "release", "none"}, argument : Words, ok : BOOLEAN, segment : Words]
  BY DEF Answer

(* 0 is a 16-bit number.                                                   *)
LEMMA ZeroWord == 0 \in Words
  BY WordRange

(* The invariant holds at the start.                                       *)
LEMMA MemInit == Init => MemInv
<1> SUFFICES ASSUME Init PROVE MemInv
  OBVIOUS
<1>1. result \in [call : {"allocate", "release", "none"}, argument : Words,
                 ok : BOOLEAN, segment : Words]
  BY AnswerType, ZeroWord DEF Init
<1>2. CASE Paragraphs = 0
  <2>1. blocks = {} /\ cursor = Idle
    BY <1>2 DEF Init
  <2>2. Tiles({})
    BY <1>2 DEF Tiles
  <2> QED
    BY <1>1, <2>1, <2>2 DEF MemInv
<1>3. CASE Paragraphs # 0
  <2> DEFINE d == Block(0, Paragraphs, TRUE)
  <2>1. Paragraphs \in Nat \ {0} /\ Paragraphs \in Size
    BY <1>3, ParagraphsRange, SizeRange
  <2>2. d \in Blocks /\ d.start = 0 /\ d.size = Paragraphs
    <3>1. d \in Blocks
      BY <2>1, ZeroWord, BlockType
    <3> QED
      BY <3>1 DEF Block
  <2>3. blocks = {d} /\ cursor = Idle
    BY <1>3 DEF Init
  <2> HIDE DEF d
  <2>4. Tiles(blocks)
    BY <2>1, <2>2, <2>3 DEF Tiles
  <2> QED
    BY <1>1, <2>1, <2>2, <2>3, <2>4 DEF MemInv, Touching
<1> QED
  BY <1>2, <1>3

(* What an allocation leaves: a taken block touches no free one, and the   *)
(* remainder touches only what the block it was cut from touched.          *)
LEMMA AllocateKeepsMemInv ==
  ASSUME MemInv, NEW n \in Requests, Allocate(n)
  PROVE  MemInv'
<1>1. n \in Words /\ n \in Nat /\ cursor = Idle /\ cursor' = Idle
  BY MemoryAssumption, WordRange DEF Allocate
<1>2. CASE n = 0 \/ Fitting(n) = {}
  <2>1. CASE result' = Answer("allocate", n, FALSE, 0) /\ UNCHANGED blocks
    BY <1>1, <2>1, AnswerType, ZeroWord DEF MemInv, Tiles, Touching
  <2> QED
    BY <1>2, <2>1 DEF Allocate
<1>3. CASE n # 0 /\ Fitting(n) # {}
  <2>1. PICK b \in Fitting(n) : /\ blocks' = (blocks \ {b}) \cup CutBlock(b, n)
                                /\ result' = Answer("allocate", n, TRUE, b.start)
    BY <1>3 DEF Allocate
  <2>2. b \in blocks /\ b.free /\ n <= b.size /\ n \in Nat \ {0}
    <3>1. b \in blocks /\ b.free /\ b.size >= n
      BY DEF Fitting
    <3>2. b.size \in Int
      BY <3>1, BlockRange DEF MemInv
    <3> QED
      BY <1>1, <1>3, <3>1, <3>2
  <2>3. /\ CutBlock(b, n) = IF b.size = n THEN {Block(b.start, b.size, FALSE)}
                            ELSE {Block(b.start, n, FALSE), Block(b.start + n, b.size - n, TRUE)}
        /\ Tiles(blocks')
    BY <2>1, <2>2, CutBlockTiles DEF MemInv
  <2>4. result' \in [call : {"allocate", "release", "none"}, argument : Words,
                    ok : BOOLEAN, segment : Words]
    <3>1. b.start \in Words
      BY <2>2, BlockRange, WordRange DEF MemInv
    <3> QED
      BY <1>1, <2>1, <3>1, AnswerType
  <2>5. \A x \in blocks : /\ x.start \in Nat /\ x.size \in Nat \ {0}
    BY BlockRange DEF MemInv
  <2>6. \A x, y \in blocks : ~Touching(x, y)
    BY <1>1 DEF MemInv
  <2>7. \A x, y \in blocks' : ~Touching(x, y)
    <3> DEFINE d == Block(b.start, n, FALSE)
               e == Block(b.start + n, b.size - n, TRUE)
    <3>1. /\ d.start = b.start /\ d.size = n /\ ~d.free
          /\ e.start = b.start + n /\ e.size = b.size - n /\ e.free
      BY DEF Block
    <3>2. \A x \in blocks' : x \in blocks \ {b} \/ ~x.free \/ (x = e /\ b.size # n)
      <4> HIDE DEF d, e
      <4>1. blocks' \subseteq (blocks \ {b}) \cup {d, e}
        <5>1. CASE b.size = n
          BY <2>1, <2>3, <5>1 DEF d
        <5>2. CASE b.size # n
          BY <2>1, <2>3, <5>2 DEF d, e
        <5> QED
          BY <5>1, <5>2
      <4>2. b.size = n => blocks' \subseteq (blocks \ {b}) \cup {d}
        BY <2>1, <2>3 DEF d
      <4> TAKE x \in blocks'
      <4>3. CASE x \in blocks \ {b}
        BY <4>3
      <4>4. CASE x = d
        BY <4>4, <3>1
      <4>5. CASE x = e /\ b.size # n
        BY <4>5
      <4> QED
        BY <4>1, <4>2, <4>3, <4>4, <4>5
    <3> HIDE DEF d, e
    <3>3. \A x \in blocks \ {b} : b.start + b.size <= x.start \/ x.start + x.size <= b.start
      BY <2>2 DEF MemInv, Tiles
    <3>0. b.start \in Nat /\ b.size \in Nat \ {0}
      BY <2>2, <2>5
    <3> SUFFICES ASSUME NEW x \in blocks', NEW y \in blocks', Touching(x, y) PROVE FALSE
      OBVIOUS
    <3>4. CASE x \in blocks \ {b} /\ y \in blocks \ {b}
      BY <2>6, <3>4
    <3>5. CASE x = e /\ y \in blocks \ {b}
      <4>1. Touching(b, y)
        BY <2>2, <2>5, <3>1, <3>5 DEF Touching
      <4> QED
        BY <2>2, <2>6, <3>5, <4>1
    <3>6. CASE x \in blocks \ {b} /\ y = e /\ b.size # n
      <4>1. x.start \in Nat /\ x.size \in Nat \ {0} /\ x.start + x.size = b.start + n
        BY <2>5, <3>1, <3>6 DEF Touching
      <4> QED
        BY <2>2, <3>0, <3>3, <3>6, <4>1
    <3>7. CASE x = e /\ y = e /\ b.size # n
      <4>1. b.start + n + (b.size - n) = b.start + n
        BY <3>1, <3>7 DEF Touching
      <4> QED
        BY <2>2, <3>0, <3>7, <4>1
    <3> QED
      BY <3>2, <3>4, <3>5, <3>6, <3>7 DEF Touching
  <2> QED
    BY <1>1, <2>3, <2>4, <2>7 DEF MemInv, Tiles
<1> QED
  BY <1>2, <1>3

(* Freeing a block makes no pair that the loop, begun at the first block,  *)
(* has passed.                                                             *)
LEMMA ReleaseKeepsMemInv ==
  ASSUME MemInv, NEW s \in Segments, Release(s)
  PROVE  MemInv'
<1>1. PICK b \in blocks : /\ b.start = s /\ ~b.free
                          /\ blocks' = (blocks \ {b}) \cup {Block(b.start, b.size, TRUE)}
                          /\ \E first \in blocks : LoopStart(b, first) /\ cursor' = first.start
  BY DEF Release
<1>2. PICK first \in blocks : (\A c \in blocks : first.start <= c.start) /\ cursor' = first.start
  BY <1>1 DEF LoopStart
<1>3. Tiles(blocks')
  BY <1>1, ReplaceTiles DEF MemInv
<1>4. result' \in [call : {"allocate", "release", "none"}, argument : Words,
                  ok : BOOLEAN, segment : Words]
  BY AnswerType, ZeroWord, MemoryAssumption DEF Release
<1>5. /\ \A x \in blocks' : \E c \in blocks : x.start = c.start
      /\ \A c \in blocks : \E x \in blocks' : x.start = c.start
  <2>1. Block(b.start, b.size, TRUE).start = b.start
    BY DEF Block
  <2> QED
    BY <1>1, <2>1
<1>6. cursor' \in { x.start : x \in blocks' } /\ cursor' # Idle
  <2>1. first.start \in Nat
    BY BlockRange DEF MemInv
  <2> QED
    BY <1>2, <1>5, <2>1 DEF Idle
<1>7. \A x \in blocks' : cursor' <= x.start
  BY <1>2, <1>5
<1> QED
  BY <1>3, <1>4, <1>6, <1>7 DEF MemInv, Tiles, Touching

(* The merged block is compared again: what touches it is not passed yet.  *)
LEMMA MergeKeepsMemInv ==
  ASSUME MemInv, Merge
  PROVE  MemInv' /\ result' = result
<1>1. PICK b \in blocks, c \in blocks :
        /\ b.start = cursor /\ NextTo(b, c) /\ b.free /\ c.free
        /\ blocks' = (blocks \ {b, c}) \cup {Block(b.start, MergedSize(b, c), TRUE)}
        /\ UNCHANGED <<cursor, result>>
  BY DEF Merge
<1> DEFINE d == Block(b.start, b.size + c.size, TRUE)
<1>2. b.start + b.size = c.start
  BY <1>1, NextToTouches DEF MemInv
<1>3. b.size + c.size \in Size /\ Tiles((blocks \ {b, c}) \cup {d})
  BY <1>2, MergeTiles DEF MemInv
<1>4. MergedSize(b, c) = b.size + c.size
  <2>1. b.size + c.size \in Nat /\ b.size + c.size < 65536
    BY <1>3, SizeRange
  <2> QED
    BY <2>1 DEF MergedSize, uint16
<1>5. blocks' = (blocks \ {b, c}) \cup {d}
  BY <1>1, <1>4
<1>6. d.start = b.start
  BY DEF Block
<1> HIDE DEF d
<1>7. cursor \in Nat /\ \A x \in blocks : x.start \in Nat /\ x.size \in Nat \ {0}
  BY <1>1, BlockRange DEF MemInv
<1>8. ASSUME NEW x \in blocks', NEW y \in blocks', Touching(x, y)
      PROVE  cursor' # Idle /\ cursor' <= x.start
  <2>1. CASE x = d
    BY <1>1, <1>6, <1>7, <2>1 DEF Idle
  <2>2. CASE x \in blocks /\ y \in blocks
    BY <1>1, <1>8, <2>2 DEF MemInv
  <2>3. CASE x \in blocks /\ y = d
    <3>1. Touching(x, b)
      BY <1>1, <1>6, <1>8, <2>3 DEF Touching
    <3> QED
      BY <1>1, <2>3, <3>1 DEF MemInv
  <2> QED
    BY <1>5, <2>1, <2>2, <2>3
<1>9. cursor' \in { x.start : x \in blocks' }
  BY <1>1, <1>5, <1>6
<1> QED
  BY <1>1, <1>3, <1>5, <1>8, <1>9 DEF MemInv, Tiles

(* The loop passes a block only when it does not touch a free one.         *)
LEMMA StepKeepsMemInv ==
  ASSUME MemInv, Step
  PROVE  MemInv' /\ result' = result /\ blocks' = blocks
<1>1. PICK b \in blocks, c \in blocks :
        /\ b.start = cursor /\ NextTo(b, c) /\ ~(b.free /\ c.free)
        /\ cursor' = c.start /\ UNCHANGED <<blocks, result>>
  BY DEF Step, NextIndex
<1>2. \A x \in blocks : x.start \in Nat /\ x.size \in Nat \ {0}
  BY BlockRange DEF MemInv
<1>3. ASSUME NEW x \in blocks, NEW y \in blocks, Touching(x, y)
      PROVE  cursor' # Idle /\ cursor' <= x.start
  <2>1. cursor <= x.start
    BY <1>3 DEF MemInv
  <2>2. x # b
    <3> SUFFICES ASSUME x = b PROVE FALSE
      OBVIOUS
    <3>1. y.start = c.start
      BY <1>1, <1>3, NextToTouches DEF MemInv, Touching
    <3>2. y = c
      BY <3>1, SameStart DEF MemInv
    <3> QED
      BY <1>1, <1>3, <3>2 DEF Touching
  <2>3. x.start # b.start
    BY <2>2, SameStart DEF MemInv
  <2>4. c.start <= x.start
    BY <1>1, <1>2, <2>1, <2>3 DEF NextTo
  <2> QED
    BY <1>1, <1>2, <2>4 DEF Idle
<1> QED
  BY <1>1, <1>3 DEF MemInv, Tiles, Touching

(* The loop ends behind the last block.                                    *)
LEMMA LoopEndKeepsMemInv ==
  ASSUME MemInv, LoopEnd
  PROVE  MemInv' /\ result' = result /\ blocks' = blocks
<1>1. PICK b \in blocks : b.start = cursor /\ \A c \in blocks : c.start <= b.start
  BY DEF LoopEnd
<1>2. \A x \in blocks : x.start \in Nat /\ x.size \in Nat \ {0}
  BY BlockRange DEF MemInv
<1>3. \A x, y \in blocks : ~Touching(x, y)
  <2> SUFFICES ASSUME NEW x \in blocks, NEW y \in blocks, Touching(x, y) PROVE FALSE
    OBVIOUS
  <2>1. cursor <= x.start /\ y.start <= cursor /\ x.start + x.size = y.start
    BY <1>1 DEF MemInv, Touching
  <2> QED
    BY <1>1, <1>2, <2>1
<1> QED
  BY <1>3 DEF MemInv, Tiles, Touching, LoopEnd

(* Every step keeps the invariant.                                         *)
LEMMA MemStep == MemInv /\ [Next]_vars => MemInv'
<1> SUFFICES ASSUME MemInv, [Next]_vars PROVE MemInv'
  OBVIOUS
<1>1. CASE UNCHANGED vars
  BY <1>1 DEF vars, MemInv, Tiles, Touching
<1>2. ASSUME NEW n \in Requests, Allocate(n) PROVE MemInv'
  BY <1>2, AllocateKeepsMemInv
<1>3. ASSUME NEW s \in Segments, Release(s) PROVE MemInv'
  BY <1>3, ReleaseKeepsMemInv
<1>4. ASSUME NEW s \in Segments, ReleaseError(s) PROVE MemInv'
  BY <1>4, AnswerType, ZeroWord, MemoryAssumption DEF ReleaseError, MemInv, Tiles, Touching
<1>5. CASE Unsupported
  BY <1>5, AnswerType, ZeroWord DEF Unsupported, MemInv, Tiles, Touching
<1> QED
  BY <1>1, <1>2, <1>3, <1>4, <1>5, MergeKeepsMemInv, StepKeepsMemInv, LoopEndKeepsMemInv DEF Next

(* The inductive invariant is one.                                         *)
LEMMA MemInvCorrect == Spec => []MemInv
  BY MemInit, MemStep, PTL DEF Spec

(* Whatever is asked of the pool in whatever order, its blocks tile it and *)
(* no 16-bit sum wraps.                                                    *)
THEOREM TilingCorrect == Spec => []Tiling
<1>1. MemInv => Tiling
  BY DEF MemInv, Tiling, TypeOK, Tiles, Blocks, Size
<1> QED
  BY <1>1, MemInvCorrect, PTL

(* Between calls no two neighbours are free, however the pool got there.   *)
THEOREM CoalescedCorrect == Spec => []Coalesced
<1>1. MemInv => Coalesced
  BY DEF MemInv, Touching, Coalesced
<1> QED
  BY <1>1, MemInvCorrect, PTL

----------------------------------------------------------------------------
(* The refinement.  Between calls an extent is nobody's exactly when it    *)
(* lies inside one free block: were it to reach over the end of one, a     *)
(* free neighbour would be touching.                                       *)
Extent(b) == [start |-> b.start, size |-> b.size]

(* The extents that are owned.                                             *)
LEMMA OwnedExtents == Owned = { Extent(b) : b \in { c \in blocks : ~c.free } }
  BY DEF Owned, Extent

(* An extent is nobody's between calls exactly when it lies in one free    *)
(* block.                                                                  *)
LEMMA FitsInsideFree ==
  ASSUME MemInv, cursor = Idle, NEW s \in Nat, NEW n \in Nat \ {0}
  PROVE  Pool!Fits(s, n) <=> \E d \in blocks : d.free /\ d.start <= s /\ s + n <= d.start + d.size
<1>1. /\ \A x \in blocks : /\ x.start \in Nat /\ x.size \in Nat \ {0}
                            /\ x.start + x.size <= Paragraphs
      /\ Paragraphs \in Nat
  BY BlockRange, ParagraphsRange DEF MemInv
<1>2. \A e \in Owned : \E x \in blocks : ~x.free /\ e.start = x.start /\ e.size = x.size
  BY DEF Owned
<1>3. \A x \in blocks : ~x.free => \E e \in Owned : e.start = x.start /\ e.size = x.size
  <2> TAKE x \in blocks
  <2>1. ~x.free => Extent(x) \in Owned
    BY OwnedExtents
  <2>2. Extent(x).start = x.start /\ Extent(x).size = x.size
    BY DEF Extent
  <2> QED
    BY <2>1, <2>2
<1>4. ASSUME NEW d \in blocks, d.free, d.start <= s, s + n <= d.start + d.size
      PROVE  Pool!Fits(s, n)
  <2>1. s + n <= Paragraphs
    BY <1>1, <1>4
  <2>2. ASSUME NEW e \in Owned PROVE s + n <= e.start \/ e.start + e.size <= s
    <3>1. PICK x \in blocks : ~x.free /\ e.start = x.start /\ e.size = x.size
      BY <1>2
    <3>2. d.start + d.size <= x.start \/ x.start + x.size <= d.start
      BY <1>4, <3>1 DEF MemInv, Tiles
    <3> QED
      BY <1>1, <1>4, <3>1, <3>2
  <2> QED
    BY <2>1, <2>2 DEF Pool!Fits
<1>5. ASSUME Pool!Fits(s, n)
      PROVE  \E d \in blocks : d.free /\ d.start <= s /\ s + n <= d.start + d.size
  <2>1. s + n <= Paragraphs /\ \A x \in blocks : ~x.free => s + n <= x.start \/ x.start + x.size <= s
    BY <1>3, <1>5 DEF Pool!Fits
  <2>2. PICK d \in blocks : d.start <= s /\ s < d.start + d.size
    <3>1. s \in 0 .. Paragraphs - 1
      BY <1>1, <2>1
    <3> QED
      BY <3>1 DEF MemInv, Tiles
  <2>3. d.free
    BY <1>1, <2>1, <2>2
  <2>4. ASSUME d.start + d.size < s + n PROVE FALSE
    <3>1. d.start + d.size \in 0 .. Paragraphs - 1
      BY <1>1, <2>1, <2>4
    <3>2. PICK f \in blocks : f.start <= d.start + d.size /\ d.start + d.size < f.start + f.size
      BY <3>1 DEF MemInv, Tiles
    <3>3. f # d
      BY <1>1, <3>2
    <3>4. d.start + d.size = f.start
      BY <1>1, <3>2, <3>3 DEF MemInv, Tiles
    <3>5. f.free
      BY <1>1, <2>1, <2>2, <2>4, <3>2, <3>4
    <3> QED
      BY <2>3, <3>4, <3>5 DEF MemInv, Touching
  <2> QED
    BY <1>1, <2>2, <2>3, <2>4
<1> QED
  BY <1>4, <1>5

(* The start maps to the start of the pool of extents.                     *)
LEMMA InitMaps == Init => Pool!PoolInit
  BY DEF Init, Block, Owned, Answer, Pool!PoolInit, Pool!Answer

(* An allocation hands out the lowest place where the request fits, or     *)
(* fails because it fits nowhere.                                          *)
LEMMA AllocateMaps ==
  ASSUME MemInv, NEW n \in Requests, Allocate(n)
  PROVE  Pool!PoolAllocate(n)
<1>1. n \in Nat /\ cursor = Idle
  BY MemoryAssumption, WordRange DEF Allocate
<1>2. \A x \in blocks : x.start \in Nat /\ x.size \in Nat \ {0} /\ x.start + x.size <= Paragraphs
  BY BlockRange DEF MemInv
<1>3. Paragraphs \in Nat
  BY ParagraphsRange
<1>4. n # 0 => \A t \in Pool!Places(n) : \E d \in Fitting(n) : d.start <= t
  <2> SUFFICES ASSUME n # 0, NEW t \in Pool!Places(n) PROVE \E d \in Fitting(n) : d.start <= t
    OBVIOUS
  <2>1. t \in Nat /\ Pool!Fits(t, n)
    BY <1>3 DEF Pool!Places
  <2>2. PICK d \in blocks : d.free /\ d.start <= t /\ t + n <= d.start + d.size
    BY <1>1, <2>1, FitsInsideFree
  <2>3. d.size >= n
    BY <1>1, <1>2, <2>1, <2>2
  <2> QED
    BY <2>2, <2>3 DEF Fitting
<1>5. CASE n = 0 \/ Fitting(n) = {}
  <2>1. result' = Answer("allocate", n, FALSE, 0) /\ UNCHANGED blocks
    BY <1>5 DEF Allocate
  <2>2. n = 0 \/ Pool!Places(n) = {}
    BY <1>4, <1>5
  <2>3. Owned' = Owned
    BY <2>1 DEF Owned
  <2> QED
    BY <2>1, <2>2, <2>3 DEF Pool!PoolAllocate, Pool!Answer, Answer
<1>6. CASE n # 0 /\ Fitting(n) # {}
  <2>1. PICK b \in Fitting(n) : /\ \A c \in Fitting(n) : b.start <= c.start
                                /\ blocks' = (blocks \ {b}) \cup CutBlock(b, n)
                                /\ result' = Answer("allocate", n, TRUE, b.start)
    BY <1>6 DEF Allocate
  <2>2. b \in blocks /\ b.free /\ n <= b.size /\ n \in Nat \ {0}
    <3>1. b \in blocks /\ b.free /\ b.size >= n
      BY DEF Fitting
    <3> QED
      BY <1>1, <1>2, <1>6, <3>1
  <2>3. b.start \in Pool!Places(n)
    <3>1. b.start \in 0 .. Paragraphs
      BY <1>2, <1>3, <2>2
    <3>2. b.start + n <= b.start + b.size /\ b.start <= b.start
      BY <1>2, <2>2
    <3>3. Pool!Fits(b.start, n)
      BY <1>1, <1>2, <2>2, <3>2, FitsInsideFree
    <3> QED
      BY <3>1, <3>3 DEF Pool!Places
  <2>4. \A t \in Pool!Places(n) : b.start <= t
    <3> TAKE t \in Pool!Places(n)
    <3>1. PICK d \in Fitting(n) : d.start <= t
      BY <1>4, <1>6
    <3>2. d \in blocks /\ t \in Nat
      BY <1>3 DEF Fitting, Pool!Places
    <3> QED
      BY <1>2, <2>1, <2>2, <3>1, <3>2
  <2>5. Owned' = Owned \cup {[start |-> b.start, size |-> n]}
    <3> DEFINE d == Block(b.start, n, FALSE)
               e == Block(b.start + n, b.size - n, TRUE)
    <3>1. blocks' = (blocks \ {b}) \cup {d} \/ blocks' = (blocks \ {b}) \cup {d, e}
      BY <2>1, <2>2, CutBlockTiles DEF MemInv
    <3>2. Extent(d) = [start |-> b.start, size |-> n] /\ ~d.free /\ e.free
      BY DEF Block, Extent
    <3> HIDE DEF d, e
    <3>3. { c \in blocks' : ~c.free } = { c \in blocks : ~c.free } \cup {d}
      BY <2>2, <3>1, <3>2
    <3>4. Owned' = { Extent(c) : c \in { c \in blocks' : ~c.free } }
      BY DEF Owned, Extent
    <3> QED
      BY <3>2, <3>3, <3>4, OwnedExtents
  <2> QED
    BY <1>6, <2>1, <2>3, <2>4, <2>5 DEF Pool!PoolAllocate, Pool!Answer, Answer
<1> QED
  BY <1>5, <1>6

(* A release gives back the one extent that starts at the segment.         *)
LEMMA ReleaseMaps ==
  ASSUME MemInv, NEW s \in Segments, Release(s)
  PROVE  Pool!PoolRelease(s)
<1>1. PICK b \in blocks : /\ b.start = s /\ ~b.free
                          /\ blocks' = (blocks \ {b}) \cup {Block(b.start, b.size, TRUE)}
  BY DEF Release
<1> DEFINE d == Block(b.start, b.size, TRUE)
<1>2. d.free
  BY DEF Block
<1> HIDE DEF d
<1>3. blocks' = (blocks \ {b}) \cup {d}
  BY <1>1 DEF d
<1>4. { c \in blocks' : ~c.free } = { c \in blocks : ~c.free } \ {b}
  BY <1>1, <1>2, <1>3
<1>5. \A c \in { c \in blocks : ~c.free } \ {b} : Extent(c) # Extent(b)
  <2>1. \A c \in blocks : Extent(c).start = c.start
    BY DEF Extent
  <2> QED
    BY <1>1, <2>1, SameStart DEF MemInv
<1>6. Owned' = Owned \ {Extent(b)}
  <2>1. Owned' = { Extent(c) : c \in { c \in blocks' : ~c.free } }
    BY DEF Owned, Extent
  <2> QED
    BY <1>4, <1>5, <2>1, OwnedExtents
<1>7. Extent(b) \in Owned /\ Extent(b).start = s
  BY <1>1, OwnedExtents DEF Extent
<1>8. result' = Answer("release", s, TRUE, 0)
  BY DEF Release
<1> QED
  BY <1>6, <1>7, <1>8 DEF Pool!PoolRelease, Pool!Answer, Answer

(* A release of what is no block's start is refused by the pool of         *)
(* extents.                                                                *)
LEMMA ReleaseErrorMaps ==
  ASSUME NEW s \in Segments, ReleaseError(s)
  PROVE  Pool!PoolRelease(s)
<1>1. ~\E e \in Owned : e.start = s
  BY DEF ReleaseError, Owned
<1>2. Owned' = Owned
  BY DEF ReleaseError, Owned
<1> QED
  BY <1>1, <1>2 DEF ReleaseError, Pool!PoolRelease, Pool!Answer, Answer

(* Merging free blocks changes no extent anybody owns.                     *)
LEMMA MergeStutters ==
  ASSUME MemInv, Merge
  PROVE  Owned' = Owned /\ result' = result
<1>1. PICK b \in blocks, c \in blocks :
        /\ b.free /\ c.free
        /\ blocks' = (blocks \ {b, c}) \cup {Block(b.start, MergedSize(b, c), TRUE)}
        /\ UNCHANGED <<cursor, result>>
  BY DEF Merge
<1> DEFINE d == Block(b.start, MergedSize(b, c), TRUE)
<1>2. d.free
  BY DEF Block
<1> HIDE DEF d
<1>3. blocks' = (blocks \ {b, c}) \cup {d}
  BY <1>1 DEF d
<1>4. { x \in blocks' : ~x.free } = { x \in blocks : ~x.free }
  BY <1>1, <1>2, <1>3
<1> QED
  BY <1>1, <1>4 DEF Owned

(* Every step maps to one of the pool of extents, or to none.              *)
LEMMA StepMaps == MemInv /\ [Next]_vars => [Pool!PoolNext]_<<Owned, result>>
<1> SUFFICES ASSUME MemInv, [Next]_vars PROVE [Pool!PoolNext]_<<Owned, result>>
  OBVIOUS
<1>1. CASE UNCHANGED vars
  BY <1>1 DEF vars, Owned
<1>2. ASSUME NEW n \in Requests, Allocate(n) PROVE Pool!PoolNext
  BY <1>2, AllocateMaps DEF Pool!PoolNext
<1>3. ASSUME NEW s \in Segments, Release(s) \/ ReleaseError(s) PROVE Pool!PoolNext
  BY <1>3, ReleaseMaps, ReleaseErrorMaps DEF Pool!PoolNext
<1>4. CASE Merge
  BY <1>4, MergeStutters
<1>5. CASE Step \/ LoopEnd
  BY <1>5, StepKeepsMemInv, LoopEndKeepsMemInv DEF Owned
<1>6. CASE Unsupported
  BY <1>6 DEF Unsupported, Owned, Pool!PoolNext, Pool!PoolRefuse, Pool!Answer, Answer
<1> QED
  BY <1>1, <1>2, <1>3, <1>4, <1>5, <1>6 DEF Next

(* For every pool size and every sequence of calls, the block list with    *)
(* its splits, its flags and its merging loop is the pool of extents: a    *)
(* request gets the lowest place that is nobody's and fails only when      *)
(* there is none.                                                          *)
THEOREM ImplementsPoolCorrect == Spec => ImplementsPool
  BY InitMaps, StepMaps, MemInvCorrect, PTL DEF Spec, ImplementsPool, Pool!PoolSpec

--------------------------------------------------------------------------------
(* Sequences of bytes: what is left from a place on, and what is put       *)
(* there.                                                                  *)

(* A function on 1 .. n with bytes for values is a sequence of n bytes.    *)
LEMMA FunctionIsSeq ==
  ASSUME NEW S, NEW n \in Nat, NEW f \in [1 .. n -> S]
  PROVE  f \in Seq(S) /\ Len(f) = n
  OBVIOUS

(* The bytes from a place on.                                              *)
LEMMA RestIs ==
  ASSUME NEW S, NEW b \in Seq(S), NEW n \in Nat
  PROVE  /\ P!BytesFrom(b, n) \in Seq(S)
         /\ Len(P!BytesFrom(b, n)) = IF n < Len(b) THEN Len(b) - n ELSE 0
         /\ \A i \in 1 .. Len(b) - n : P!BytesFrom(b, n)[i] = b[n + i]
<1>1. Len(b) \in Nat /\ \A i \in 1 .. Len(b) : b[i] \in S
  OBVIOUS
<1>2. n + 1 \in Int /\ \A i \in n + 1 .. Len(b) : b[i] \in S
  BY <1>1
<1>3. /\ SubSeq(b, n + 1, Len(b)) \in Seq(S)
      /\ Len(SubSeq(b, n + 1, Len(b))) = IF n + 1 <= Len(b) THEN Len(b) - (n + 1) + 1 ELSE 0
      /\ \A i \in 1 .. Len(b) - (n + 1) + 1 : SubSeq(b, n + 1, Len(b))[i] = b[n + 1 + i - 1]
  BY <1>1, <1>2, SubSeqProperties
<1> DEFINE t == SubSeq(b, n + 1, Len(b))
<1>4. P!BytesFrom(b, n) = t
  BY DEF P!BytesFrom
<1> HIDE DEF t
<1>5. /\ t \in Seq(S) /\ Len(t) = IF n + 1 <= Len(b) THEN Len(b) - (n + 1) + 1 ELSE 0
      /\ \A i \in 1 .. Len(b) - (n + 1) + 1 : t[i] = b[n + 1 + i - 1]
  BY <1>3 DEF t
<1>6. Len(t) = IF n < Len(b) THEN Len(b) - n ELSE 0
  BY <1>1, <1>5
<1>7. \A i \in 1 .. Len(b) - n : t[i] = b[n + i]
  BY <1>1, <1>5
<1> QED
  BY <1>4, <1>5, <1>6, <1>7

(* The first n bytes.                                                      *)
LEMMA FirstIs ==
  ASSUME NEW S, NEW b \in Seq(S), NEW n \in 0 .. Len(b)
  PROVE  /\ SubSeq(b, 1, n) \in Seq(S) /\ Len(SubSeq(b, 1, n)) = n
         /\ \A i \in 1 .. n : SubSeq(b, 1, n)[i] = b[i]
<1>1. Len(b) \in Nat /\ n \in Nat /\ n <= Len(b) /\ \A i \in 1 .. n : b[i] \in S
  OBVIOUS
<1> DEFINE t == SubSeq(b, 1, n)
<1>2. /\ t \in Seq(S) /\ Len(t) = IF 1 <= n THEN n - 1 + 1 ELSE 0
      /\ \A i \in 1 .. n - 1 + 1 : t[i] = b[1 + i - 1]
  BY <1>1, SubSeqProperties
<1> HIDE DEF t
<1>3. t \in Seq(S) /\ Len(t) = n /\ \A i \in 1 .. n : t[i] = b[i]
  BY <1>1, <1>2
<1> QED
  BY <1>3 DEF t

(* The bytes with data put at a place.                                     *)
LEMMA PutIs ==
  ASSUME NEW S, 0 \in S, NEW b \in Seq(S), NEW d \in Seq(S), d # <<>>, NEW n \in Nat
  PROVE  /\ P!PutAt(b, n, d) \in Seq(S)
         /\ Len(P!PutAt(b, n, d)) = IF n + Len(d) > Len(b) THEN n + Len(d) ELSE Len(b)
         /\ \A i \in 1 .. Len(P!PutAt(b, n, d)) :
              P!PutAt(b, n, d)[i] = IF i > n /\ i <= n + Len(d) THEN d[i - n]
                                    ELSE IF i <= Len(b) THEN b[i] ELSE 0
<1> DEFINE m == IF n + Len(d) > Len(b) THEN n + Len(d) ELSE Len(b)
           e(i) == IF i > n /\ i <= n + Len(d) THEN d[i - n] ELSE IF i <= Len(b) THEN b[i] ELSE 0
           t == [i \in 1 .. m |-> e(i)]
<1>1. P!PutAt(b, n, d) = t
  BY DEF P!PutAt
<1>2. m \in Nat /\ Len(b) \in Nat /\ Len(d) \in Nat
  OBVIOUS
<1>3. \A i \in 1 .. m : e(i) \in S
  <2> SUFFICES ASSUME NEW i \in 1 .. m PROVE e(i) \in S
    OBVIOUS
  <2>1. CASE i > n /\ i <= n + Len(d)
    <3>1. i - n \in 1 .. Len(d)
      BY <1>2, <2>1
    <3> QED
      BY <2>1, <3>1
  <2>2. CASE ~(i > n /\ i <= n + Len(d)) /\ i <= Len(b)
    <3>1. i \in 1 .. Len(b)
      BY <1>2, <2>2
    <3> QED
      BY <2>2, <3>1
  <2>3. CASE ~(i > n /\ i <= n + Len(d)) /\ ~(i <= Len(b))
    BY <2>3
  <2> QED
    BY <2>1, <2>2, <2>3
<1>4. t \in [1 .. m -> S] /\ \A i \in 1 .. m : t[i] = e(i)
  <2> HIDE DEF e, m
  <2> QED
    BY <1>3
<1> HIDE DEF t
<1>5. t \in Seq(S) /\ Len(t) = m
  <2> HIDE DEF m
  <2> QED
    BY <1>2, <1>4, FunctionIsSeq
<1> QED
  BY <1>1, <1>4, <1>5

(* Data put behind data is both put at once.                               *)
LEMMA PutTwice ==
  ASSUME NEW S, 0 \in S, NEW b \in Seq(S), NEW d \in Seq(S), NEW e \in Seq(S), NEW n \in Nat
  PROVE  P!PutAt(P!PutAt(b, n, d), n + Len(d), e) = P!PutAt(b, n, d \o e)
<1>1. Len(b) \in Nat /\ Len(d) \in Nat /\ Len(e) \in Nat
  OBVIOUS
<1>2. CASE d = <<>>
  <2>1. d \o e = e /\ Len(d) = 0 /\ P!PutAt(b, n, d) = b
    BY <1>2, ConcatEmptySeq DEF P!PutAt
  <2>2. n + Len(d) = n
    BY <2>1
  <2> QED
    BY <2>1, <2>2
<1>3. CASE e = <<>>
  <2>1. d \o e = d
    BY <1>3, ConcatEmptySeq
  <2> QED
    BY <1>3, <2>1 DEF P!PutAt
<1>4. CASE d # <<>> /\ e # <<>>
  <2> DEFINE de == d \o e
             once == P!PutAt(b, n, d)
             twice == P!PutAt(once, n + Len(d), e)
             both == P!PutAt(b, n, de)
  <2>1. /\ de \in Seq(S) /\ Len(de) = Len(d) + Len(e)
        /\ \A i \in 1 .. Len(d) + Len(e) : de[i] = IF i <= Len(d) THEN d[i] ELSE e[i - Len(d)]
    BY ConcatProperties
  <2>2. Len(d) > 0 /\ Len(e) > 0
    BY <1>4, EmptySeq
  <2> HIDE DEF de
  <2>3. de # <<>>
    BY <1>1, <2>1, <2>2, EmptySeq
  <2>4. /\ once \in Seq(S) /\ Len(once) = IF n + Len(d) > Len(b) THEN n + Len(d) ELSE Len(b)
        /\ \A i \in 1 .. Len(once) :
              once[i] = IF i > n /\ i <= n + Len(d) THEN d[i - n] ELSE IF i <= Len(b) THEN b[i] ELSE 0
    BY <1>4, PutIs
  <2> HIDE DEF once
  <2>5. n + Len(d) \in Nat
    BY <1>1
  <2>6. /\ twice \in Seq(S)
        /\ Len(twice) = IF n + Len(d) + Len(e) > Len(once) THEN n + Len(d) + Len(e) ELSE Len(once)
        /\ \A i \in 1 .. Len(twice) :
              twice[i] = IF i > n + Len(d) /\ i <= n + Len(d) + Len(e) THEN e[i - (n + Len(d))]
                         ELSE IF i <= Len(once) THEN once[i] ELSE 0
    BY <1>4, <2>4, <2>5, PutIs
  <2> HIDE DEF twice
  <2>7. /\ both \in Seq(S)
        /\ Len(both) = IF n + Len(de) > Len(b) THEN n + Len(de) ELSE Len(b)
        /\ \A i \in 1 .. Len(both) :
              both[i] = IF i > n /\ i <= n + Len(de) THEN de[i - n] ELSE IF i <= Len(b) THEN b[i] ELSE 0
    BY <2>1, <2>3, PutIs
  <2> HIDE DEF both
  <2>8. Len(twice) = Len(both) /\ Len(twice) \in Nat
    <3>1. /\ Len(de) = Len(d) + Len(e)
          /\ Len(once) = IF n + Len(d) > Len(b) THEN n + Len(d) ELSE Len(b)
          /\ Len(twice) = IF n + Len(d) + Len(e) > Len(once) THEN n + Len(d) + Len(e) ELSE Len(once)
          /\ Len(both) = IF n + Len(de) > Len(b) THEN n + Len(de) ELSE Len(b)
      BY <2>1, <2>4, <2>6, <2>7
    <3>2. n + Len(de) = n + Len(d) + Len(e) /\ Len(once) \in Nat
      BY <1>1, <3>1
    <3>3. CASE n + Len(d) > Len(b)
      <4>1. Len(once) = n + Len(d) /\ Len(twice) = n + Len(d) + Len(e)
        BY <1>1, <2>2, <3>1, <3>3
      <4>2. Len(both) = n + Len(d) + Len(e)
        BY <1>1, <2>2, <3>1, <3>2, <3>3
      <4> QED
        BY <1>1, <4>1, <4>2
    <3>4. CASE ~(n + Len(d) > Len(b))
      <4>1. Len(once) = Len(b)
        BY <3>1, <3>4
      <4> QED
        BY <1>1, <3>1, <3>2, <4>1
    <3> QED
      BY <3>3, <3>4
  <2>9. ASSUME NEW i \in 1 .. Len(twice) PROVE twice[i] = both[i]
    <3>0. i \in Nat /\ i >= 1 /\ i \in 1 .. Len(both) /\ Len(once) \in Nat
      BY <2>4, <2>8
    <3>1. CASE i <= n
      <4>1. ~(i > n) /\ ~(i > n + Len(d)) /\ i <= Len(once) /\ i \in 1 .. Len(once)
        BY <1>1, <2>4, <3>0, <3>1
      <4> QED
        BY <2>4, <2>6, <2>7, <3>0, <4>1
    <3>2. CASE i > n /\ i <= n + Len(d)
      <4>1. ~(i > n + Len(d)) /\ i <= Len(once) /\ i \in 1 .. Len(once) /\ i <= n + Len(de)
        BY <1>1, <2>1, <2>4, <3>0, <3>2
      <4>2. i - n \in 1 .. Len(d) + Len(e) /\ i - n <= Len(d)
        BY <1>1, <3>0, <3>2
      <4>3. twice[i] = d[i - n] /\ both[i] = de[i - n] /\ de[i - n] = d[i - n]
        BY <2>1, <2>4, <2>6, <2>7, <3>0, <3>2, <4>1, <4>2
      <4> QED
        BY <4>3
    <3>3. CASE i > n + Len(d) /\ i <= n + Len(d) + Len(e)
      <4>1. i > n /\ i <= n + Len(de)
        BY <1>1, <2>1, <3>0, <3>3
      <4>2. i - n \in 1 .. Len(d) + Len(e) /\ ~(i - n <= Len(d)) /\ (i - n) - Len(d) = i - (n + Len(d))
        BY <1>1, <3>0, <3>3
      <4>3. twice[i] = e[i - (n + Len(d))] /\ both[i] = de[i - n] /\ de[i - n] = e[(i - n) - Len(d)]
        BY <2>1, <2>6, <2>7, <3>0, <3>3, <4>1, <4>2
      <4> QED
        BY <4>2, <4>3
    <3>4. CASE i > n + Len(d) + Len(e)
      <4>1. /\ i > n /\ ~(i <= n + Len(d)) /\ ~(i <= n + Len(de)) /\ i <= Len(b) /\ i <= Len(once)
            /\ i \in 1 .. Len(once) /\ ~(i <= n + Len(d) + Len(e))
        BY <1>1, <2>1, <2>4, <2>6, <3>0, <3>4
      <4> QED
        BY <2>4, <2>6, <2>7, <3>0, <4>1
    <3> QED
      BY <1>1, <3>0, <3>1, <3>2, <3>3, <3>4
  <2>10. twice = both
    BY <2>6, <2>7, <2>8, <2>9, SeqEqual
  <2> QED
    BY <2>10 DEF once, twice, both, de
<1> QED
  BY <1>2, <1>3, <1>4

--------------------------------------------------------------------------------
(* The inductive invariant, and how a table that changes keeps it.         *)

Bytes == Seq(Data \cup {0})
Streams == [file : Files, writable : BOOLEAN, at : Nat, ahead : Bytes, behind : Bytes, failed : BOOLEAN]

(* The bytes a are those right behind a place; the bytes a follow a place. *)
Behind(a, bytes, place) == place <= Len(bytes) /\ a = SubSeq(bytes, place - Len(a) + 1, place)
Follows(a, bytes, place) ==
  /\ a # <<>> => place + Len(a) <= Len(bytes)
  /\ \A i \in 1 .. Len(a) : a[i] = bytes[place + i]

(* The buffers of a stream agree with bytes, those of its file: completely *)
(* when the file is apart, that is, not shared with a writer.              *)
Agrees(s, bytes, apart) ==
  /\ Len(s.ahead) <= s.at
  /\ s.ahead = <<>> \/ s.behind = <<>>
  /\ s.behind # <<>> => s.writable
  /\ s.ahead # <<>> \/ s.failed => ~s.writable
  /\ apart /\ s.ahead # <<>> => Behind(s.ahead, bytes, s.at)
  /\ apart /\ s.failed => s.ahead = <<>> /\ s.at >= Len(bytes)

(* The inductive invariant, of a disk, a table and a set of mixed files.   *)
Sound(d, t, mx) ==
  /\ d \in [Files -> Bytes \cup {NoFile}]
  /\ DOMAIN t \subseteq Handles /\ t \in [DOMAIN t -> Streams]
  /\ Shared(t) \subseteq mx
  /\ \A h \in DOMAIN t : d[t[h].file] \in Bytes /\ Agrees(t[h], d[t[h].file], t[h].file \notin mx)

(* The inductive invariant.                                                *)
VfsInv == Sound(disk, files, mixed)

(* The mark of a file that is not there is no sequence of bytes.           *)
LEMMA NoFileIsNone == \A b \in Bytes : b # NoFile
  BY FilesAssumption DEF Bytes

(* The fields of a stream have their types.                                *)
LEMMA StreamTyped ==
  ASSUME NEW s \in Streams
  PROVE  /\ s.file \in Files /\ s.writable \in BOOLEAN /\ s.at \in Nat
         /\ s.ahead \in Bytes /\ s.behind \in Bytes /\ s.failed \in BOOLEAN
         /\ Len(s.ahead) \in Nat /\ Len(s.behind) \in Nat
  BY DEF Streams, Bytes

(* A writer's file that another handle has open is shared.                 *)
LEMMA SharedIs ==
  ASSUME NEW t, t \in [DOMAIN t -> Streams], NEW h \in DOMAIN t, NEW g \in DOMAIN t, g # h,
         t[h].file = t[g].file, t[h].writable \/ t[g].writable
  PROVE  t[h].file \in Shared(t)
  BY DEF Shared, Holders, Streams

(* One stream of the table is replaced, and perhaps what the disk has for  *)
(* its file.                                                               *)
LEMMA UpdateSound ==
  ASSUME NEW d, NEW t, NEW mx, Sound(d, t, mx), NEW h \in DOMAIN t,
         NEW s \in Streams, s.file = t[h].file, s.writable = t[h].writable,
         NEW b \in Bytes, ~s.writable => b = d[s.file],
         Agrees(s, b, s.file \notin mx)
  PROVE  Sound([d EXCEPT ![s.file] = b], [t EXCEPT ![h] = s], mx)
<1> DEFINE e == [d EXCEPT ![s.file] = b]
           u == [t EXCEPT ![h] = s]
<1>1. /\ d \in [Files -> Bytes \cup {NoFile}] /\ t \in [DOMAIN t -> Streams] /\ s.file \in Files
      /\ DOMAIN t \subseteq Handles /\ Shared(t) \subseteq mx
  BY StreamTyped DEF Sound
<1>2. /\ e \in [Files -> Bytes \cup {NoFile}] /\ e[s.file] = b
      /\ \A f \in Files : f # s.file => e[f] = d[f]
  BY <1>1
<1>3. /\ DOMAIN u = DOMAIN t /\ u \in [DOMAIN u -> Streams] /\ u[h] = s
      /\ \A g \in DOMAIN t : g # h => u[g] = t[g]
  BY <1>1
<1> HIDE DEF e, u
<1>4. \A g \in DOMAIN t : u[g].file = t[g].file /\ u[g].writable = t[g].writable
  BY <1>3
<1>5. Shared(u) = Shared(t)
  BY <1>3, <1>4 DEF Shared, Holders
<1>6. ASSUME NEW g \in DOMAIN u
      PROVE  e[u[g].file] \in Bytes /\ Agrees(u[g], e[u[g].file], u[g].file \notin mx)
  <2>1. CASE g = h
    BY <1>2, <1>3, <2>1
  <2>2. CASE g # h
    <3>1. u[g] = t[g] /\ g \in DOMAIN t /\ d[t[g].file] \in Bytes /\ Agrees(t[g], d[t[g].file], t[g].file \notin mx)
      BY <1>3, <1>6, <2>2 DEF Sound
    <3>2. CASE e[t[g].file] = d[t[g].file]
      BY <3>1, <3>2
    <3>3. CASE e[t[g].file] # d[t[g].file]
      <4>1. t[g].file \in Files
        BY <1>1, <3>1, StreamTyped
      <4>2. t[g].file = s.file /\ s.writable /\ e[t[g].file] = b
        BY <1>2, <3>3, <4>1
      <4>3. t[h].file \in Shared(t)
        BY <1>1, <2>2, <3>1, <4>2, SharedIs
      <4>4. t[g].file \in mx
        BY <1>1, <4>2, <4>3
      <4>5. Agrees(t[g], b, t[g].file \notin mx)
        BY <3>1, <4>4 DEF Agrees
      <4> QED
        BY <3>1, <4>2, <4>5
    <3> QED
      BY <3>2, <3>3
  <2> QED
    BY <2>1, <2>2
<1>7. Sound(e, u, mx)
  BY <1>1, <1>2, <1>3, <1>5, <1>6 DEF Sound
<1> QED
  BY <1>7 DEF e, u

MixedOf(mx, disturbed, t) == { f \in mx \cup disturbed \cup Shared(t) : Holders(f, t) # {} }

(* A handle is opened.                                                     *)
LEMMA EmplaceSound ==
  ASSUME NEW d, NEW t, NEW mx, Sound(d, t, mx), NEW h \in Handles \ DOMAIN t, NEW f \in Files,
         NEW w \in BOOLEAN, NEW e, e \in [Files -> Bytes \cup {NoFile}], e[f] \in Bytes,
         \A x \in Files : x # f => e[x] = d[x], ~w => e[f] = d[f],
         NEW u, u = [g \in DOMAIN t \cup {h} |-> IF g = h THEN Stream(f, w) ELSE t[g]]
  PROVE  Sound(e, u, MixedOf(mx, {}, u))
<1>1. /\ d \in [Files -> Bytes \cup {NoFile}] /\ t \in [DOMAIN t -> Streams]
      /\ DOMAIN t \subseteq Handles /\ Shared(t) \subseteq mx
  BY DEF Sound
<1>2. <<>> \in Bytes /\ Len(<<>>) = 0
  BY EmptySeq DEF Bytes
<1>3. Stream(f, w) \in Streams
  BY <1>2 DEF Stream, Streams
<1> DEFINE n == Stream(f, w)
<1>4. n.file = f /\ n.writable = w /\ n.ahead = <<>> /\ n.behind = <<>> /\ n.at = 0 /\ ~n.failed
  BY DEF Stream
<1> HIDE DEF n
<1>5. /\ DOMAIN u = DOMAIN t \cup {h} /\ u[h] = n /\ \A g \in DOMAIN t : g # h /\ u[g] = t[g]
  BY DEF n
<1>6. u \in [DOMAIN u -> Streams]
  <2>1. u = [g \in DOMAIN u |-> u[g]]
    BY <1>5
  <2>2. \A g \in DOMAIN u : u[g] \in Streams
    BY <1>1, <1>3, <1>5 DEF n
  <2> QED
    BY <2>1, <2>2
<1> DEFINE my == MixedOf(mx, {}, u)
<1>7. Shared(u) \subseteq my
  BY DEF MixedOf, Shared
<1>8. ASSUME NEW g \in DOMAIN u
      PROVE  e[u[g].file] \in Bytes /\ Agrees(u[g], e[u[g].file], u[g].file \notin my)
  <2>1. CASE g = h
    <3>1. Agrees(n, e[f], n.file \notin my)
      BY <1>2, <1>4 DEF Agrees
    <3> QED
      BY <1>4, <1>5, <2>1, <3>1
  <2>2. CASE g # h
    <3>1. u[g] = t[g] /\ g \in DOMAIN t /\ d[t[g].file] \in Bytes /\ Agrees(t[g], d[t[g].file], t[g].file \notin mx)
      BY <1>5, <1>8, <2>2 DEF Sound
    <3>2. t[g].file \in Files /\ h \in DOMAIN u
      BY <1>1, <1>5, <3>1, StreamTyped
    <3>3. t[g].file \in Holders(t[g].file, u) \/ Holders(t[g].file, u) # {}
      BY <1>8, <3>1 DEF Holders
    <3>4. t[g].file \in mx => t[g].file \in my
      BY <3>1, <3>3 DEF MixedOf, Holders
    <3>5. CASE t[g].file # f \/ ~w
      <4>1. e[t[g].file] = d[t[g].file]
        BY <3>2, <3>5
      <4>2. Agrees(t[g], d[t[g].file], t[g].file \notin my)
        BY <3>1, <3>4 DEF Agrees
      <4> QED
        BY <3>1, <4>1, <4>2
    <3>6. CASE t[g].file = f /\ w
      <4>1. u[h].file = u[g].file /\ u[h].writable
        BY <1>4, <1>5, <3>1, <3>6
      <4>2. u[h].file \in Shared(u)
        BY <1>6, <1>8, <2>2, <3>2, <4>1, SharedIs
      <4>3. t[g].file \in my
        BY <1>7, <3>1, <4>1, <4>2
      <4>4. Agrees(t[g], e[f], t[g].file \notin my)
        BY <3>1, <4>3 DEF Agrees
      <4> QED
        BY <3>1, <3>6, <4>4
    <3> QED
      BY <3>5, <3>6
  <2> QED
    BY <2>1, <2>2
<1>9. DOMAIN u \subseteq Handles
  BY <1>1, <1>5
<1> HIDE DEF my
<1> QED
  BY <1>6, <1>7, <1>8, <1>9 DEF Sound, my

(* A file nobody has open, or one that is mixed, changes on the disk.      *)
LEMMA DisturbSound ==
  ASSUME NEW d, NEW t, NEW mx, Sound(d, t, mx), NEW f \in Files, NEW b \in Bytes,
         NEW e, e = [d EXCEPT ![f] = b]
  PROVE  Sound(e, t, MixedOf(mx, {f}, t))
<1>1. /\ d \in [Files -> Bytes \cup {NoFile}] /\ t \in [DOMAIN t -> Streams]
      /\ DOMAIN t \subseteq Handles /\ Shared(t) \subseteq mx
  BY DEF Sound
<1>2. /\ e \in [Files -> Bytes \cup {NoFile}] /\ e[f] = b /\ \A x \in Files : x # f => e[x] = d[x]
  BY <1>1
<1> DEFINE my == MixedOf(mx, {f}, t)
<1>3. Shared(t) \subseteq my
  BY DEF MixedOf, Shared
<1>4. ASSUME NEW g \in DOMAIN t
      PROVE  e[t[g].file] \in Bytes /\ Agrees(t[g], e[t[g].file], t[g].file \notin my)
  <2>1. d[t[g].file] \in Bytes /\ Agrees(t[g], d[t[g].file], t[g].file \notin mx)
    BY DEF Sound
  <2>2. t[g].file \in Files
    BY <1>1, StreamTyped
  <2>3. Holders(t[g].file, t) # {}
    BY DEF Holders
  <2>4. t[g].file \in mx \cup {f} => t[g].file \in my
    BY <2>3 DEF MixedOf
  <2>5. CASE t[g].file = f
    BY <1>2, <2>1, <2>4, <2>5 DEF Agrees
  <2>6. CASE t[g].file # f
    BY <1>2, <2>1, <2>2, <2>4, <2>6 DEF Agrees
  <2> QED
    BY <2>5, <2>6
<1> HIDE DEF my
<1> QED
  BY <1>1, <1>2, <1>3, <1>4 DEF Sound, my

(* A handle is closed.                                                     *)
LEMMA CloseSound ==
  ASSUME NEW d, NEW t, NEW mx, Sound(d, t, mx), NEW h \in DOMAIN t, NEW b \in Bytes,
         ~t[h].writable => b = d[t[h].file],
         NEW e, e = [d EXCEPT ![t[h].file] = b],
         NEW u, u = [g \in DOMAIN t \ {h} |-> t[g]]
  PROVE  Sound(e, u, MixedOf(mx, {}, u))
<1>1. /\ d \in [Files -> Bytes \cup {NoFile}] /\ t \in [DOMAIN t -> Streams]
      /\ DOMAIN t \subseteq Handles /\ Shared(t) \subseteq mx /\ t[h].file \in Files
  BY StreamTyped DEF Sound
<1>2. /\ e \in [Files -> Bytes \cup {NoFile}] /\ e[t[h].file] = b
      /\ \A x \in Files : x # t[h].file => e[x] = d[x]
  BY <1>1
<1>3. /\ DOMAIN u = DOMAIN t \ {h} /\ \A g \in DOMAIN u : u[g] = t[g] /\ g \in DOMAIN t /\ g # h
      /\ u = [g \in DOMAIN u |-> u[g]]
  OBVIOUS
<1>4. u \in [DOMAIN u -> Streams] /\ DOMAIN u \subseteq Handles
  BY <1>1, <1>3
<1> DEFINE my == MixedOf(mx, {}, u)
<1>5. Shared(u) \subseteq my
  BY DEF MixedOf, Shared
<1>6. ASSUME NEW g \in DOMAIN u
      PROVE  e[u[g].file] \in Bytes /\ Agrees(u[g], e[u[g].file], u[g].file \notin my)
  <2>1. u[g] = t[g] /\ g \in DOMAIN t /\ g # h /\ d[t[g].file] \in Bytes /\ Agrees(t[g], d[t[g].file], t[g].file \notin mx)
    BY <1>3, <1>6 DEF Sound
  <2>2. t[g].file \in Files
    BY <1>1, <2>1, StreamTyped
  <2>3. Holders(t[g].file, u) # {}
    BY <1>6, <2>1 DEF Holders
  <2>4. t[g].file \in mx => t[g].file \in my
    BY <2>3 DEF MixedOf
  <2>5. CASE e[t[g].file] = d[t[g].file]
    <3>1. Agrees(t[g], d[t[g].file], t[g].file \notin my)
      BY <2>1, <2>4 DEF Agrees
    <3> QED
      BY <2>1, <2>5, <3>1
  <2>6. CASE e[t[g].file] # d[t[g].file]
    <3>1. t[g].file = t[h].file /\ t[h].writable
      BY <1>2, <2>2, <2>6
    <3>2. t[h].file \in Shared(t)
      BY <1>1, <2>1, <3>1, SharedIs
    <3>3. t[g].file \in my
      BY <1>1, <2>4, <3>1, <3>2
    <3>4. Agrees(t[g], b, t[g].file \notin my)
      BY <2>1, <3>3 DEF Agrees
    <3> QED
      BY <1>2, <2>1, <3>1, <3>4
  <2> QED
    BY <2>5, <2>6
<1> HIDE DEF my
<1> QED
  BY <1>2, <1>4, <1>5, <1>6 DEF Sound, my

--------------------------------------------------------------------------------
(* Reading: what a stream holds, what it fetches and what is left of it.   *)

(* A window of the bytes, told element by element.                         *)
LEMMA WindowIs ==
  ASSUME NEW b \in Bytes, NEW a \in Bytes, NEW n \in Nat, Len(a) <= n, n <= Len(b)
  PROVE  a = SubSeq(b, n - Len(a) + 1, n) <=> \A i \in 1 .. Len(a) : a[i] = b[n - Len(a) + i]
<1> DEFINE S == Data \cup {0}
           m == n - Len(a) + 1
           w == SubSeq(b, m, n)
<1>1. b \in Seq(S) /\ a \in Seq(S) /\ Len(a) \in Nat /\ Len(b) \in Nat
  BY DEF Bytes
<1>2. m \in Int /\ n \in Int /\ m >= 1 /\ n - m + 1 = Len(a)
  BY <1>1
<1>3. \A i \in m .. n : b[i] \in S
  <2> SUFFICES ASSUME NEW i \in m .. n PROVE b[i] \in S
    OBVIOUS
  <2>1. i \in 1 .. Len(b)
    BY <1>1, <1>2
  <2> QED
    BY <1>1, <2>1
<1>4. /\ w \in Seq(S) /\ Len(w) = IF m <= n THEN n - m + 1 ELSE 0
      /\ \A i \in 1 .. n - m + 1 : w[i] = b[m + i - 1]
  BY <1>2, <1>3, SubSeqProperties
<1> HIDE DEF w, S
<1>5. Len(w) = Len(a)
  BY <1>1, <1>2, <1>4
<1>6. \A i \in 1 .. Len(a) : w[i] = b[n - Len(a) + i]
  <2> SUFFICES ASSUME NEW i \in 1 .. Len(a) PROVE w[i] = b[n - Len(a) + i]
    OBVIOUS
  <2>1. i \in 1 .. n - m + 1 /\ m + i - 1 = n - Len(a) + i
    BY <1>1, <1>2
  <2> QED
    BY <1>4, <2>1
<1>7. a = w <=> \A i \in 1 .. Len(a) : a[i] = w[i]
  BY <1>1, <1>4, <1>5, SeqEqual
<1> QED
  BY <1>6, <1>7 DEF w

(* The same, for a window and what is behind it.                           *)
LEMMA BehindIs ==
  ASSUME NEW a \in Bytes, NEW b \in Bytes, NEW place \in Nat
  PROVE  /\ Len(a) \in Nat
         /\ Follows(a, b, place) /\ a # <<>> => Behind(a, b, place + Len(a))
         /\ Behind(a, b, place + Len(a)) => Follows(a, b, place)
<1>1. Len(a) \in Nat /\ Len(b) \in Nat
  BY DEF Bytes
<1> DEFINE n == place + Len(a)
<1>2. n \in Nat /\ Len(a) <= n /\ \A i \in 1 .. Len(a) : n - Len(a) + i = place + i
  BY <1>1
<1>3. ASSUME n <= Len(b)
      PROVE  a = SubSeq(b, n - Len(a) + 1, n) <=> \A i \in 1 .. Len(a) : a[i] = b[n - Len(a) + i]
  <2> HIDE DEF n
  <2> QED
    BY <1>2, <1>3, WindowIs
<1> HIDE DEF n
<1>4. n <= Len(b)
        => (a = SubSeq(b, n - Len(a) + 1, n) <=> \A i \in 1 .. Len(a) : a[i] = b[place + i])
  BY <1>2, <1>3
<1>5. Follows(a, b, place) /\ a # <<>> => Behind(a, b, n)
  BY <1>4 DEF Follows, Behind, n
<1>6. Behind(a, b, n) => Follows(a, b, place)
  BY <1>4 DEF Follows, Behind, n
<1> QED
  BY <1>1, <1>5, <1>6 DEF n

(* What an agreeing reader has read ahead is what follows its place.       *)
LEMMA AheadIs ==
  ASSUME NEW s \in Streams, NEW b \in Bytes, NEW apart, Agrees(s, b, apart), ~s.writable
  PROVE  /\ s.behind = <<>> /\ s.at \in Nat /\ Place(s) \in Nat
         /\ Place(s) + Len(s.ahead) = s.at
         /\ apart => Follows(s.ahead, b, Place(s))
<1>1. /\ s.at \in Nat /\ s.ahead \in Bytes /\ Len(s.ahead) \in Nat /\ Len(s.ahead) <= s.at
      /\ s.behind = <<>> /\ Len(s.behind) = 0
  BY StreamTyped DEF Agrees
<1> DEFINE place == s.at - Len(s.ahead)
<1>2. Place(s) = place /\ place \in Nat /\ place + Len(s.ahead) = s.at
  BY <1>1 DEF Place
<1> HIDE DEF place
<1>3. ASSUME apart PROVE Follows(s.ahead, b, place)
  <2>1. CASE s.ahead = <<>>
    BY <2>1, EmptySeq DEF Follows
  <2>2. CASE s.ahead # <<>>
    <3>1. Behind(s.ahead, b, s.at)
      BY <1>3, <2>2 DEF Agrees
    <3>2. Behind(s.ahead, b, place + Len(s.ahead))
      BY <1>2, <3>1
    <3> QED
      BY <1>1, <1>2, <3>2, BehindIs
  <2> QED
    BY <2>1, <2>2
<1> QED
  BY <1>1, <1>2, <1>3

(* What is left of bytes is bytes.                                         *)
LEMMA RestTyped ==
  ASSUME NEW b \in Bytes, NEW place \in Nat
  PROVE  /\ P!BytesFrom(b, place) \in Bytes /\ Len(P!BytesFrom(b, place)) \in Nat
         /\ Len(P!BytesFrom(b, place)) = IF place < Len(b) THEN Len(b) - place ELSE 0
<1> DEFINE S == Data \cup {0}
<1>1. b \in Seq(S) /\ Len(b) \in Nat
  BY DEF Bytes
<1>2. /\ P!BytesFrom(b, place) \in Seq(S)
      /\ Len(P!BytesFrom(b, place)) = IF place < Len(b) THEN Len(b) - place ELSE 0
  BY <1>1, RestIs
<1>3. P!BytesFrom(b, place) \in Bytes
  BY <1>2 DEF Bytes
<1> QED
  BY <1>1, <1>2, <1>3

(* What is given of bytes that follow the place.                           *)
LEMMA SameBytes ==
  ASSUME NEW a \in Bytes, NEW b \in Bytes, NEW place \in Nat, NEW n \in 0 .. Len(a),
         Follows(a, b, place)
  PROVE  n <= Len(P!BytesFrom(b, place)) /\ SubSeq(a, 1, n) = SubSeq(P!BytesFrom(b, place), 1, n)
<1> DEFINE S == Data \cup {0}
           want == P!BytesFrom(b, place)
<1>1. b \in Seq(S) /\ a \in Seq(S) /\ Len(a) \in Nat /\ Len(b) \in Nat /\ n \in Nat /\ n <= Len(a)
  BY DEF Bytes
<1>2. /\ want \in Seq(S) /\ Len(want) = IF place < Len(b) THEN Len(b) - place ELSE 0
      /\ \A i \in 1 .. Len(b) - place : want[i] = b[place + i]
  <2>1. b \in Seq(S) /\ place \in Nat
    BY <1>1
  <2> QED
    BY <2>1, RestIs
<1>f. (a # <<>> => place + Len(a) <= Len(b)) /\ \A i \in 1 .. Len(a) : a[i] = b[place + i]
  BY DEF Follows
<1> HIDE DEF want, S
<1>3. n > 0 => a # <<>>
  BY <1>1
<1>4. n <= Len(want) /\ n \in 0 .. Len(want) /\ (n > 0 => n <= Len(b) - place)
  BY <1>1, <1>2, <1>3, <1>f
<1>5. /\ SubSeq(a, 1, n) \in Seq(S) /\ Len(SubSeq(a, 1, n)) = n
      /\ \A i \in 1 .. n : SubSeq(a, 1, n)[i] = a[i]
  BY <1>1, FirstIs
<1>6. /\ SubSeq(want, 1, n) \in Seq(S) /\ Len(SubSeq(want, 1, n)) = n
      /\ \A i \in 1 .. n : SubSeq(want, 1, n)[i] = want[i]
  BY <1>2, <1>4, FirstIs
<1>7. \A i \in 1 .. n : a[i] = want[i]
  <2> SUFFICES ASSUME NEW i \in 1 .. n PROVE a[i] = want[i]
    OBVIOUS
  <2>1. i \in 1 .. Len(a) /\ i \in 1 .. Len(b) - place
    BY <1>1, <1>4
  <2> QED
    BY <1>2, <1>f, <2>1
<1>8. SubSeq(a, 1, n) = SubSeq(want, 1, n)
  BY <1>5, <1>6, <1>7, SeqEqual
<1> QED
  BY <1>4, <1>8 DEF want

(* What a reader has once it fetched, and how much of it it is given.      *)
Filled(a, b, at, fetched) == a \o SubSeq(P!BytesFrom(b, at), 1, fetched)
Given(count, bytes) == IF count < Len(bytes) THEN count ELSE Len(bytes)
First(bytes, count) == IF count <= Len(bytes) THEN SubSeq(bytes, 1, count) ELSE bytes

(* What a reader holds follows its place also once more has been fetched.  *)
LEMMA FetchIs ==
  ASSUME NEW a \in Bytes, NEW b \in Bytes, NEW at \in Nat, NEW place \in Nat, place + Len(a) = at,
         NEW fetched \in Nat, fetched <= Len(P!BytesFrom(b, at))
  PROVE  /\ Filled(a, b, at, fetched) \in Bytes /\ Len(Filled(a, b, at, fetched)) \in Nat
         /\ place + Len(Filled(a, b, at, fetched)) = at + fetched
         /\ fetched = Len(P!BytesFrom(b, at)) => at + fetched >= Len(b)
         /\ Follows(a, b, place) => Follows(Filled(a, b, at, fetched), b, place)
<1> DEFINE S == Data \cup {0}
           rest == P!BytesFrom(b, at)
           more == SubSeq(rest, 1, fetched)
           all == Filled(a, b, at, fetched)
<1>1. a \in Seq(S) /\ b \in Seq(S) /\ Len(a) \in Nat /\ Len(b) \in Nat
  BY DEF Bytes
<1>2. /\ rest \in Seq(S) /\ Len(rest) = IF at < Len(b) THEN Len(b) - at ELSE 0
      /\ \A i \in 1 .. Len(b) - at : rest[i] = b[at + i]
  BY <1>1, RestIs
<1>3. all = a \o more
  BY DEF Filled
<1> HIDE DEF rest
<1>7. fetched <= Len(rest) /\ Len(rest) \in Nat /\ fetched \in 0 .. Len(rest)
  <2>1. fetched <= Len(rest)
    BY DEF rest
  <2> QED
    BY <1>1, <1>2, <2>1
<1>4. more \in Seq(S) /\ Len(more) = fetched /\ \A i \in 1 .. fetched : more[i] = rest[i]
  BY <1>2, <1>7, FirstIs
<1> HIDE DEF more, S, all
<1>5. /\ a \o more \in Seq(S) /\ Len(a \o more) = Len(a) + Len(more)
      /\ \A i \in 1 .. Len(a) + Len(more) :
           (a \o more)[i] = IF i <= Len(a) THEN a[i] ELSE more[i - Len(a)]
  BY <1>1, <1>4, ConcatProperties
<1>6. /\ all \in Seq(S) /\ Len(all) = Len(a) + fetched
      /\ \A i \in 1 .. Len(a) + fetched : all[i] = IF i <= Len(a) THEN a[i] ELSE more[i - Len(a)]
  BY <1>3, <1>4, <1>5
<1>8. fetched > 0 => at < Len(b) /\ at + fetched <= Len(b)
  BY <1>1, <1>2, <1>7
<1>9. fetched = Len(rest) => at + fetched >= Len(b)
  BY <1>1, <1>2
<1>10. place + Len(all) = at + fetched /\ Len(all) \in Nat
  <2> DEFINE la == Len(a)
             lall == Len(all)
  <2>1. la \in Nat /\ lall = la + fetched /\ place + la = at
    BY <1>1, <1>6
  <2> HIDE DEF la, lall
  <2>2. place + lall = at + fetched /\ lall \in Nat
    BY <2>1
  <2> QED
    BY <2>2 DEF lall
<1>11. ASSUME Follows(a, b, place) PROVE Follows(all, b, place)
  <2>0. /\ a # <<>> => at <= Len(b)
        /\ \A i \in 1 .. Len(a) : a[i] = b[place + i]
    BY <1>1, <1>11 DEF Follows
  <2>1. ASSUME all # <<>> PROVE at + fetched <= Len(b)
    <3>1. CASE fetched > 0
      BY <1>8, <3>1
    <3>2. CASE fetched = 0
      <4>1. more = <<>>
        BY <1>4, <3>2, EmptySeq
      <4>2. all = a
        BY <1>1, <1>3, <4>1, ConcatEmptySeq
      <4>3. at <= Len(b)
        BY <2>0, <2>1, <4>2
      <4> QED
        BY <1>1, <3>2, <4>3
    <3> QED
      BY <1>7, <3>1, <3>2
  <2>2. ASSUME NEW i \in 1 .. Len(all) PROVE all[i] = b[place + i]
    <3>1. i \in Nat /\ i >= 1 /\ i \in 1 .. Len(a) + fetched
      BY <1>1, <1>6, <2>2
    <3>2. CASE i <= Len(a)
      <4>1. i \in 1 .. Len(a)
        BY <1>1, <3>1, <3>2
      <4> QED
        BY <1>6, <2>0, <3>1, <3>2, <4>1
    <3>3. CASE ~(i <= Len(a))
      <4>1. i - Len(a) \in 1 .. fetched
        BY <1>1, <1>7, <3>1, <3>3
      <4>2. fetched > 0
        BY <1>7, <4>1
      <4>3. i - Len(a) \in 1 .. Len(b) - at
        BY <1>1, <1>7, <1>8, <4>1, <4>2
      <4>4. at + (i - Len(a)) = place + i
        BY <1>1, <3>1
      <4>5. all[i] = more[i - Len(a)]
        BY <1>6, <3>1, <3>3
      <4> QED
        BY <1>2, <1>4, <4>1, <4>3, <4>4, <4>5
    <3> QED
      BY <3>2, <3>3
  <2>3. all # <<>> => place + Len(all) <= Len(b)
    BY <1>10, <2>1
  <2> QED
    BY <2>2, <2>3 DEF Follows
<1>12. all \in Bytes
  BY <1>6 DEF Bytes, S
<1> QED
  BY <1>9, <1>10, <1>11, <1>12 DEF all, rest

(* What is left follows the new place once it has been read from.          *)
LEMMA LeftIs ==
  ASSUME NEW all \in Bytes, NEW b \in Bytes, NEW place \in Nat, NEW count \in Nat
  PROVE  /\ P!BytesFrom(all, count) \in Bytes /\ Len(P!BytesFrom(all, count)) \in Nat
         /\ Len(P!BytesFrom(all, count)) <= place + Len(all) /\ Len(all) \in Nat
         /\ Len(P!BytesFrom(all, count)) = IF count < Len(all) THEN Len(all) - count ELSE 0
         /\ Follows(all, b, place) /\ P!BytesFrom(all, count) # <<>>
              => Behind(P!BytesFrom(all, count), b, place + Len(all))
<1> DEFINE S == Data \cup {0}
           c == P!BytesFrom(all, count)
           e == place + Len(all)
<1>1. all \in Seq(S) /\ b \in Seq(S) /\ Len(all) \in Nat /\ Len(b) \in Nat
  BY DEF Bytes
<1>2. /\ c \in Seq(S) /\ Len(c) = (IF count < Len(all) THEN Len(all) - count ELSE 0)
      /\ \A i \in 1 .. Len(all) - count : c[i] = all[count + i]
  BY <1>1, RestIs
<1> HIDE DEF S, c
<1>3. Len(c) \in Nat /\ Len(c) <= e /\ c \in Bytes
  BY <1>1, <1>2 DEF Bytes, S
<1>4. ASSUME Follows(all, b, place), c # <<>> PROVE Behind(c, b, e)
  <2>1. Len(c) > 0
    BY <1>2, <1>3, <1>4, EmptySeq
  <2>2. Len(c) = Len(all) - count /\ Len(all) > 0
    BY <1>1, <1>2, <2>1
  <2>3. e <= Len(b) /\ \A i \in 1 .. Len(all) : all[i] = b[place + i]
    BY <1>1, <1>4, <2>2, EmptySeq DEF Follows
  <2> DEFINE p == place + count
  <2>4. p \in Nat /\ p + Len(c) = e
    BY <1>1, <2>2
  <2>5. \A i \in 1 .. Len(c) : c[i] = b[p + i]
    <3> SUFFICES ASSUME NEW i \in 1 .. Len(c) PROVE c[i] = b[p + i]
      OBVIOUS
    <3>1. /\ i \in 1 .. Len(all) - count /\ count + i \in 1 .. Len(all)
          /\ place + (count + i) = p + i
      BY <1>1, <2>2
    <3>2. c[i] = all[count + i] /\ all[count + i] = b[place + (count + i)]
      BY <1>2, <2>3, <3>1
    <3> QED
      BY <3>1, <3>2
  <2> HIDE DEF p, e
  <2>6. Follows(c, b, p)
    BY <2>3, <2>4, <2>5 DEF Follows
  <2>7. Behind(c, b, p + Len(c))
    BY <1>3, <1>4, <2>4, <2>6, BehindIs
  <2> QED
    BY <2>4, <2>7
<1> QED
  BY <1>1, <1>2, <1>3, <1>4 DEF c

(* What a read that fetched returns.                                       *)
LEMMA GotIs ==
  ASSUME NEW all \in Bytes, NEW b \in Bytes, NEW place \in Nat, NEW count \in Nat,
         Follows(all, b, place), count > Len(all) => place + Len(all) >= Len(b)
  PROVE  /\ Given(count, P!BytesFrom(b, place)) = IF count <= Len(all) THEN count ELSE Len(all)
         /\ First(all, count) = SubSeq(P!BytesFrom(b, place), 1, Given(count, P!BytesFrom(b, place)))
<1> DEFINE want == P!BytesFrom(b, place)
<1>1. Len(all) \in Nat /\ Len(b) \in Nat
  BY DEF Bytes
<1>2. Len(want) \in Nat /\ Len(want) = IF place < Len(b) THEN Len(b) - place ELSE 0
  BY RestTyped
<1>4. CASE count <= Len(all)
  <2>1. count \in 0 .. Len(all)
    BY <1>1, <1>4
  <2>2. count <= Len(want) /\ SubSeq(all, 1, count) = SubSeq(want, 1, count)
    BY <2>1, SameBytes
  <2> HIDE DEF want
  <2>3. Given(count, want) = count
    BY <1>2, <2>2 DEF Given
  <2> QED
    BY <1>4, <2>2, <2>3 DEF First, want
<1>5. CASE count > Len(all)
  <2>1. Len(all) \in 0 .. Len(all)
    BY <1>1
  <2>2. Len(all) <= Len(want) /\ SubSeq(all, 1, Len(all)) = SubSeq(want, 1, Len(all))
    BY <2>1, SameBytes
  <2>3. SubSeq(all, 1, Len(all)) = all
    <3>1. all \in Seq(Data \cup {0})
      BY DEF Bytes
    <3> QED
      BY <3>1, SubSeqFull
  <2> HIDE DEF want
  <2>4. Len(want) <= Len(all)
    BY <1>1, <1>2, <1>5
  <2>5. Len(want) = Len(all)
    BY <1>1, <1>2, <2>2, <2>4
  <2>6. Given(count, want) = Len(all) /\ ~(count <= Len(all))
    BY <1>1, <1>5, <2>5 DEF Given
  <2> QED
    BY <2>2, <2>3, <2>6 DEF First, want
<1> QED
  BY <1>1, <1>4, <1>5

(* A read that the buffer can answer.                                      *)
LEMMA ReadBuffered ==
  ASSUME NEW s \in Streams, NEW b \in Bytes, NEW apart, Agrees(s, b, apart),
         ~s.writable, ~s.failed, NEW count \in Nat, count <= Len(s.ahead),
         NEW n \in Streams, n.writable = s.writable, n.behind = s.behind, n.at = s.at, n.failed = s.failed,
         n.ahead = P!BytesFrom(s.ahead, count)
  PROVE  /\ Agrees(n, b, apart)
         /\ apart => /\ Place(n) = Place(s) + Given(count, P!BytesFrom(b, Place(s)))
                     /\ SubSeq(s.ahead, 1, count)
                          = SubSeq(P!BytesFrom(b, Place(s)), 1, Given(count, P!BytesFrom(b, Place(s))))
<1> DEFINE a == s.ahead
           c == n.ahead
           place == Place(s)
           got == Given(count, P!BytesFrom(b, place))
<1>1. /\ s.behind = <<>> /\ s.at \in Nat /\ place \in Nat /\ place + Len(a) = s.at
      /\ apart => Follows(a, b, place)
  BY AheadIs
<1>2. a \in Bytes /\ n.at = s.at /\ c = P!BytesFrom(a, count) /\ n.behind = <<>> /\ ~n.writable /\ ~n.failed
  BY <1>1, StreamTyped
<1> HIDE DEF a, c, place
<1>3. /\ c \in Bytes /\ Len(c) \in Nat /\ Len(c) <= place + Len(a) /\ Len(a) \in Nat
      /\ Len(c) = (IF count < Len(a) THEN Len(a) - count ELSE 0)
      /\ Follows(a, b, place) /\ c # <<>> => Behind(c, b, place + Len(a))
  BY <1>1, <1>2, LeftIs
<1>4. count <= Len(a) /\ Len(c) = Len(a) - count
  BY <1>3 DEF a
<1>5. Agrees(n, b, apart)
  <2>1. n.ahead = c /\ Len(c) <= s.at /\ (Follows(a, b, place) /\ c # <<>> => Behind(c, b, s.at))
    BY <1>1, <1>3 DEF c
  <2> QED
    BY <1>1, <1>2, <2>1 DEF Agrees
<1>6. Place(n) = place + count
  <2>1. Len(<<>>) = 0
    OBVIOUS
  <2>2. Place(n) = s.at - Len(c) + 0
    BY <1>2, <2>1 DEF Place, c
  <2> QED
    BY <1>1, <1>3, <1>4, <2>2
<1>7. ASSUME apart PROVE got = count /\ SubSeq(a, 1, count) = SubSeq(P!BytesFrom(b, place), 1, got)
  <2>1. Follows(a, b, place) /\ ~(count > Len(a))
    BY <1>1, <1>3, <1>4, <1>7
  <2>2. got = (IF count <= Len(a) THEN count ELSE Len(a)) /\ First(a, count) = SubSeq(P!BytesFrom(b, place), 1, got)
    BY <1>1, <1>2, <2>1, GotIs
  <2> QED
    BY <1>4, <2>2 DEF First
<1> HIDE DEF got
<1> QED
  BY <1>5, <1>6, <1>7 DEF a, place, got

(* A read that has to fetch.                                               *)
LEMMA ReadFetched ==
  ASSUME NEW s \in Streams, NEW b \in Bytes, NEW apart, Agrees(s, b, apart),
         ~s.writable, ~s.failed, NEW count \in Nat,
         NEW fetched \in Nat, fetched <= Len(P!BytesFrom(b, s.at)),
         NEW all, all = Filled(s.ahead, b, s.at, fetched),
         fetched = Len(P!BytesFrom(b, s.at)) \/ count <= Len(all),
         NEW n \in Streams, n.writable = s.writable, n.behind = s.behind, n.at = s.at + fetched,
         n.failed <=> count > Len(all), n.ahead = P!BytesFrom(all, count)
  PROVE  /\ Agrees(n, b, apart)
         /\ apart => /\ Place(n) = Place(s) + Given(count, P!BytesFrom(b, Place(s)))
                     /\ First(all, count)
                          = SubSeq(P!BytesFrom(b, Place(s)), 1, Given(count, P!BytesFrom(b, Place(s))))
<1> DEFINE a == s.ahead
           at == s.at
           c == n.ahead
           place == Place(s)
           got == Given(count, P!BytesFrom(b, place))
<1>1. /\ s.behind = <<>> /\ at \in Nat /\ place \in Nat /\ place + Len(a) = at
      /\ apart => Follows(a, b, place)
  BY AheadIs
<1>2. /\ a \in Bytes /\ n.at = at + fetched /\ c = P!BytesFrom(all, count) /\ n.behind = <<>> /\ ~n.writable
      /\ fetched <= Len(P!BytesFrom(b, at)) /\ all = Filled(a, b, at, fetched)
      /\ fetched = Len(P!BytesFrom(b, at)) \/ count <= Len(all)
  BY <1>1, StreamTyped
<1> HIDE DEF a, at, c, place
<1>3. /\ all \in Bytes /\ Len(all) \in Nat /\ place + Len(all) = at + fetched
      /\ fetched = Len(P!BytesFrom(b, at)) => at + fetched >= Len(b)
      /\ Follows(a, b, place) => Follows(all, b, place)
  BY <1>1, <1>2, FetchIs
<1>4. /\ c \in Bytes /\ Len(c) \in Nat /\ Len(c) <= place + Len(all)
      /\ Len(c) = (IF count < Len(all) THEN Len(all) - count ELSE 0)
      /\ Follows(all, b, place) /\ c # <<>> => Behind(c, b, place + Len(all))
  BY <1>1, <1>2, <1>3, LeftIs
<1>5. count > Len(all) => c = <<>> /\ at + fetched >= Len(b)
  <2> SUFFICES ASSUME count > Len(all) PROVE c = <<>> /\ at + fetched >= Len(b)
    OBVIOUS
  <2>1. Len(c) = 0
    BY <1>3, <1>4
  <2>2. c = <<>>
    BY <1>4, <2>1, EmptySeq DEF Bytes
  <2>3. ~(count <= Len(all))
    BY <1>3
  <2> QED
    BY <1>2, <1>3, <2>2, <2>3
<1>6. Agrees(n, b, apart)
  <2>1. /\ n.ahead = c /\ Len(c) <= n.at /\ (Follows(all, b, place) /\ c # <<>> => Behind(c, b, n.at))
        /\ n.failed => c = <<>> /\ n.at >= Len(b)
    BY <1>2, <1>3, <1>4, <1>5 DEF c
  <2> QED
    BY <1>1, <1>2, <1>3, <2>1 DEF Agrees
<1>7. Place(n) = at + fetched - Len(c)
  <2>1. Len(<<>>) = 0
    OBVIOUS
  <2>2. Place(n) = at + fetched - Len(c) + 0
    BY <1>1, <1>2, <1>4, <2>1 DEF Place, c
  <2> QED
    BY <1>1, <1>4, <2>2
<1>8. ASSUME apart PROVE Place(n) = place + got /\ First(all, count) = SubSeq(P!BytesFrom(b, place), 1, got)
  <2>1. Follows(all, b, place) /\ (count > Len(all) => place + Len(all) >= Len(b))
    BY <1>1, <1>3, <1>5, <1>8
  <2>2. /\ got = IF count <= Len(all) THEN count ELSE Len(all)
        /\ First(all, count) = SubSeq(P!BytesFrom(b, place), 1, got)
    BY <1>1, <1>3, <2>1, GotIs
  <2> HIDE DEF got
  <2>3. Place(n) = place + got
    <3> DEFINE la == Len(all)
               lc == Len(c)
    <3>1. /\ la \in Nat /\ place \in Nat /\ Place(n) = place + la - lc
          /\ lc = (IF count < la THEN la - count ELSE 0) /\ got = (IF count <= la THEN count ELSE la)
      BY <1>1, <1>3, <1>4, <1>7, <2>2
    <3> HIDE DEF la, lc
    <3>2. CASE count < la
      BY <3>1, <3>2
    <3>3. CASE ~(count < la)
      BY <3>1, <3>3
    <3> QED
      BY <3>2, <3>3
  <2> QED
    BY <2>2, <2>3
<1> HIDE DEF got
<1> QED
  BY <1>6, <1>8 DEF place, got

--------------------------------------------------------------------------------
(* One stream becomes another.                                             *)

(* What the disk has once a stream passed on what was written to it.       *)
FlushedOf(b, s) == IF s.behind = <<>> THEN b ELSE P!PutAt(b, s.at, s.behind)

(* One stream, h's, becomes n, and its file's bytes become b.              *)
Becomes(h, n, b) ==
  /\ n \in Streams /\ n.file = files[h].file /\ n.writable = files[h].writable
  /\ b \in Bytes /\ (~n.writable => b = disk[n.file]) /\ Agrees(n, b, n.file \notin mixed)
  /\ disk' = [disk EXCEPT ![n.file] = b] /\ files' = [files EXCEPT ![h] = n] /\ mixed' = mixed

(* What the invariant says of the stream of an open handle.                *)
LEMMA Known ==
  ASSUME VfsInv, NEW h \in DOMAIN files
  PROVE  /\ files[h] \in Streams /\ files[h].file \in Files /\ h \in Handles
         /\ disk \in [Files -> Bytes \cup {NoFile}] /\ files \in [DOMAIN files -> Streams]
         /\ disk[files[h].file] \in Bytes
         /\ Agrees(files[h], disk[files[h].file], files[h].file \notin mixed)
BY StreamTyped DEF VfsInv, Sound

(* A stream that becomes one that agrees keeps the invariant.              *)
LEMMA BecomesKeeps ==
  ASSUME VfsInv, NEW h \in DOMAIN files, NEW n, NEW b, Becomes(h, n, b)
  PROVE  VfsInv'
<1>1. Sound([disk EXCEPT ![n.file] = b], [files EXCEPT ![h] = n], mixed)
  BY UpdateSound DEF VfsInv, Becomes
<1> QED
  BY <1>1 DEF VfsInv, Becomes

(* A stream that agrees does when its failure is cleared.                  *)
LEMMA ClearedAgrees ==
  ASSUME NEW s \in Streams, NEW b, NEW apart, Agrees(s, b, apart)
  PROVE  /\ Cleared(s) \in Streams /\ Cleared(s).file = s.file /\ Cleared(s).writable = s.writable
         /\ Cleared(s).at = s.at /\ Cleared(s).ahead = s.ahead /\ Cleared(s).behind = s.behind
         /\ ~Cleared(s).failed /\ Agrees(Cleared(s), b, apart)
         /\ Place(Cleared(s)) = Place(s) /\ FlushedOf(b, Cleared(s)) = FlushedOf(b, s)
<1> DEFINE c == Cleared(s)
<1>1. /\ c \in Streams /\ c.file = s.file /\ c.writable = s.writable /\ c.at = s.at
      /\ c.ahead = s.ahead /\ c.behind = s.behind /\ ~c.failed
  BY DEF Cleared, Streams
<1> HIDE DEF c
<1>2. Agrees(c, b, apart)
  BY <1>1 DEF Agrees
<1>3. Place(c) = Place(s) /\ FlushedOf(b, c) = FlushedOf(b, s)
  BY <1>1 DEF Place, FlushedOf
<1> QED
  BY <1>1, <1>2, <1>3 DEF c

(* A stream that has nothing in its buffers agrees with any bytes.         *)
LEMMA EmptyAgrees ==
  ASSUME NEW s \in Streams, s.ahead = <<>>, s.behind = <<>>, ~s.failed, NEW b, NEW apart
  PROVE  Agrees(s, b, apart) /\ Place(s) = s.at /\ FlushedOf(b, s) = b
<1>1. Len(<<>>) = 0 /\ s.at \in Nat
  BY StreamTyped
<1>2. Place(s) = s.at
  BY <1>1 DEF Place
<1> QED
  BY <1>1, <1>2 DEF Agrees, FlushedOf

(* What a writer has written behind goes behind its place on the disk.     *)
LEMMA WriterIs ==
  ASSUME NEW s \in Streams, NEW b \in Bytes, NEW apart, Agrees(s, b, apart)
  PROVE  /\ FlushedOf(b, s) = P!PutAt(b, s.at, s.behind) /\ FlushedOf(b, s) \in Bytes
         /\ ~s.writable => FlushedOf(b, s) = b
         /\ s.writable => s.ahead = <<>> /\ ~s.failed /\ Place(s) = s.at + Len(s.behind)
         /\ Place(s) \in Nat
<1> DEFINE S == Data \cup {0}
<1>1. /\ s.at \in Nat /\ s.ahead \in Bytes /\ s.behind \in Bytes /\ s.behind \in Seq(S) /\ b \in Seq(S)
      /\ Len(s.ahead) \in Nat /\ Len(s.behind) \in Nat /\ Len(<<>>) = 0 /\ Len(s.ahead) <= s.at
  BY StreamTyped DEF Bytes, Agrees
<1>2. FlushedOf(b, s) = P!PutAt(b, s.at, s.behind)
  BY DEF FlushedOf, P!PutAt
<1>3. FlushedOf(b, s) \in Bytes
  <2>1. CASE s.behind = <<>>
    BY <2>1 DEF FlushedOf
  <2>2. CASE s.behind # <<>>
    <3>1. P!PutAt(b, s.at, s.behind) \in Seq(S)
      <4>1. 0 \in S
        OBVIOUS
      <4> HIDE DEF S
      <4> QED
        BY <1>1, <2>2, <4>1, PutIs
    <3> QED
      BY <1>2, <3>1 DEF Bytes
  <2> QED
    BY <2>1, <2>2
<1>4. ~s.writable => FlushedOf(b, s) = b
  BY DEF Agrees, FlushedOf
<1>5. s.writable => s.ahead = <<>> /\ ~s.failed
  BY DEF Agrees
<1>6. ASSUME s.writable PROVE Place(s) = s.at + Len(s.behind)
  <2>1. Len(s.ahead) = 0
    BY <1>1, <1>5, <1>6
  <2>2. Place(s) = s.at - 0 + Len(s.behind)
    BY <2>1 DEF Place
  <2> QED
    BY <1>1, <2>2
<1>7. Place(s) \in Nat
  BY <1>1 DEF Place
<1> QED
  BY <1>2, <1>3, <1>4, <1>5, <1>6, <1>7

(* 3Fh reads what follows the place, as if nothing were buffered.          *)
ReadsAt(h, n, count) ==
  LET b    == disk[files[h].file]
      rest == P!BytesFrom(b, Place(files[h]))
      got  == Given(count, rest)
  IN  Place(n) = Place(files[h]) + got /\ returned' = P!Ok(SubSeq(rest, 1, got))

(* A read is refused, or is one at the place: of a file that is not mixed  *)
(* it returns what the abstract file system returns.                       *)
LEMMA ReadIs ==
  ASSUME VfsInv, NEW h \in DOMAIN files, NEW count \in Nat, read(h, count)
  PROVE  \/ Refuse
         \/ /\ ~files[h].writable
            /\ \E n : /\ Becomes(h, n, disk[files[h].file])
                      /\ files[h].file \notin mixed => ReadsAt(h, n, count)
<1> DEFINE s == files[h]
           f == files[h].file
           b == disk[f]
           apart == f \notin mixed
           rest == P!BytesFrom(b, s.at)
           all(k) == Filled(s.ahead, b, s.at, k)
<1>1. /\ s \in Streams /\ f \in Files /\ b \in Bytes /\ Agrees(s, b, apart) /\ s.file = f
      /\ disk \in [Files -> Bytes \cup {NoFile}] /\ files \in [DOMAIN files -> Streams]
  BY Known
<1>2. /\ s.file \in Files /\ s.writable \in BOOLEAN /\ s.at \in Nat /\ s.ahead \in Bytes /\ s.behind \in Bytes
      /\ s.failed \in BOOLEAN /\ Len(s.ahead) \in Nat
  BY <1>1, StreamTyped
<1>3. [disk EXCEPT ![f] = b] = disk /\ [files EXCEPT ![h] = s] = files
  BY <1>1
<1>4. /\ UNCHANGED disk
      /\ \/ s.writable /\ Refuse
         \/ ~s.writable /\ s.failed /\ returned' = P!Ok(<<>>) /\ UNCHANGED <<files, mixed>>
         \/ /\ ~s.writable /\ ~s.failed /\ count <= Len(s.ahead)
            /\ returned' = P!Ok(SubSeq(s.ahead, 1, count))
            /\ files' = [files EXCEPT ![h] = [s EXCEPT !.ahead = P!BytesFrom(s.ahead, count)]] /\ UNCHANGED mixed
         \/ /\ ~s.writable /\ ~s.failed /\ count > Len(s.ahead)
            /\ \E k \in 0 .. Len(rest) :
                 /\ k = Len(rest) \/ count <= Len(all(k))
                 /\ returned' = P!Ok(First(all(k), count))
                 /\ files' = [files EXCEPT ![h] = [s EXCEPT !.ahead = P!BytesFrom(all(k), count), !.at = s.at + k,
                                                            !.failed = count > Len(all(k))]]
                 /\ UNCHANGED mixed
  BY Zenon DEF read, Filled, First, Update, FetchedTo
<1> DEFINE readsAt(n) == Place(n) = Place(s) + Given(count, P!BytesFrom(b, Place(s)))
                         /\ returned' = P!Ok(SubSeq(P!BytesFrom(b, Place(s)), 1,
                                                    Given(count, P!BytesFrom(b, Place(s)))))
<1>5. \A n : readsAt(n) => ReadsAt(h, n, count)
  BY DEF ReadsAt
<1>6. \A n : n \in Streams /\ n.file = f /\ n.writable = s.writable /\ Agrees(n, b, apart) /\ UNCHANGED <<disk, mixed>>
             /\ files' = [files EXCEPT ![h] = n] => Becomes(h, n, b)
  BY <1>1, <1>3 DEF Becomes
<1> DEFINE conclusion == ~s.writable /\ \E n : Becomes(h, n, b) /\ (apart => ReadsAt(h, n, count))
<1>7. CASE s.writable /\ Refuse
  BY <1>7
<1>8. ASSUME ~s.writable, s.failed, returned' = P!Ok(<<>>), UNCHANGED <<files, mixed>> PROVE conclusion
  <2>1. Becomes(h, s, b)
    BY <1>1, <1>3, <1>4, <1>6, <1>8
  <2>2. ASSUME apart PROVE readsAt(s)
    <3>1. s.ahead = <<>> /\ s.at >= Len(b) /\ s.behind = <<>>
      BY <1>1, <1>8, <2>2 DEF Agrees
    <3>2. Place(s) \in Nat /\ Place(s) + Len(s.ahead) = s.at
      BY <1>1, <1>8, AheadIs
    <3>3. Place(s) = s.at /\ Place(s) \in Nat
      BY <3>1, <3>2
    <3> DEFINE want == P!BytesFrom(b, Place(s))
    <3>4. want \in Bytes /\ Len(want) = 0
      <4>1. Len(b) \in Nat
        BY <1>1 DEF Bytes
      <4> QED
        BY <1>1, <3>1, <3>3, <4>1, RestTyped
    <3> HIDE DEF want
    <3>5. want = <<>>
      BY <3>4, EmptySeq DEF Bytes
    <3>6. Given(count, want) = 0 /\ SubSeq(want, 1, 0) = <<>>
      BY <3>4, <3>5 DEF Given
    <3>7. Place(s) = Place(s) + 0
      BY <3>3
    <3> QED
      BY <1>8, <3>6, <3>7 DEF want
  <2> QED
    BY <1>5, <1>8, <2>1, <2>2
<1>9. ASSUME ~s.writable, ~s.failed, count <= Len(s.ahead), returned' = P!Ok(SubSeq(s.ahead, 1, count)),
             NEW n, n = [s EXCEPT !.ahead = P!BytesFrom(s.ahead, count)],
             files' = [files EXCEPT ![h] = n], UNCHANGED mixed
      PROVE  conclusion
  <2>1. P!BytesFrom(s.ahead, count) \in Bytes
    BY <1>2, RestTyped
  <2>2. /\ n \in Streams /\ n.file = f /\ n.writable = s.writable /\ n.behind = s.behind /\ n.at = s.at
        /\ n.failed = s.failed /\ n.ahead = P!BytesFrom(s.ahead, count)
    BY <1>1, <1>9, <2>1 DEF Streams
  <2>3. /\ Agrees(n, b, apart)
        /\ apart => /\ Place(n) = Place(s) + Given(count, P!BytesFrom(b, Place(s)))
                    /\ SubSeq(s.ahead, 1, count)
                         = SubSeq(P!BytesFrom(b, Place(s)), 1, Given(count, P!BytesFrom(b, Place(s))))
    <3> HIDE DEF s, b, apart, f
    <3> QED
      BY <1>1, <1>9, <2>2, ReadBuffered
  <2>4. Becomes(h, n, b)
    BY <1>4, <1>6, <1>9, <2>2, <2>3
  <2>5. apart => readsAt(n)
    BY <1>9, <2>3
  <2> QED
    BY <1>5, <1>9, <2>4, <2>5
<1>10. ASSUME ~s.writable, ~s.failed, NEW k \in 0 .. Len(rest), k = Len(rest) \/ count <= Len(all(k)),
              returned' = P!Ok(First(all(k), count)),
              NEW n, n = [s EXCEPT !.ahead = P!BytesFrom(all(k), count), !.at = s.at + k,
                                   !.failed = count > Len(all(k))],
              files' = [files EXCEPT ![h] = n], UNCHANGED mixed
       PROVE  conclusion
  <2>1. Len(rest) \in Nat
    BY <1>1, <1>2, RestTyped
  <2>2. k \in Nat /\ k <= Len(rest)
    BY <1>10, <2>1
  <2>3. all(k) \in Bytes
    <3>1. Place(s) \in Nat /\ Place(s) + Len(s.ahead) = s.at
      BY <1>1, <1>10, AheadIs
    <3> QED
      BY <1>1, <1>2, <2>2, <3>1, FetchIs
  <2> DEFINE c == P!BytesFrom(all(k), count)
             w == count > Len(all(k))
             p == s.at + k
  <2>4. c \in Bytes /\ w \in BOOLEAN /\ p \in Nat
    BY <1>2, <2>2, <2>3, RestTyped
  <2>5. n = [s EXCEPT !.ahead = c, !.at = p, !.failed = w]
    BY <1>10
  <2> HIDE DEF c, w, p
  <2>6. /\ n \in Streams /\ n.file = f /\ n.writable = s.writable /\ n.behind = s.behind /\ n.at = p
        /\ n.failed = w /\ n.ahead = c
    BY <1>1, <2>4, <2>5 DEF Streams
  <2>7. n.at = s.at + k /\ (n.failed <=> count > Len(all(k))) /\ n.ahead = P!BytesFrom(all(k), count)
    BY <2>6 DEF c, w, p
  <2>8. /\ Agrees(n, b, apart)
        /\ apart => /\ Place(n) = Place(s) + Given(count, P!BytesFrom(b, Place(s)))
                    /\ First(all(k), count)
                         = SubSeq(P!BytesFrom(b, Place(s)), 1, Given(count, P!BytesFrom(b, Place(s))))
    <3> DEFINE x == all(k)
    <3>1. /\ x = Filled(s.ahead, b, s.at, k) /\ (k = Len(P!BytesFrom(b, s.at)) \/ count <= Len(x))
          /\ n.ahead = P!BytesFrom(x, count) /\ (n.failed <=> count > Len(x)) /\ k <= Len(P!BytesFrom(b, s.at))
          /\ ~s.writable /\ ~s.failed /\ n \in Streams /\ n.writable = s.writable /\ n.behind = s.behind
          /\ n.at = s.at + k
      BY <1>10, <2>2, <2>6, <2>7
    <3> HIDE DEF s, b, apart, f, x
    <3>2. /\ Agrees(n, b, apart)
          /\ apart => /\ Place(n) = Place(s) + Given(count, P!BytesFrom(b, Place(s)))
                      /\ First(x, count)
                           = SubSeq(P!BytesFrom(b, Place(s)), 1, Given(count, P!BytesFrom(b, Place(s))))
      BY <1>1, <2>2, <3>1, ReadFetched
    <3> QED
      BY <3>2 DEF x
  <2>9. Becomes(h, n, b)
    BY <1>4, <1>6, <1>10, <2>6, <2>8
  <2>10. apart => readsAt(n)
    BY <1>10, <2>8
  <2> QED
    BY <1>5, <1>10, <2>9, <2>10
<1> QED
  BY <1>4, <1>7, <1>8, <1>9, <1>10

(* What a stream has written behind and what it writes then go where the   *)
(* one goes, then the other.                                               *)
LEMMA WrittenBehind ==
  ASSUME NEW s \in Streams, NEW b \in Bytes, NEW apart, Agrees(s, b, apart), s.writable,
         NEW data \in Bytes
  PROVE  /\ s.behind \o data \in Bytes /\ Len(s.behind \o data) = Len(s.behind) + Len(data)
         /\ Len(data) \in Nat
         /\ P!PutAt(b, s.at, s.behind \o data) = P!PutAt(FlushedOf(b, s), Place(s), data)
<1> DEFINE S == Data \cup {0}
<1>1. /\ s.behind \in Seq(S) /\ data \in Seq(S) /\ b \in Seq(S) /\ s.at \in Nat /\ 0 \in S
      /\ Len(s.behind) \in Nat /\ Len(data) \in Nat
  BY StreamTyped DEF Bytes
<1>2. FlushedOf(b, s) = P!PutAt(b, s.at, s.behind) /\ Place(s) = s.at + Len(s.behind)
  BY WriterIs
<1> HIDE DEF S
<1>3. P!PutAt(P!PutAt(b, s.at, s.behind), s.at + Len(s.behind), data) = P!PutAt(b, s.at, s.behind \o data)
  <2> DEFINE k == s.behind
             at == s.at
  <2>1. k \in Seq(S) /\ at \in Nat /\ data \in Seq(S) /\ b \in Seq(S) /\ 0 \in S
    BY <1>1
  <2> HIDE DEF k, at
  <2>2. P!PutAt(P!PutAt(b, at, k), at + Len(k), data) = P!PutAt(b, at, k \o data)
    BY <2>1, PutTwice
  <2> QED
    BY <2>2 DEF k, at
<1>4. s.behind \o data \in Seq(S) /\ Len(s.behind \o data) = Len(s.behind) + Len(data)
  BY <1>1, ConcatProperties
<1> QED
  BY <1>1, <1>2, <1>3, <1>4 DEF Bytes, S

(* 40h writes at the place, as if nothing were buffered.                   *)
LEMMA WriteIs ==
  ASSUME VfsInv, NEW h \in DOMAIN files, NEW data \in Bytes, write(h, data)
  PROVE  \/ Refuse
         \/ /\ files[h].writable /\ returned' = P!Ok(<<Len(data)>>)
            /\ \E n, b : /\ Becomes(h, n, b) /\ Place(n) = Place(files[h]) + Len(data)
                         /\ FlushedOf(b, n) = P!PutAt(FlushedOf(disk[files[h].file], files[h]),
                                                      Place(files[h]), data)
<1> DEFINE s == files[h]
           f == files[h].file
           d == disk[f]
           apart == f \notin mixed
           k == s.behind \o data
           m == [s EXCEPT !.behind = s.behind \o data]
           n == [m EXCEPT !.at = Place(m), !.behind = <<>>]
           e == FlushedOf(d, m)
<1>1. /\ s \in Streams /\ f \in Files /\ d \in Bytes /\ Agrees(s, d, apart) /\ s.file = f
      /\ disk \in [Files -> Bytes \cup {NoFile}] /\ files \in [DOMAIN files -> Streams]
  BY Known
<1>2. /\ s.writable \in BOOLEAN /\ s.at \in Nat /\ s.ahead \in Bytes /\ s.behind \in Bytes
      /\ Len(s.behind) \in Nat
  BY <1>1, StreamTyped
<1>3. [disk EXCEPT ![f] = d] = disk
  BY <1>1
<1>0. \/ ~m.writable /\ Refuse
      \/ /\ m.writable /\ returned' = P!Ok(<<Len(data)>>) /\ UNCHANGED mixed
         /\ \/ files' = [files EXCEPT ![h] = m] /\ UNCHANGED disk
            \/ disk' = [disk EXCEPT ![m.file] = e] /\ files' = [files EXCEPT ![h] = n]
  <2>1. m.file = f
    BY <1>1 DEF Streams
  <2>2. Flushed(m.file, m) = e
    <3> HIDE DEF m
    <3> QED
      BY <2>1 DEF Flushed, FlushedOf
  <2> QED
    BY <2>2, Zenon DEF write, Update
<1>4. \/ ~s.writable /\ Refuse
      \/ /\ s.writable /\ returned' = P!Ok(<<Len(data)>>) /\ UNCHANGED mixed
         /\ \/ files' = [files EXCEPT ![h] = m] /\ UNCHANGED disk
            \/ disk' = [disk EXCEPT ![m.file] = e] /\ files' = [files EXCEPT ![h] = n]
  <2>1. m.writable = s.writable
    BY <1>1 DEF Streams
  <2> HIDE DEF m, n, e
  <2> QED
    BY <1>0, <2>1
<1>5. CASE ~s.writable /\ Refuse
  BY <1>5
<1>6. CASE s.writable /\ returned' = P!Ok(<<Len(data)>>) /\ UNCHANGED mixed
           /\ \/ files' = [files EXCEPT ![h] = m] /\ UNCHANGED disk
              \/ disk' = [disk EXCEPT ![m.file] = e] /\ files' = [files EXCEPT ![h] = n]
  <2>1. /\ k \in Bytes /\ Len(k) = Len(s.behind) + Len(data) /\ Len(data) \in Nat
        /\ P!PutAt(d, s.at, k) = P!PutAt(FlushedOf(d, s), Place(s), data)
    <3> HIDE DEF s, d, f, apart
    <3> QED
      BY <1>1, <1>6, WrittenBehind
  <2>2. s.ahead = <<>> /\ ~s.failed /\ Place(s) = s.at + Len(s.behind) /\ Place(s) \in Nat
    <3> HIDE DEF s, d, f, apart
    <3> QED
      BY <1>1, <1>6, WriterIs
  <2>3. m = [s EXCEPT !.behind = k]
    OBVIOUS
  <2> HIDE DEF k, m
  <2>4. /\ m \in Streams /\ m.file = f /\ m.writable = s.writable /\ m.ahead = <<>> /\ m.behind = k
        /\ m.at = s.at /\ ~m.failed
    BY <1>1, <2>1, <2>2, <2>3 DEF Streams
  <2>5. Agrees(m, d, apart)
    <3>1. Len(<<>>) = 0
      OBVIOUS
    <3> QED
      BY <1>2, <1>6, <2>4, <3>1 DEF Agrees
  <2>6. FlushedOf(d, m) = P!PutAt(d, s.at, k) /\ Place(m) = s.at + Len(k) /\ Place(m) \in Nat /\ e \in Bytes
    <3> HIDE DEF s, d, f, apart
    <3> QED
      BY <1>1, <1>6, <2>4, <2>5, WriterIs
  <2>7. Place(m) = Place(s) + Len(data)
    BY <1>2, <2>1, <2>2, <2>6
  <2>8. ASSUME files' = [files EXCEPT ![h] = m], UNCHANGED disk
        PROVE  Becomes(h, m, d)
    BY <1>1, <1>3, <1>6, <2>4, <2>5, <2>8 DEF Becomes
  <2>9. ASSUME disk' = [disk EXCEPT ![m.file] = e], files' = [files EXCEPT ![h] = n]
        PROVE  Becomes(h, n, e) /\ FlushedOf(e, n) = e /\ Place(n) = Place(m)
    <3> DEFINE p == Place(m)
    <3>1. n = [m EXCEPT !.at = p, !.behind = <<>>] /\ p \in Nat /\ <<>> \in Bytes
      BY <2>6 DEF Bytes
    <3> HIDE DEF p, n
    <3>2. /\ n \in Streams /\ n.file = f /\ n.writable = s.writable /\ n.ahead = <<>> /\ n.behind = <<>>
          /\ n.at = p /\ ~n.failed
      BY <2>4, <3>1 DEF Streams
    <3>3. Agrees(n, e, apart) /\ Place(n) = n.at /\ FlushedOf(e, n) = e
      <4> HIDE DEF s, d, f, apart, e
      <4> QED
        BY <3>2, EmptyAgrees
    <3>4. Becomes(h, n, e)
      <4> HIDE DEF e
      <4> QED
        BY <1>1, <1>6, <2>4, <2>6, <2>9, <3>2, <3>3 DEF Becomes
    <3> QED
      BY <3>2, <3>3, <3>4 DEF p
  <2>10. \/ files' = [files EXCEPT ![h] = m] /\ UNCHANGED disk
         \/ disk' = [disk EXCEPT ![m.file] = e] /\ files' = [files EXCEPT ![h] = n]
    BY <1>6 DEF k, m
  <2>11. CASE files' = [files EXCEPT ![h] = m] /\ UNCHANGED disk
    BY <1>6, <2>1, <2>6, <2>7, <2>8, <2>11
  <2>12. CASE disk' = [disk EXCEPT ![m.file] = e] /\ files' = [files EXCEPT ![h] = n]
    <3>1. Becomes(h, n, e) /\ FlushedOf(e, n) = P!PutAt(FlushedOf(d, s), Place(s), data)
          /\ Place(n) = Place(s) + Len(data)
      BY <2>1, <2>6, <2>7, <2>9, <2>12
    <3> QED
      BY <1>6, <3>1
  <2> QED
    BY <2>10, <2>11, <2>12
<1> QED
  BY <1>4, <1>5, <1>6

(* 42h goes to the target, or stays where it is when the host refuses.     *)
SeekTarget(h, offset, origin) ==
  offset + (CASE origin = 0 -> 0 [] origin = 1 -> Place(files[h])
              [] origin = 2 -> Len(FlushedOf(disk[files[h].file], files[h])))

(* A seek is one to the target, whichever buffers it drops.                *)
LEMMA SeekIs ==
  ASSUME VfsInv, NEW h \in DOMAIN files, NEW offset \in Int, NEW origin \in 0 .. 2, seek(h, offset, origin)
  PROVE  /\ returned' = IF 0 <= SeekTarget(h, offset, origin) /\ SeekTarget(h, offset, origin) <= MaxPosition
                        THEN P!Ok(<<SeekTarget(h, offset, origin)>>) ELSE P!Refused
         /\ SeekTarget(h, offset, origin) \in Int
         /\ \E n, b : /\ Becomes(h, n, b) /\ FlushedOf(b, n) = FlushedOf(disk[files[h].file], files[h])
                      /\ Place(n) = IF SeekTarget(h, offset, origin) >= 0
                                    THEN SeekTarget(h, offset, origin) ELSE Place(files[h])
<1> DEFINE s == Cleared(files[h])
           f == files[h].file
           d == disk[f]
           apart == f \notin mixed
           moves == ~(origin = 1 /\ offset = 0)
           e == FlushedOf(d, s)
           b == IF moves THEN Flushed(s.file, s) ELSE disk[s.file]
           target == offset + (CASE origin = 0 -> 0 [] origin = 1 -> Place(s) [] origin = 2 -> Len(b))
           n == IF ~moves THEN s
                ELSE IF target >= 0 THEN [s EXCEPT !.at = target, !.ahead = <<>>, !.behind = <<>>]
                ELSE IF s.writable THEN [s EXCEPT !.at = Place(s), !.behind = <<>>] ELSE s
<1>1. /\ files[h] \in Streams /\ f \in Files /\ d \in Bytes /\ Agrees(files[h], d, apart)
      /\ disk \in [Files -> Bytes \cup {NoFile}] /\ files \in [DOMAIN files -> Streams]
  BY Known
<1>2. /\ s \in Streams /\ s.file = f /\ s.writable = files[h].writable /\ ~s.failed /\ Agrees(s, d, apart)
      /\ Place(s) = Place(files[h]) /\ e = FlushedOf(d, files[h])
  <2> HIDE DEF d, apart
  <2> QED
    BY <1>1, ClearedAgrees
<1>3. /\ disk' = [disk EXCEPT ![s.file] = b]
      /\ returned' = (IF 0 <= target /\ target <= MaxPosition THEN P!Ok(<<target>>) ELSE P!Refused)
      /\ files' = [files EXCEPT ![h] = n] /\ UNCHANGED mixed
  BY Zenon DEF seek, Update
<1>b. b = IF moves THEN e ELSE d
  BY <1>2 DEF Flushed, FlushedOf
<1> HIDE DEF b
<1>4. /\ e \in Bytes /\ (~s.writable => e = d) /\ Place(s) \in Nat /\ Len(e) \in Nat
      /\ s.writable => s.ahead = <<>>
  <2>1. /\ e \in Bytes /\ (~s.writable => e = d) /\ Place(s) \in Nat
        /\ s.writable => s.ahead = <<>>
    <3> HIDE DEF s, d, apart
    <3> QED
      BY <1>1, <1>2, WriterIs
  <2> QED
    BY <2>1 DEF Bytes
<1>5. target = SeekTarget(h, offset, origin) /\ target \in Int /\ (~moves => target = Place(s))
  <2>1. origin = 0 \/ origin = 1 \/ origin = 2
    OBVIOUS
  <2> HIDE DEF s, e
  <2>2. CASE origin = 0
    BY <1>2, <2>2 DEF SeekTarget
  <2>3. CASE origin = 1
    BY <1>2, <1>4, <2>3 DEF SeekTarget
  <2>4. CASE origin = 2
    <3>1. b = e /\ moves
      BY <1>b, <2>4
    <3> QED
      BY <1>2, <1>4, <2>4, <3>1 DEF SeekTarget
  <2> QED
    BY <2>1, <2>2, <2>3, <2>4
<1> HIDE DEF target
<1>6. ASSUME NEW m, files' = [files EXCEPT ![h] = m], m \in Streams, m.file = f, m.writable = s.writable,
             Agrees(m, b, apart)
      PROVE  Becomes(h, m, b)
  <2>1. b \in Bytes /\ (~s.writable => b = d)
    BY <1>1, <1>4, <1>b
  <2> HIDE DEF s
  <2> QED
    BY <1>2, <1>3, <1>6, <2>1 DEF Becomes
<1>7. CASE ~moves
  <2>1. n = s /\ b = d
    BY <1>7, <1>b
  <2>2. FlushedOf(b, s) = e /\ Place(s) = target /\ target >= 0 /\ Agrees(s, b, apart)
    BY <1>2, <1>4, <1>5, <1>7, <2>1
  <2>3. Becomes(h, s, b)
    BY <1>2, <1>3, <1>6, <2>1, <2>2
  <2> QED
    BY <1>2, <1>3, <1>5, <2>2, <2>3
<1>8. CASE moves /\ target >= 0
  <2> DEFINE m == [s EXCEPT !.at = target, !.ahead = <<>>, !.behind = <<>>]
  <2>1. n = m /\ b = e
    BY <1>8, <1>b
  <2>2. /\ m \in Streams /\ m.file = f /\ m.writable = s.writable /\ m.ahead = <<>> /\ m.behind = <<>>
        /\ m.at = target /\ ~m.failed
    <3>1. <<>> \in Bytes /\ target \in Nat
      BY <1>5, <1>8 DEF Bytes
    <3> HIDE DEF s
    <3> QED
      BY <1>2, <3>1 DEF Streams
  <2> HIDE DEF m
  <2>3. Agrees(m, b, apart) /\ Place(m) = target /\ FlushedOf(b, m) = b
    <3> HIDE DEF apart
    <3> QED
      BY <2>2, EmptyAgrees
  <2>4. Becomes(h, m, b)
    BY <1>3, <1>6, <2>1, <2>2, <2>3
  <2> QED
    BY <1>2, <1>3, <1>5, <1>8, <2>1, <2>3, <2>4
<1>9. CASE moves /\ ~(target >= 0) /\ s.writable
  <2> DEFINE p == Place(s)
             m == [s EXCEPT !.at = p, !.behind = <<>>]
  <2>1. n = m /\ b = e
    BY <1>9, <1>b
  <2>2. /\ m \in Streams /\ m.file = f /\ m.writable = s.writable /\ m.ahead = <<>> /\ m.behind = <<>>
        /\ m.at = p /\ ~m.failed
    <3>1. <<>> \in Bytes /\ p \in Nat
      BY <1>4 DEF Bytes
    <3> HIDE DEF s, p
    <3> QED
      BY <1>2, <1>4, <1>9, <3>1 DEF Streams
  <2> HIDE DEF m
  <2>3. Agrees(m, b, apart) /\ Place(m) = p /\ FlushedOf(b, m) = b
    <3> HIDE DEF apart
    <3> QED
      BY <2>2, EmptyAgrees
  <2>4. Becomes(h, m, b)
    BY <1>3, <1>6, <2>1, <2>2, <2>3
  <2> QED
    BY <1>2, <1>3, <1>5, <1>9, <2>1, <2>3, <2>4
<1>10. CASE moves /\ ~(target >= 0) /\ ~s.writable
  <2>1. n = s /\ b = e /\ b = d
    BY <1>4, <1>10, <1>b
  <2>2. FlushedOf(b, s) = e /\ Agrees(s, b, apart)
    BY <1>2, <2>1
  <2>3. Becomes(h, s, b)
    BY <1>2, <1>3, <1>6, <2>1, <2>2
  <2> QED
    BY <1>2, <1>3, <1>5, <1>10, <2>2, <2>3
<1> QED
  BY <1>7, <1>8, <1>9, <1>10

--------------------------------------------------------------------------------
(* The invariant is kept.                                                  *)

(* A set of numbers has a least member.                                    *)
LEMMA LeastNat ==
  ASSUME NEW S \in SUBSET Nat, S # {}
  PROVE  \E n \in S : \A m \in S : n <= m
<1> DEFINE R == OpToRel(<, Nat)
<1>1. PICK n \in S : \A m \in S : ~ (<<m, n>> \in R)
  <2>1. IsWellFoundedOn(R, Nat)
    BY NatLessThanWellFounded
  <2> HIDE DEF R
  <2> QED
    BY <2>1, WFMin
<1>2. ASSUME NEW m \in S PROVE n <= m
  <2>1. ~(<<m, n>> \in {ss \in Nat \X Nat : ss[1] < ss[2]})
    BY <1>1 DEF OpToRel
  <2> QED
    BY <2>1
<1> QED
  BY <1>1, <1>2

(* The lowest free handle is one, when there is one.                       *)
LEMMA LowestFreeIs ==
  ASSUME NEW T, ~(Handles \subseteq T)
  PROVE  LowestFree(T) \in Handles \ T
<1> DEFINE F == Handles \ T
<1>1. F # {} /\ F \in SUBSET Nat
  BY HandleAssumption DEF Handles
<1>2. \E n \in F : \A m \in F : n <= m
  BY <1>1, LeastNat
<1> QED
  BY <1>2 DEF LowestFree

(* The invariant holds at the start.                                       *)
LEMMA VfsStart == FilesInit => VfsInv
<1> SUFFICES ASSUME FilesInit PROVE VfsInv
  OBVIOUS
<1>1. DOMAIN files = {} /\ files \in [DOMAIN files -> Streams]
  BY DEF FilesInit
<1>2. disk \in [Files -> Bytes \cup {NoFile}]
  <2>1. \A x \in Data : <<x>> \in Bytes
    BY DEF Bytes
  <2> QED
    BY <2>1 DEF FilesInit
<1>3. Shared(files) \subseteq mixed
  BY <1>1 DEF Shared, Holders
<1> QED
  BY <1>1, <1>2, <1>3 DEF VfsInv, Sound

(* A handle more, or one less.                                             *)
LEMMA EmplaceKeeps ==
  ASSUME VfsInv, NEW f \in Files, NEW w \in BOOLEAN, ~(Handles \subseteq DOMAIN files), Emplace(f, w),
         NEW b \in Bytes, ~w => b = disk[f], disk' = [disk EXCEPT ![f] = b]
  PROVE  VfsInv'
<1> DEFINE h == LowestFree(DOMAIN files)
<1>1. h \in Handles \ DOMAIN files
  BY LowestFreeIs
<1>2. /\ files' = [g \in DOMAIN files \cup {h} |-> IF g = h THEN Stream(f, w) ELSE files[g]]
      /\ mixed' = MixedOf(mixed, {}, files')
  BY DEF Emplace, Mixing, MixedOf
<1>3. disk \in [Files -> Bytes \cup {NoFile}]
  BY DEF VfsInv, Sound
<1>4. /\ disk' \in [Files -> Bytes \cup {NoFile}] /\ disk'[f] = b
      /\ \A x \in Files : x # f => disk'[x] = disk[x]
  BY <1>3
<1> HIDE DEF h
<1>5. Sound(disk', files', MixedOf(mixed, {}, files'))
  <2> DEFINE e == disk'
             u == files'
  <2>1. /\ Sound(disk, files, mixed) /\ e \in [Files -> Bytes \cup {NoFile}] /\ e[f] \in Bytes
        /\ (\A x \in Files : x # f => e[x] = disk[x]) /\ (~w => e[f] = disk[f])
        /\ u = [g \in DOMAIN files \cup {h} |-> IF g = h THEN Stream(f, w) ELSE files[g]]
    BY <1>2, <1>4 DEF VfsInv
  <2> HIDE DEF e, u
  <2>2. Sound(e, u, MixedOf(mixed, {}, u))
    BY <1>1, <2>1, EmplaceSound
  <2> QED
    BY <2>2 DEF e, u
<1>6. Sound(disk', files', mixed')
  BY <1>2, <1>5
<1> QED
  BY <1>6 DEF VfsInv

(* What an open call does: nothing, or one handle more; a create may       *)
(* empty the file without giving a handle.                                 *)
LEMMA OpenIs ==
  ASSUME VfsInv, NEW f \in Files
  PROVE  /\ open_read(f) => \/ Refuse
                            \/ /\ disk[f] \in Bytes /\ ~(Handles \subseteq DOMAIN files) /\ Emplace(f, FALSE)
                               /\ disk' = disk /\ disk = [disk EXCEPT ![f] = disk[f]]
         /\ open_write(f) => /\ disk' = [disk EXCEPT ![f] = <<>>]
                             /\ \/ ~(Handles \subseteq DOMAIN files) /\ Emplace(f, TRUE)
                                \/ /\ Handles \subseteq DOMAIN files /\ returned' = P!Refused /\ files' = files
                                   /\ mixed' = MixedOf(mixed, {f}, files)
<1>1. disk \in [Files -> Bytes \cup {NoFile}]
  BY DEF VfsInv, Sound
<1>2. open_read(f) => \/ Refuse
                      \/ /\ disk[f] # NoFile /\ ~(Handles \subseteq DOMAIN files) /\ Emplace(f, FALSE)
                         /\ disk' = disk
  BY DEF open_read
<1>3. open_write(f) => /\ disk' = [disk EXCEPT ![f] = <<>>]
                       /\ \/ ~(Handles \subseteq DOMAIN files) /\ Emplace(f, TRUE)
                          \/ /\ Handles \subseteq DOMAIN files /\ returned' = P!Refused /\ files' = files
                             /\ mixed' = MixedOf(mixed, {f}, files)
  BY DEF open_write, Mixing, MixedOf
<1> QED
  BY <1>1, <1>2, <1>3

(* A close passes on what the stream has written behind, and drops the     *)
(* handle.                                                                 *)
LEMMA CloseIs ==
  ASSUME VfsInv, NEW h \in DOMAIN files, close(h)
  PROVE  /\ FlushedOf(disk[files[h].file], files[h]) \in Bytes
         /\ ~files[h].writable => FlushedOf(disk[files[h].file], files[h]) = disk[files[h].file]
         /\ disk' = [disk EXCEPT ![files[h].file] = FlushedOf(disk[files[h].file], files[h])]
         /\ files' = [g \in DOMAIN files \ {h} |-> files[g]]
         /\ mixed' = MixedOf(mixed, {}, files') /\ returned' = P!Ok(<<>>)
<1>1. /\ FlushedOf(disk[files[h].file], files[h]) \in Bytes
      /\ ~files[h].writable => FlushedOf(disk[files[h].file], files[h]) = disk[files[h].file]
  BY Known, WriterIs
<1>2. Final(h) = FlushedOf(disk[files[h].file], files[h])
  BY DEF Final, Flushed, FlushedOf
<1>3. /\ disk' = [disk EXCEPT ![files[h].file] = Final(h)]
      /\ files' = [g \in DOMAIN files \ {h} |-> files[g]]
      /\ mixed' = MixedOf(mixed, {}, files') /\ returned' = P!Ok(<<>>)
  BY DEF close, Mixing, MixedOf
<1> QED
  BY <1>1, <1>2, <1>3

(* A close keeps the invariant.                                            *)
LEMMA CloseKeeps ==
  ASSUME VfsInv, NEW h \in DOMAIN files, close(h)
  PROVE  VfsInv'
<1> DEFINE e == disk'
           u == files'
           b == FlushedOf(disk[files[h].file], files[h])
<1>1. /\ b \in Bytes /\ (~files[h].writable => b = disk[files[h].file])
      /\ e = [disk EXCEPT ![files[h].file] = b]
      /\ u = [g \in DOMAIN files \ {h} |-> files[g]]
      /\ mixed' = MixedOf(mixed, {}, u) /\ Sound(disk, files, mixed)
  BY CloseIs DEF VfsInv
<1> HIDE DEF e, u, b
<1>2. Sound(e, u, MixedOf(mixed, {}, u))
  BY <1>1, CloseSound
<1> QED
  BY <1>1, <1>2 DEF VfsInv, e, u

(* A create that finds the table full.                                     *)
LEMMA DisturbKeeps ==
  ASSUME VfsInv, NEW f \in Files, disk' = [disk EXCEPT ![f] = <<>>], files' = files,
         mixed' = MixedOf(mixed, {f}, files)
  PROVE  VfsInv'
<1>1. <<>> \in Bytes /\ Sound(disk, files, mixed)
  BY DEF Bytes, VfsInv
<1>2. Sound([disk EXCEPT ![f] = <<>>], files, MixedOf(mixed, {f}, files))
  BY <1>1, DisturbSound
<1> QED
  BY <1>2 DEF VfsInv

(* The steps, told apart.                                                  *)
LEMMA FileStep ==
  ASSUME [FilesNext]_fileVars
  PROVE  \/ Refuse \/ UNCHANGED fileVars
         \/ \E f \in Files : open_read(f) \/ open_write(f)
         \/ \E h \in DOMAIN files :
              \/ \E n \in Nat : n \in Counts /\ read(h, n)
              \/ \E d \in Bytes : d \in { <<>> } \cup { <<x>> : x \in Data } /\ write(h, d)
              \/ \E o \in Int, origin \in 0 .. 2 : o \in SeekOffsets /\ seek(h, o, origin)
              \/ close(h)
<1>1. Counts \subseteq Nat /\ SeekOffsets \subseteq Int
  BY FilesAssumption
<1>2. \A d \in { <<>> } \cup { <<x>> : x \in Data } : d \in Bytes
  <2>1. \A x \in Data : <<x>> \in Bytes
    BY DEF Bytes
  <2>2. <<>> \in Bytes
    BY DEF Bytes
  <2> QED
    BY <2>1, <2>2
<1>3. CASE UNCHANGED fileVars
  BY <1>3
<1>4. CASE FilesNext
  <2>1. CASE \E f \in Files : open_read(f) \/ open_write(f)
    BY <2>1
  <2>2. CASE open_fails \/ InvalidRequest
    BY <2>2 DEF open_fails, InvalidRequest
  <2>3. ASSUME NEW h \in DOMAIN files, NEW n \in Counts, read(h, n)
        PROVE  \E m \in Nat : m \in Counts /\ read(h, m)
    BY <1>1, <2>3
  <2>4. ASSUME NEW h \in DOMAIN files, NEW d \in { <<>> } \cup { <<x>> : x \in Data }, write(h, d)
        PROVE  \E c \in Bytes : c \in { <<>> } \cup { <<x>> : x \in Data } /\ write(h, c)
    <3>1. d \in Bytes
      BY <1>2, <2>4
    <3> QED
      BY <2>4, <3>1
  <2>5. ASSUME NEW h \in DOMAIN files, NEW o \in SeekOffsets, NEW origin \in 0 .. 2, seek(h, o, origin)
        PROVE  \E p \in Int, q \in 0 .. 2 : p \in SeekOffsets /\ seek(h, p, q)
    BY <1>1, <2>5
  <2>6. CASE \E h \in DOMAIN files :
               \/ \E n \in Counts : read(h, n)
               \/ \E d \in { <<>> } \cup { <<x>> : x \in Data } : write(h, d)
               \/ \E o \in SeekOffsets, origin \in 0 .. 2 : seek(h, o, origin)
               \/ close(h)
    <3>1. PICK h \in DOMAIN files :
               \/ \E n \in Counts : read(h, n)
               \/ \E d \in { <<>> } \cup { <<x>> : x \in Data } : write(h, d)
               \/ \E o \in SeekOffsets, origin \in 0 .. 2 : seek(h, o, origin)
               \/ close(h)
      BY <2>6
    <3>2. \/ \E n \in Nat : n \in Counts /\ read(h, n)
          \/ \E d \in Bytes : d \in { <<>> } \cup { <<x>> : x \in Data } /\ write(h, d)
          \/ \E o \in Int, origin \in 0 .. 2 : o \in SeekOffsets /\ seek(h, o, origin)
          \/ close(h)
      BY <2>3, <2>4, <2>5, <3>1
    <3> QED
      BY <3>2
  <2> QED
    BY <1>4, <2>1, <2>2, <2>6, Zenon DEF FilesNext
<1> QED
  BY <1>3, <1>4

(* Every step keeps the invariant.                                         *)
LEMMA VfsStep == VfsInv /\ [FilesNext]_fileVars => VfsInv'
<1> SUFFICES ASSUME VfsInv, [FilesNext]_fileVars PROVE VfsInv'
  OBVIOUS
<1>1. CASE Refuse \/ UNCHANGED fileVars
  BY <1>1 DEF Refuse, fileVars, VfsInv
<1>2. ASSUME NEW f \in Files, open_read(f) PROVE VfsInv'
  <2>1. CASE Refuse
    BY <1>1, <2>1
  <2>2. CASE disk[f] \in Bytes /\ ~(Handles \subseteq DOMAIN files) /\ Emplace(f, FALSE)
             /\ disk' = disk /\ disk = [disk EXCEPT ![f] = disk[f]]
    <3>1. disk' = [disk EXCEPT ![f] = disk[f]]
      BY <2>2
    <3> QED
      BY <2>2, <3>1, EmplaceKeeps
  <2> QED
    BY <1>2, <2>1, <2>2, OpenIs
<1>3. ASSUME NEW f \in Files, open_write(f) PROVE VfsInv'
  <2>1. CASE ~(Handles \subseteq DOMAIN files) /\ Emplace(f, TRUE) /\ disk' = [disk EXCEPT ![f] = <<>>]
    <3>1. <<>> \in Bytes
      BY DEF Bytes
    <3> QED
      BY <2>1, <3>1, EmplaceKeeps
  <2>2. CASE disk' = [disk EXCEPT ![f] = <<>>] /\ files' = files /\ mixed' = MixedOf(mixed, {f}, files)
    BY <2>2, DisturbKeeps
  <2> QED
    BY <1>3, <2>1, <2>2, OpenIs
<1>4. ASSUME NEW h \in DOMAIN files, NEW n \in Nat, read(h, n) PROVE VfsInv'
  BY <1>1, <1>4, ReadIs, BecomesKeeps
<1>5. ASSUME NEW h \in DOMAIN files, NEW d \in Bytes, write(h, d) PROVE VfsInv'
  BY <1>1, <1>5, WriteIs, BecomesKeeps
<1>6. ASSUME NEW h \in DOMAIN files, NEW o \in Int, NEW origin \in 0 .. 2, seek(h, o, origin) PROVE VfsInv'
  BY <1>6, SeekIs, BecomesKeeps
<1>7. ASSUME NEW h \in DOMAIN files, close(h) PROVE VfsInv'
  BY <1>7, CloseKeeps
<1> QED
  BY <1>1, <1>2, <1>3, <1>4, <1>5, <1>6, <1>7, FileStep

(* The inductive invariant is one.                                         *)
LEMMA VfsInvCorrect == FilesSpec => []VfsInv
  BY VfsStart, VfsStep, PTL DEF FilesSpec

(* It means that the buffers are true.                                     *)
LEMMA VfsMeans == VfsInv => StreamsAgree
<1> SUFFICES ASSUME VfsInv, NEW h \in DOMAIN files
             PROVE  /\ h \in Handles /\ disk[files[h].file] # NoFile
                    /\ Agrees(files[h], disk[files[h].file], files[h].file \notin mixed)
  BY DEF StreamsAgree, Agrees, Behind
<1> QED
  BY Known, NoFileIsNone

(* As long as no file is shared with a writer, the buffers of the streams  *)
(* are true, for any files, handles and calls: what an fstream of files_   *)
(* has read ahead is what the file has there, a failed one is at the end,  *)
(* nothing is written behind by a reader or read ahead by a writer, and    *)
(* every open file exists (open_read to close).                            *)
THEOREM StreamsAgreeCorrect == FilesSpec => []StreamsAgree
  BY VfsInvCorrect, VfsMeans, PTL

--------------------------------------------------------------------------------
(* The refinement: what a program sees.                                    *)

(* What a program sees of a file and of the handles, of a disk and a table.*)
WritersIn(t, f) == { h \in DOMAIN t : t[h].file = f /\ t[h].writable }
SeenOf(d, t, f) ==
  IF WritersIn(t, f) = {} THEN d[f] ELSE FlushedOf(d[f], t[CHOOSE h \in WritersIn(t, f) : TRUE])
ContentsOf(d, t) == [f \in Files |-> SeenOf(d, t, f)]
OpenOf(t) == [h \in DOMAIN t |-> [file |-> t[h].file, writable |-> t[h].writable, place |-> Place(t[h])]]

(* What the refinement substitutes for the variables of the promise.       *)
Contents == [f \in Files |-> Seen(f)]
Open == [h \in DOMAIN files |->
          [file |-> files[h].file, writable |-> files[h].writable, place |-> Place(files[h])]]

(* They are what the refinement shows of the state, before a step and      *)
(* after it.                                                               *)
LEMMA SeenNow ==
  /\ Contents = ContentsOf(disk, files) /\ Open = OpenOf(files)
  /\ Contents' = ContentsOf(disk', files') /\ Open' = OpenOf(files')
<1>1. Contents = ContentsOf(disk, files)
  BY DEF Contents, ContentsOf, Seen, SeenOf, Writers, WritersIn, Flushed, FlushedOf
<1>2. Contents' = ContentsOf(disk', files')
  BY DEF Contents, ContentsOf, Seen, SeenOf, Writers, WritersIn, Flushed, FlushedOf
<1> QED
  BY <1>1, <1>2 DEF Open, OpenOf

(* Of a file that is not mixed, every handle's stream says the same.       *)
LEMMA SeenIs ==
  ASSUME NEW d, NEW t, NEW mx, Sound(d, t, mx), NEW f \in Files, f \notin mx
  PROVE  /\ \A h \in DOMAIN t : t[h].file = f => SeenOf(d, t, f) = FlushedOf(d[f], t[h])
         /\ (\A h \in DOMAIN t : t[h].file # f) => SeenOf(d, t, f) = d[f]
<1>1. /\ t \in [DOMAIN t -> Streams] /\ Shared(t) \subseteq mx
      /\ \A h \in DOMAIN t : d[t[h].file] \in Bytes /\ Agrees(t[h], d[t[h].file], t[h].file \notin mx)
  BY DEF Sound
<1>2. ASSUME NEW h \in DOMAIN t, NEW g \in DOMAIN t, t[h].file = f, t[g].file = f, t[g].writable
      PROVE  h = g
  BY <1>1, <1>2, SharedIs
<1>3. ASSUME NEW h \in DOMAIN t, t[h].file = f PROVE SeenOf(d, t, f) = FlushedOf(d[f], t[h])
  <2>1. CASE WritersIn(t, f) = {}
    <3>1. ~t[h].writable /\ t[h] \in Streams /\ d[f] \in Bytes /\ Agrees(t[h], d[f], t[h].file \notin mx)
      BY <1>1, <1>3, <2>1 DEF WritersIn
    <3>2. FlushedOf(d[f], t[h]) = d[f]
      BY <3>1, WriterIs
    <3> QED
      BY <2>1, <3>2 DEF SeenOf
  <2>2. CASE WritersIn(t, f) # {}
    <3> DEFINE g == CHOOSE x \in WritersIn(t, f) : TRUE
    <3>1. g \in WritersIn(t, f)
      BY <2>2
    <3>2. SeenOf(d, t, f) = FlushedOf(d[f], t[g])
      BY <2>2 DEF SeenOf
    <3> HIDE DEF g
    <3>3. g = h
      BY <1>2, <1>3, <3>1 DEF WritersIn
    <3> QED
      BY <3>2, <3>3
  <2> QED
    BY <2>1, <2>2
<1>4. ASSUME \A h \in DOMAIN t : t[h].file # f PROVE SeenOf(d, t, f) = d[f]
  <2>1. WritersIn(t, f) = {}
    BY <1>4 DEF WritersIn
  <2> QED
    BY <2>1 DEF SeenOf
<1> QED
  BY <1>3, <1>4

(* A file whose bytes and whose streams do not change is seen the same.    *)
LEMMA SeenSame ==
  ASSUME NEW d, NEW t, NEW e, NEW u, NEW f, e[f] = d[f],
         \A g : /\ g \in DOMAIN t /\ t[g].file = f => g \in DOMAIN u /\ u[g] = t[g]
                /\ g \in DOMAIN u /\ u[g].file = f => g \in DOMAIN t /\ u[g] = t[g]
  PROVE  SeenOf(e, u, f) = SeenOf(d, t, f)
<1>1. WritersIn(u, f) = WritersIn(t, f)
  BY DEF WritersIn
<1>2. \A g \in WritersIn(t, f) : u[g] = t[g]
  BY DEF WritersIn
<1>3. CASE WritersIn(t, f) = {}
  BY <1>1, <1>3 DEF SeenOf
<1>4. CASE WritersIn(t, f) # {}
  <2> DEFINE g == CHOOSE x \in WritersIn(t, f) : TRUE
  <2>1. g \in WritersIn(t, f)
    BY <1>4
  <2>2. SeenOf(d, t, f) = FlushedOf(d[f], t[g]) /\ SeenOf(e, u, f) = FlushedOf(e[f], u[g])
    BY <1>1, <1>4 DEF SeenOf
  <2> HIDE DEF g
  <2> QED
    BY <1>2, <2>1, <2>2
<1> QED
  BY <1>3, <1>4

(* One stream changes: one file, and one handle's place.                   *)
LEMMA BecomesSeen ==
  ASSUME VfsInv, mixed = {}, NEW h \in DOMAIN files, NEW n, NEW b, Becomes(h, n, b)
  PROVE  /\ Contents[files[h].file] = FlushedOf(disk[files[h].file], files[h])
         /\ Contents' = [Contents EXCEPT ![files[h].file] = FlushedOf(b, n)]
         /\ Open' = [Open EXCEPT ![h].place = Place(n)]
         /\ DOMAIN Open = DOMAIN files /\ Open[h].file = files[h].file
         /\ Open[h].writable = files[h].writable /\ Open[h].place = Place(files[h])
<1> DEFINE f == files[h].file
           e == disk'
           u == files'
<1>1. /\ n \in Streams /\ n.file = f /\ n.writable = files[h].writable /\ b \in Bytes
      /\ e = [disk EXCEPT ![f] = b] /\ u = [files EXCEPT ![h] = n] /\ mixed' = {} /\ f \in Files
      /\ disk \in [Files -> Bytes \cup {NoFile}] /\ files \in [DOMAIN files -> Streams]
  BY Known DEF Becomes
<1>2. Sound(disk, files, {}) /\ Sound(e, u, {})
  <2>1. VfsInv'
    BY BecomesKeeps
  <2> QED
    BY <1>1, <2>1 DEF VfsInv
<1>3. /\ e[f] = b /\ (\A x \in Files : x # f => e[x] = disk[x]) /\ u[h] = n /\ DOMAIN u = DOMAIN files
      /\ \A g \in DOMAIN files : g # h => u[g] = files[g]
  BY <1>1
<1> HIDE DEF e, u
<1>4. SeenOf(disk, files, f) = FlushedOf(disk[f], files[h])
  BY <1>1, <1>2, SeenIs
<1>5. SeenOf(e, u, f) = FlushedOf(b, n)
  <2>1. h \in DOMAIN u /\ u[h].file = f /\ f \in Files /\ f \notin {}
    BY <1>1, <1>3
  <2>2. SeenOf(e, u, f) = FlushedOf(e[f], u[h])
    BY <1>2, <2>1, SeenIs
  <2> QED
    BY <1>3, <2>2
<1>6. ASSUME NEW x \in Files, x # f PROVE SeenOf(e, u, x) = SeenOf(disk, files, x)
  <2>1. e[x] = disk[x]
    BY <1>3, <1>6
  <2>2. \A g : /\ g \in DOMAIN files /\ files[g].file = x => g \in DOMAIN u /\ u[g] = files[g]
               /\ g \in DOMAIN u /\ u[g].file = x => g \in DOMAIN files /\ u[g] = files[g]
    BY <1>1, <1>3, <1>6
  <2> QED
    BY <2>1, <2>2, SeenSame
<1>7. ContentsOf(e, u) = [ContentsOf(disk, files) EXCEPT ![f] = FlushedOf(b, n)]
      /\ ContentsOf(disk, files)[f] = FlushedOf(disk[f], files[h])
  BY <1>1, <1>4, <1>5, <1>6 DEF ContentsOf
<1>8. OpenOf(u) = [OpenOf(files) EXCEPT ![h].place = Place(n)]
  BY <1>1, <1>3 DEF OpenOf
<1>9. /\ DOMAIN OpenOf(files) = DOMAIN files /\ OpenOf(files)[h].file = f
      /\ OpenOf(files)[h].writable = files[h].writable /\ OpenOf(files)[h].place = Place(files[h])
  BY DEF OpenOf
<1> QED
  BY <1>7, <1>8, <1>9, SeenNow DEF e, u

(* What writing nothing, moving nothing comes to.                          *)
LEMMA NothingChanges ==
  ASSUME VfsInv, NEW h \in DOMAIN files
  PROVE  /\ [Contents EXCEPT ![files[h].file] = Contents[files[h].file]] = Contents
         /\ [Open EXCEPT ![h].place = Place(files[h])] = Open
<1>1. [Contents EXCEPT ![files[h].file] = Contents[files[h].file]] = Contents
  BY Known DEF Contents
<1> DEFINE o == [Open EXCEPT ![h].place = Place(files[h])]
<1>2. DOMAIN Open = DOMAIN files /\ Open[h].place = Place(files[h])
  BY DEF Open
<1>3. \A g \in DOMAIN files : Open[g] = [file |-> files[g].file, writable |-> files[g].writable, place |-> Place(files[g])]
  BY DEF Open
<1>4. o = [g \in DOMAIN Open |-> IF g = h THEN [Open[g] EXCEPT !.place = Place(files[h])] ELSE Open[g]]
  OBVIOUS
<1>5. [Open[h] EXCEPT !.place = Place(files[h])] = Open[h]
  <2> DEFINE r == [file |-> files[h].file, writable |-> files[h].writable, place |-> Place(files[h])]
  <2>1. Open[h] = r
    BY <1>3
  <2>2. [r EXCEPT !.place = Place(files[h])] = r
    OBVIOUS
  <2> HIDE DEF r
  <2> QED
    BY <2>1, <2>2
<1>6. o = [g \in DOMAIN Open |-> Open[g]]
  BY <1>4, <1>5
<1>7. Open = [g \in DOMAIN Open |-> Open[g]]
  BY DEF Open
<1> QED
  BY <1>1, <1>6, <1>7

(* Every action of the promise, told of what a program sees.               *)
LEMMA DosRead ==
  ASSUME NEW h, NEW count,
         LET rest == P!BytesFrom(Contents[Open[h].file], Open[h].place)
             got  == Given(count, rest)
         IN  /\ ~Open[h].writable /\ returned' = P!Ok(SubSeq(rest, 1, got))
             /\ Open' = [Open EXCEPT ![h].place = Open[h].place + got] /\ Contents' = Contents
  PROVE  Dos!Read(h, count)
BY Zenon DEF Dos!Read, Open, Contents, Given, P!BytesFrom, Dos!BytesFrom, P!Ok, Dos!Ok

(* 40h of the promise.                                                     *)
LEMMA DosWrite ==
  ASSUME NEW h, NEW data, Open[h].writable,
         Contents' = [Contents EXCEPT ![Open[h].file] = P!PutAt(Contents[Open[h].file], Open[h].place, data)],
         Open' = [Open EXCEPT ![h].place = Open[h].place + Len(data)],
         returned' = P!Ok(<<Len(data)>>)
  PROVE  Dos!Write(h, data)
BY Zenon DEF Dos!Write, Open, Contents, P!PutAt, Dos!PutAt, P!Ok, Dos!Ok

(* Where a seek of the promise counts from.                                *)
From(origin, place, bytes) == CASE origin = 0 -> 0 [] origin = 1 -> place [] origin = 2 -> Len(bytes)

(* 42h of the promise.                                                     *)
LEMMA DosSeek ==
  ASSUME NEW h, NEW offset, NEW origin, NEW place,
         place = offset + From(origin, Open[h].place, Contents[Open[h].file]),
         place >= 0, Open' = [Open EXCEPT ![h].place = place], Contents' = Contents,
         returned' = IF place <= MaxPosition THEN P!Ok(<<place>>) ELSE P!Refused
  PROVE  Dos!Seek(h, offset, origin)
BY Zenon DEF Dos!Seek, From, Open, Contents, P!Ok, Dos!Ok, P!Refused, Dos!Refused

(* 3Eh of the promise.                                                     *)
LEMMA DosClose ==
  ASSUME NEW h, Open' = [g \in DOMAIN Open \ {h} |-> Open[g]], Contents' = Contents, returned' = P!Ok(<<>>)
  PROVE  Dos!Close(h)
BY Zenon DEF Dos!Close, Open, Contents, P!Ok, Dos!Ok

(* A refused call of the promise.                                          *)
LEMMA DosRefuse ==
  ASSUME Open' = Open, Contents' = Contents, returned' = P!Refused
  PROVE  Dos!Refuse
BY Zenon DEF Dos!Refuse, Open, Contents, P!Refused, Dos!Refused

(* The handle that an open or a create of the promise gives.               *)
LEMMA DosOpens ==
  ASSUME NEW f, NEW w, ~(Handles \subseteq DOMAIN files),
         Open' = [g \in DOMAIN Open \cup {LowestFree(DOMAIN files)} |->
                    IF g = LowestFree(DOMAIN files) THEN [file |-> f, writable |-> w, place |-> 0] ELSE Open[g]],
         returned' = P!Ok(<<LowestFree(DOMAIN files)>>)
  PROVE  Dos!Opens(f, w)
<1>1. DOMAIN Open = DOMAIN files
  BY DEF Open
<1>2. Dos!FreeHandles = Handles \ DOMAIN Open
  BY DEF Dos!FreeHandles, Open
<1>3. Dos!LowestFree = LowestFree(DOMAIN files)
  BY <1>1, <1>2, Zenon DEF Dos!LowestFree, LowestFree
<1>4. Dos!FreeHandles # {}
  BY <1>1, <1>2
<1>5. Dos!Extended(LowestFree(DOMAIN files), [file |-> f, writable |-> w, place |-> 0])
        = [g \in DOMAIN Open \cup {LowestFree(DOMAIN files)} |->
             IF g = LowestFree(DOMAIN files) THEN [file |-> f, writable |-> w, place |-> 0] ELSE Open[g]]
  BY Zenon DEF Dos!Extended, Open
<1>6. Open' = Dos!Extended(LowestFree(DOMAIN files), [file |-> f, writable |-> w, place |-> 0])
  BY <1>5
<1>7. returned' = Dos!Ok(<<LowestFree(DOMAIN files)>>)
  BY DEF P!Ok, Dos!Ok
<1> QED
  BY <1>3, <1>4, <1>6, <1>7, Zenon DEF Dos!Opens, Open

(* 3Ch and 3Dh of the promise.                                             *)
LEMMA DosFilesOf ==
  ASSUME NEW f
  PROVE  /\ Dos!Opens(f, TRUE) /\ Contents' = [Contents EXCEPT ![f] = <<>>] => Dos!Create(f)
         /\ Handles \subseteq DOMAIN files /\ returned' = P!Refused /\ Open' = Open
              /\ Contents' = [Contents EXCEPT ![f] = <<>>] => Dos!Create(f)
         /\ Contents[f] # NoFile /\ Dos!Opens(f, FALSE) /\ Contents' = Contents => Dos!Open(f)
<1>1. Dos!Opens(f, TRUE) /\ Contents' = [Contents EXCEPT ![f] = <<>>] => Dos!Create(f)
  BY Zenon DEF Dos!Create, Contents
<1>2. ASSUME Handles \subseteq DOMAIN files, returned' = P!Refused, Open' = Open,
             Contents' = [Contents EXCEPT ![f] = <<>>]
      PROVE  Dos!Create(f)
  <2>1. Dos!FreeHandles = {}
    <3>1. DOMAIN Open = DOMAIN files
      BY DEF Open
    <3>2. Dos!FreeHandles = Handles \ DOMAIN Open
      BY DEF Dos!FreeHandles, Open
    <3> QED
      BY <1>2, <3>1, <3>2
  <2>2. returned' = Dos!Refused
    BY <1>2 DEF P!Refused, Dos!Refused
  <2> QED
    BY <1>2, <2>1, <2>2, Zenon DEF Dos!Create, Contents, Open
<1>3. Contents[f] # NoFile /\ Dos!Opens(f, FALSE) /\ Contents' = Contents => Dos!Open(f)
  BY Zenon DEF Dos!Open, Contents
<1> QED
  BY <1>1, <1>2, <1>3, Zenon

(* A handle more: a file created is seen empty, one opened as it was.      *)
LEMMA EmplaceSeen ==
  ASSUME VfsInv, mixed = {}, mixed' = {}, NEW f \in Files, NEW w \in BOOLEAN, ~(Handles \subseteq DOMAIN files),
         Emplace(f, w), NEW b \in Bytes, ~w => b = disk[f], disk' = [disk EXCEPT ![f] = b]
  PROVE  /\ Dos!Opens(f, w)
         /\ w => Contents' = [Contents EXCEPT ![f] = b]
         /\ ~w => Contents' = Contents
<1> DEFINE h == LowestFree(DOMAIN files)
           e == disk'
           u == files'
<1>1. h \in Handles \ DOMAIN files
  BY LowestFreeIs
<1>2. u = [g \in DOMAIN files \cup {h} |-> IF g = h THEN Stream(f, w) ELSE files[g]] /\ returned' = P!Ok(<<h>>)
  BY DEF Emplace
<1>3. /\ disk \in [Files -> Bytes \cup {NoFile}] /\ files \in [DOMAIN files -> Streams]
      /\ Sound(disk, files, {})
  BY DEF VfsInv, Sound
<1>4. Sound(e, u, {})
  BY EmplaceKeeps DEF VfsInv
<1>5. e[f] = b /\ \A x \in Files : x # f => e[x] = disk[x]
  BY <1>3
<1> HIDE DEF h, e, u
<1> DEFINE n == Stream(f, w)
<1>6. n.file = f /\ n.writable = w /\ n.behind = <<>> /\ Place(n) = 0 /\ FlushedOf(b, n) = b
  <2>1. Len(<<>>) = 0
    OBVIOUS
  <2>2. n.at = 0 /\ n.ahead = <<>> /\ n.behind = <<>> /\ n.file = f /\ n.writable = w
    BY DEF Stream
  <2> HIDE DEF n
  <2> QED
    BY <2>1, <2>2 DEF Place, FlushedOf
<1> HIDE DEF n
<1>7. /\ DOMAIN u = DOMAIN files \cup {h} /\ u[h] = n /\ h \in DOMAIN u
      /\ \A g \in DOMAIN files : g # h /\ g \in DOMAIN u /\ u[g] = files[g]
  BY <1>1, <1>2 DEF n
<1>8. SeenOf(e, u, f) = b
  <2>1. u[h].file = f
    BY <1>6, <1>7
  <2>2. SeenOf(e, u, f) = FlushedOf(e[f], u[h])
    BY <1>4, <1>7, <2>1, SeenIs
  <2> QED
    BY <1>5, <1>6, <1>7, <2>2
<1>9. ASSUME NEW x \in Files, x # f PROVE SeenOf(e, u, x) = SeenOf(disk, files, x)
  <2>1. e[x] = disk[x]
    BY <1>5, <1>9
  <2>2. \A g : /\ g \in DOMAIN files /\ files[g].file = x => g \in DOMAIN u /\ u[g] = files[g]
               /\ g \in DOMAIN u /\ u[g].file = x => g \in DOMAIN files /\ u[g] = files[g]
    BY <1>6, <1>7, <1>9
  <2> QED
    BY <2>1, <2>2, SeenSame
<1>10. ASSUME ~w PROVE SeenOf(disk, files, f) = b
  <2>1. CASE \A g \in DOMAIN files : files[g].file # f
    <3>1. SeenOf(disk, files, f) = disk[f]
      BY <1>3, <2>1, SeenIs
    <3> QED
      BY <1>10, <3>1
  <2>2. CASE \E g \in DOMAIN files : files[g].file = f
    <3>1. PICK g \in DOMAIN files : files[g].file = f
      BY <2>2
    <3>2. SeenOf(disk, files, f) = FlushedOf(disk[f], files[g])
      BY <1>3, <3>1, SeenIs
    <3>3. SeenOf(e, u, f) = FlushedOf(e[f], u[g])
      <4>1. g \in DOMAIN u /\ u[g].file = f
        BY <1>7, <3>1
      <4> QED
        BY <1>4, <4>1, SeenIs
    <3>4. e[f] = disk[f] /\ u[g] = files[g]
      BY <1>5, <1>7, <1>10, <3>1
    <3> QED
      BY <1>8, <3>2, <3>3, <3>4
  <2> QED
    BY <2>1, <2>2
<1>11. w => ContentsOf(e, u) = [ContentsOf(disk, files) EXCEPT ![f] = b]
  BY <1>8, <1>9 DEF ContentsOf
<1>12. ~w => ContentsOf(e, u) = ContentsOf(disk, files)
  BY <1>8, <1>9, <1>10 DEF ContentsOf
<1>13. OpenOf(u) = [g \in DOMAIN OpenOf(files) \cup {h} |->
                      IF g = h THEN [file |-> f, writable |-> w, place |-> 0] ELSE OpenOf(files)[g]]
  <2>1. DOMAIN OpenOf(files) = DOMAIN files
    BY DEF OpenOf
  <2> QED
    BY <1>6, <1>7, <2>1 DEF OpenOf
<1>14. Dos!Opens(f, w)
  <2>1. Open' = [g \in DOMAIN Open \cup {h} |->
                   IF g = h THEN [file |-> f, writable |-> w, place |-> 0] ELSE Open[g]]
    BY <1>13, SeenNow DEF u
  <2> QED
    BY <1>2, <2>1, DosOpens DEF h
<1> QED
  BY <1>11, <1>12, <1>14, SeenNow DEF e, u

(* A file emptied while nobody has it open.                                *)
LEMMA DisturbSeen ==
  ASSUME VfsInv, mixed = {}, NEW f \in Files, disk' = [disk EXCEPT ![f] = <<>>], files' = files,
         MixedOf(mixed, {f}, files) = {}
  PROVE  Contents' = [Contents EXCEPT ![f] = <<>>] /\ Open' = Open
<1> DEFINE e == disk'
<1>1. disk \in [Files -> Bytes \cup {NoFile}]
  BY DEF VfsInv, Sound
<1>2. e[f] = <<>> /\ \A x \in Files : x # f => e[x] = disk[x]
  BY <1>1
<1> HIDE DEF e
<1>3. \A g \in DOMAIN files : files[g].file # f
  BY DEF MixedOf, Holders
<1>4. SeenOf(e, files, f) = <<>>
  BY <1>2, <1>3 DEF SeenOf, WritersIn
<1>5. ASSUME NEW x \in Files, x # f PROVE SeenOf(e, files, x) = SeenOf(disk, files, x)
  BY <1>2, <1>5, SeenSame
<1>6. ContentsOf(e, files) = [ContentsOf(disk, files) EXCEPT ![f] = <<>>]
  BY <1>4, <1>5 DEF ContentsOf
<1> QED
  BY <1>6, SeenNow DEF e

(* A handle less.                                                          *)
LEMMA CloseSeen ==
  ASSUME VfsInv, mixed = {}, mixed' = {}, NEW h \in DOMAIN files, close(h)
  PROVE  Contents' = Contents /\ Open' = [g \in DOMAIN Open \ {h} |-> Open[g]] /\ returned' = P!Ok(<<>>)
<1> DEFINE f == files[h].file
           e == disk'
           u == files'
<1>1. /\ files[h] \in Streams /\ f \in Files
      /\ disk \in [Files -> Bytes \cup {NoFile}] /\ files \in [DOMAIN files -> Streams]
  BY Known
<1>2. /\ e = [disk EXCEPT ![f] = FlushedOf(disk[f], files[h])]
      /\ u = [g \in DOMAIN files \ {h} |-> files[g]]
      /\ ~files[h].writable => FlushedOf(disk[f], files[h]) = disk[f]
      /\ returned' = P!Ok(<<>>)
  BY CloseIs
<1>3. Sound(disk, files, {}) /\ Sound(e, u, {})
  BY CloseKeeps DEF VfsInv
<1>4. e[f] = FlushedOf(disk[f], files[h]) /\ \A x \in Files : x # f => e[x] = disk[x]
  BY <1>1, <1>2
<1>5. DOMAIN u = DOMAIN files \ {h} /\ \A g \in DOMAIN u : u[g] = files[g]
  BY <1>2
<1> HIDE DEF e, u
<1>6. SeenOf(disk, files, f) = e[f]
  BY <1>1, <1>3, <1>4, SeenIs
<1>7. SeenOf(e, u, f) = e[f]
  <2>1. CASE \A g \in DOMAIN u : u[g].file # f
    BY <1>1, <1>3, <2>1, SeenIs
  <2>2. CASE \E g \in DOMAIN u : u[g].file = f
    <3>1. PICK g \in DOMAIN u : u[g].file = f
      BY <2>2
    <3>2. g \in DOMAIN files /\ files[g] = u[g] /\ g # h
      BY <1>5, <3>1
    <3>3. ~files[h].writable
      <4>1. files[h].writable => f \in Shared(files)
        BY <1>1, <3>1, <3>2, SharedIs
      <4>2. Shared(files) = {}
        BY <1>3 DEF Sound
      <4> QED
        BY <4>1, <4>2
    <3>4. e[f] = disk[f]
      BY <1>2, <1>4, <3>3
    <3>5. SeenOf(disk, files, f) = FlushedOf(disk[f], files[g])
      BY <1>1, <1>3, <3>1, <3>2, SeenIs
    <3>6. SeenOf(e, u, f) = FlushedOf(e[f], u[g])
      BY <1>1, <1>3, <3>1, SeenIs
    <3> QED
      BY <1>6, <3>2, <3>4, <3>5, <3>6
  <2> QED
    BY <2>1, <2>2
<1>8. ASSUME NEW x \in Files, x # f PROVE SeenOf(e, u, x) = SeenOf(disk, files, x)
  <2>1. e[x] = disk[x]
    BY <1>4, <1>8
  <2>2. \A g : /\ g \in DOMAIN files /\ files[g].file = x => g \in DOMAIN u /\ u[g] = files[g]
               /\ g \in DOMAIN u /\ u[g].file = x => g \in DOMAIN files /\ u[g] = files[g]
    BY <1>5, <1>8
  <2> QED
    BY <2>1, <2>2, SeenSame
<1>9. ContentsOf(e, u) = ContentsOf(disk, files)
  BY <1>6, <1>7, <1>8 DEF ContentsOf
<1>10. OpenOf(u) = [g \in DOMAIN OpenOf(files) \ {h} |-> OpenOf(files)[g]]
  <2>1. DOMAIN OpenOf(files) = DOMAIN files
    BY DEF OpenOf
  <2> QED
    BY <1>5, <2>1 DEF OpenOf
<1> QED
  BY <1>2, <1>9, <1>10, SeenNow DEF e, u

(* The start maps to the start of the promise.                             *)
LEMMA DosInit == FilesInit => Dos!Init
<1> SUFFICES ASSUME FilesInit PROVE Dos!Init
  OBVIOUS
<1>1. DOMAIN files = {}
  BY DEF FilesInit
<1>2. Open = <<>>
  BY <1>1 DEF Open
<1>3. Contents = disk
  <2>1. \A f \in Files : Seen(f) = disk[f]
    BY <1>1 DEF Seen, Writers
  <2>2. disk = [f \in Files |-> disk[f]]
    BY DEF FilesInit
  <2> QED
    BY <2>1, <2>2 DEF Contents
<1>4. /\ Contents \in [Files -> {NoFile} \cup { <<d>> : d \in Data }] /\ Open = <<>> /\ returned = P!Refused
  BY <1>2, <1>3 DEF FilesInit
<1> QED
  BY <1>4, Zenon DEF Dos!Init, Contents, Open, P!Refused, Dos!Refused

(* Every step maps to a step of the promise, as long as nothing is mixed.  *)
LEMMA DosStep == VfsInv /\ [FilesNext]_fileVars => (mixed \cup mixed' = {} => [Dos!Next]_(Dos!vars))
<1> SUFFICES ASSUME VfsInv, [FilesNext]_fileVars, mixed = {}, mixed' = {}
             PROVE  Dos!Next \/ (Contents' = Contents /\ Open' = Open /\ returned' = returned)
  BY Zenon DEF Dos!vars, Contents, Open
<1>1. Refuse => Dos!Refuse
  <2> SUFFICES ASSUME Refuse PROVE Dos!Refuse
    OBVIOUS
  <2>1. disk' = disk /\ files' = files /\ returned' = P!Refused
    BY DEF Refuse
  <2>2. Contents' = Contents /\ Open' = Open
    BY <2>1, SeenNow
  <2> QED
    BY <2>1, <2>2, DosRefuse
<1>2. CASE Refuse
  BY <1>1, <1>2 DEF Dos!Next
<1>3. CASE UNCHANGED fileVars
  BY <1>3, SeenNow DEF fileVars
<1>4. ASSUME NEW f \in Files, open_read(f) PROVE Dos!Open(f) \/ Refuse
  <2>1. CASE disk[f] \in Bytes /\ ~(Handles \subseteq DOMAIN files) /\ Emplace(f, FALSE)
             /\ disk' = disk /\ disk = [disk EXCEPT ![f] = disk[f]]
    <3>1. disk' = [disk EXCEPT ![f] = disk[f]]
      BY <2>1
    <3>2. Dos!Opens(f, FALSE) /\ Contents' = Contents
      BY <2>1, <3>1, EmplaceSeen
    <3>3. Contents[f] # NoFile
      <4>1. CASE \A g \in DOMAIN files : files[g].file # f
        <5>1. SeenOf(disk, files, f) = disk[f]
          BY <4>1, SeenIs DEF VfsInv
        <5> QED
          BY <2>1, <5>1, SeenNow, NoFileIsNone DEF ContentsOf
      <4>2. CASE \E g \in DOMAIN files : files[g].file = f
        <5>1. PICK g \in DOMAIN files : files[g].file = f
          BY <4>2
        <5>2. SeenOf(disk, files, f) = FlushedOf(disk[f], files[g])
          BY <5>1, SeenIs DEF VfsInv
        <5>3. FlushedOf(disk[f], files[g]) \in Bytes
          BY <5>1, Known, WriterIs
        <5> QED
          BY <5>2, <5>3, SeenNow, NoFileIsNone DEF ContentsOf
      <4> QED
        BY <4>1, <4>2
    <3> QED
      BY <3>2, <3>3, DosFilesOf
  <2> QED
    BY <1>4, <2>1, OpenIs
<1>5. ASSUME NEW f \in Files, open_write(f) PROVE Dos!Create(f)
  <2>1. CASE ~(Handles \subseteq DOMAIN files) /\ Emplace(f, TRUE) /\ disk' = [disk EXCEPT ![f] = <<>>]
    <3>1. <<>> \in Bytes
      BY DEF Bytes
    <3>2. Dos!Opens(f, TRUE) /\ Contents' = [Contents EXCEPT ![f] = <<>>]
      BY <2>1, <3>1, EmplaceSeen
    <3> QED
      BY <3>2, DosFilesOf
  <2>2. CASE /\ disk' = [disk EXCEPT ![f] = <<>>] /\ Handles \subseteq DOMAIN files /\ returned' = P!Refused
             /\ files' = files /\ mixed' = MixedOf(mixed, {f}, files)
    <3>1. Contents' = [Contents EXCEPT ![f] = <<>>] /\ Open' = Open
      BY <2>2, DisturbSeen
    <3> QED
      BY <2>2, <3>1, DosFilesOf
  <2> QED
    BY <1>5, <2>1, <2>2, OpenIs
<1>6. ASSUME NEW h \in DOMAIN files, NEW count \in Nat, read(h, count) PROVE Dos!Read(h, count) \/ Refuse
  <2>1. CASE ~files[h].writable /\ \E n : /\ Becomes(h, n, disk[files[h].file])
                                          /\ files[h].file \notin mixed => ReadsAt(h, n, count)
    <3> DEFINE f == files[h].file
    <3>1. PICK n : Becomes(h, n, disk[f]) /\ ReadsAt(h, n, count)
      BY <2>1
    <3>2. FlushedOf(disk[f], n) = disk[f] /\ FlushedOf(disk[f], files[h]) = disk[f]
      <4>1. n \in Streams /\ ~n.writable /\ disk[f] \in Bytes /\ Agrees(n, disk[f], n.file \notin mixed)
        BY <2>1, <3>1 DEF Becomes
      <4>2. files[h] \in Streams /\ Agrees(files[h], disk[f], f \notin mixed)
        BY Known
      <4> QED
        BY <2>1, <4>1, <4>2, WriterIs
    <3>3. /\ Contents[f] = disk[f] /\ Contents' = [Contents EXCEPT ![f] = disk[f]]
          /\ Open' = [Open EXCEPT ![h].place = Place(n)]
          /\ Open[h].file = f /\ ~Open[h].writable /\ Open[h].place = Place(files[h])
      BY <2>1, <3>1, <3>2, BecomesSeen
    <3>4. Contents' = Contents
      BY <3>3, NothingChanges
    <3>5. /\ Place(n) = Open[h].place + Given(count, P!BytesFrom(Contents[Open[h].file], Open[h].place))
          /\ returned' = P!Ok(SubSeq(P!BytesFrom(Contents[Open[h].file], Open[h].place), 1,
                                     Given(count, P!BytesFrom(Contents[Open[h].file], Open[h].place))))
      BY <3>1, <3>3 DEF ReadsAt
    <3>6. Open' = [Open EXCEPT ![h].place
                     = Open[h].place + Given(count, P!BytesFrom(Contents[Open[h].file], Open[h].place))]
      BY <3>3, <3>5
    <3> QED
      BY <3>3, <3>4, <3>5, <3>6, DosRead
  <2> QED
    BY <1>6, <2>1, ReadIs
<1>7. ASSUME NEW h \in DOMAIN files, NEW data \in Bytes, write(h, data) PROVE Dos!Write(h, data) \/ Refuse
  <2>1. CASE /\ files[h].writable /\ returned' = P!Ok(<<Len(data)>>)
             /\ \E n, b : /\ Becomes(h, n, b) /\ Place(n) = Place(files[h]) + Len(data)
                          /\ FlushedOf(b, n) = P!PutAt(FlushedOf(disk[files[h].file], files[h]),
                                                       Place(files[h]), data)
    <3> DEFINE f == files[h].file
    <3>1. PICK n, b : /\ Becomes(h, n, b) /\ Place(n) = Place(files[h]) + Len(data)
                      /\ FlushedOf(b, n) = P!PutAt(FlushedOf(disk[f], files[h]), Place(files[h]), data)
      BY <2>1
    <3>2. /\ Contents[f] = FlushedOf(disk[f], files[h]) /\ Contents' = [Contents EXCEPT ![f] = FlushedOf(b, n)]
          /\ Open' = [Open EXCEPT ![h].place = Place(n)]
          /\ Open[h].file = f /\ Open[h].writable /\ Open[h].place = Place(files[h])
      BY <2>1, <3>1, BecomesSeen
    <3>3. FlushedOf(b, n) = P!PutAt(Contents[Open[h].file], Open[h].place, data)
          /\ Place(n) = Open[h].place + Len(data)
      BY <3>1, <3>2
    <3>4. /\ Contents' = [Contents EXCEPT ![Open[h].file] = P!PutAt(Contents[Open[h].file], Open[h].place, data)]
          /\ Open' = [Open EXCEPT ![h].place = Open[h].place + Len(data)]
      BY <3>2, <3>3
    <3> QED
      BY <2>1, <3>2, <3>4, DosWrite
  <2> QED
    BY <1>7, <2>1, WriteIs
<1>8. ASSUME NEW h \in DOMAIN files, NEW o \in Int, NEW origin \in 0 .. 2, seek(h, o, origin)
      PROVE  Dos!Seek(h, o, origin) \/ Dos!Refuse
  <2> DEFINE f == files[h].file
             place == SeekTarget(h, o, origin)
  <2>1. /\ returned' = (IF 0 <= place /\ place <= MaxPosition THEN P!Ok(<<place>>) ELSE P!Refused)
        /\ place \in Int
        /\ \E n, b : /\ Becomes(h, n, b) /\ FlushedOf(b, n) = FlushedOf(disk[f], files[h])
                     /\ Place(n) = IF place >= 0 THEN place ELSE Place(files[h])
    BY <1>8, SeekIs
  <2> HIDE DEF place
  <2>2. PICK n, b : /\ Becomes(h, n, b) /\ FlushedOf(b, n) = FlushedOf(disk[f], files[h])
                    /\ Place(n) = IF place >= 0 THEN place ELSE Place(files[h])
    BY <2>1
  <2>3. /\ Contents[f] = FlushedOf(disk[f], files[h]) /\ Contents' = [Contents EXCEPT ![f] = FlushedOf(b, n)]
        /\ Open' = [Open EXCEPT ![h].place = Place(n)]
        /\ Open[h].file = f /\ Open[h].place = Place(files[h])
    BY <2>2, BecomesSeen
  <2>4. Contents' = Contents
    <3>1. Contents' = [Contents EXCEPT ![f] = Contents[f]]
      BY <2>2, <2>3
    <3> QED
      BY <3>1, NothingChanges
  <2>5. CASE place >= 0
    <3>1. Open' = [Open EXCEPT ![h].place = place]
      BY <2>2, <2>3, <2>5
    <3>2. place = o + From(origin, Open[h].place, Contents[Open[h].file])
      BY <2>3, Zenon DEF place, SeekTarget, From
    <3>3. returned' = IF place <= MaxPosition THEN P!Ok(<<place>>) ELSE P!Refused
      BY <2>1, <2>5
    <3>4. PICK p : p = place
      OBVIOUS
    <3>5. /\ p = o + From(origin, Open[h].place, Contents[Open[h].file])
          /\ p >= 0 /\ Open' = [Open EXCEPT ![h].place = p] /\ Contents' = Contents
          /\ returned' = IF p <= MaxPosition THEN P!Ok(<<p>>) ELSE P!Refused
      BY <2>4, <2>5, <3>1, <3>2, <3>3, <3>4
    <3> QED
      BY <3>5, DosSeek
  <2>6. CASE ~(place >= 0)
    <3>1. Open' = Open
      BY <2>2, <2>3, <2>6, NothingChanges
    <3>2. returned' = P!Refused
      BY <2>1, <2>6
    <3> QED
      BY <2>4, <3>1, <3>2, DosRefuse
  <2> QED
    BY <2>5, <2>6
<1>9. ASSUME NEW h \in DOMAIN files, close(h) PROVE Dos!Close(h)
  BY <1>9, CloseSeen, DosClose
<1>10. DOMAIN Open = DOMAIN files
  BY DEF Open
<1>11. CASE \E f \in Files : open_read(f) \/ open_write(f)
  <2>1. PICK f \in Files : open_read(f) \/ open_write(f)
    BY <1>11
  <2>2. Dos!Open(f) \/ Dos!Create(f) \/ Refuse
    BY <1>4, <1>5, <2>1
  <2> QED
    BY <1>1, <2>2, Zenon DEF Dos!Next
<1>12. CASE \E h \in DOMAIN files :
              \/ \E n \in Nat : n \in Counts /\ read(h, n)
              \/ \E d \in Bytes : d \in { <<>> } \cup { <<x>> : x \in Data } /\ write(h, d)
              \/ \E o \in Int, origin \in 0 .. 2 : o \in SeekOffsets /\ seek(h, o, origin)
              \/ close(h)
  <2>1. PICK h \in DOMAIN files :
              \/ \E n \in Nat : n \in Counts /\ read(h, n)
              \/ \E d \in Bytes : d \in { <<>> } \cup { <<x>> : x \in Data } /\ write(h, d)
              \/ \E o \in Int, origin \in 0 .. 2 : o \in SeekOffsets /\ seek(h, o, origin)
              \/ close(h)
    BY <1>12
  <2>2. \/ \E n \in Counts : Dos!Read(h, n)
        \/ \E d \in { <<>> } \cup { <<x>> : x \in Data } : Dos!Write(h, d)
        \/ \E o \in SeekOffsets, origin \in 0 .. 2 : Dos!Seek(h, o, origin)
        \/ Dos!Close(h) \/ Dos!Refuse
    <3>1. CASE \E n \in Nat : n \in Counts /\ read(h, n)
      BY <1>1, <1>6, <3>1
    <3>2. CASE \E d \in Bytes : d \in { <<>> } \cup { <<x>> : x \in Data } /\ write(h, d)
      BY <1>1, <1>7, <3>2
    <3>3. CASE \E o \in Int, origin \in 0 .. 2 : o \in SeekOffsets /\ seek(h, o, origin)
      BY <1>8, <3>3
    <3>4. CASE close(h)
      BY <1>9, <3>4
    <3> QED
      BY <2>1, <3>1, <3>2, <3>3, <3>4
  <2>3. h \in DOMAIN Open
    BY <1>10
  <2> QED
    BY <2>2, <2>3, Zenon DEF Dos!Next, Open
<1> QED
  BY <1>2, <1>3, <1>11, <1>12, FileStep

(* The table of buffered streams implements the abstract file system, for  *)
(* any files, handles and calls: as long as no file is shared with a       *)
(* writer, programs see files and places as if every call of               *)
(* virtual_file_system took effect at once.                                *)
THEOREM ImplementsDosFilesCorrect == FilesSpec => ImplementsDosFiles
  BY VfsInvCorrect, DosInit, DosStep, PTL DEF FilesSpec, ImplementsDosFiles
================================================================================
