-------------------------- MODULE VMControlProofs --------------------------
(***************************************************************************)
(* Proofs about VMControl for every set of programs and every bound: no    *)
(* RETURN and no end of a module finds the chunk traceback empty, and the  *)
(* current source file is always known; and where the units of a program   *)
(* call and load down an order or call themselves (Orderly), VMControl     *)
(* implements Activations.                                                 *)
(***************************************************************************)
EXTENDS VMControl, SequenceTheorems, FiniteSetTheorems, WellFoundedInduction, TLAPS

(* Sequences without their last element, and with one more. *)
LEMMA FrontOfSeq ==
  ASSUME NEW S, NEW q \in Seq(S), q # <<>>
  PROVE  /\ Len(q) \in Nat \ {0}
         /\ q[Len(q)] \in S
         /\ SubSeq(q, 1, Len(q) - 1) \in Seq(S)
         /\ Len(SubSeq(q, 1, Len(q) - 1)) = Len(q) - 1
         /\ \A i \in 1 .. Len(q) - 1 : SubSeq(q, 1, Len(q) - 1)[i] = q[i]
<1>1. Len(q) \in Nat \ {0} /\ \A i \in 1 .. Len(q) : q[i] \in S
  BY EmptySeq, LenProperties, ElementOfSeq
<1> DEFINE n == Len(q) - 1
<1>2. n \in Int /\ n >= 0 /\ \A i \in 1 .. n : q[i] \in S
  BY <1>1
<1> HIDE DEF n
<1>3. /\ SubSeq(q, 1, n) \in Seq(S)
      /\ Len(SubSeq(q, 1, n)) = IF 1 <= n THEN n - 1 + 1 ELSE 0
      /\ \A i \in 1 .. n - 1 + 1 : SubSeq(q, 1, n)[i] = q[1 + i - 1]
  BY <1>2, SubSeqProperties
<1>4. Len(SubSeq(q, 1, n)) = n /\ \A i \in 1 .. n : SubSeq(q, 1, n)[i] = q[i]
  BY <1>2, <1>3
<1>5. QED
  BY <1>1, <1>3, <1>4 DEF n

(* Appending adds one entry at the end, and leaves the others in place. *)
LEMMA AppendToSeq ==
  ASSUME NEW S, NEW q \in Seq(S), NEW e \in S
  PROVE  /\ Append(q, e) \in Seq(S)
         /\ Len(Append(q, e)) = Len(q) + 1
         /\ Append(q, e)[Len(q) + 1] = e
         /\ \A i \in 1 .. Len(q) : Append(q, e)[i] = q[i]
OBVIOUS

(* Registers have lengths that can be compared. *)
LEMMA RegsLengths ==
  ASSUME NEW r, RegsOK(r)
  PROVE  Len(r.tb) \in Nat /\ Len(r.chunks) \in Nat
BY DEF RegsOK

(* The fields SetRegs assigns are the registers afterwards. *)
LEMMA SetRegsType ==
  ASSUME NEW r, RegsOK(r), SetRegs(r)
  PROVE  RegsOK(Regs)'
BY DEF RegsOK, SetRegs, Regs

(* save_chunk changes nothing but the saved pc of the current chunk.       *)
LEMMA SaveChunk ==
  ASSUME NEW r, RegsOK(r),
         r = [chunks |-> r.chunks, id |-> r.id, pc |-> r.pc, tb |-> r.tb]
  PROVE  LET s == save_chunk(r) IN
         /\ RegsOK(s)
         /\ s = [chunks |-> s.chunks, id |-> s.id, pc |-> s.pc, tb |-> s.tb]
         /\ s.id = r.id /\ s.pc = r.pc /\ s.tb = r.tb
         /\ Len(s.chunks) = Len(r.chunks)
         /\ \A c \in 1 .. Len(r.chunks) : s.chunks[c].unit = r.chunks[c].unit
<1>1. CASE r.id = 0
  BY <1>1 DEF save_chunk
<1>2. CASE r.id # 0
  <2> DEFINE cs == [r.chunks EXCEPT ![r.id] = [@ EXCEPT !.chunk_pc = r.pc]]
  <2>1. save_chunk(r) = [chunks |-> cs, id |-> r.id, pc |-> r.pc, tb |-> r.tb]
    BY <1>2 DEF save_chunk
  <2>2. r.id \in 1 .. Len(r.chunks) /\ r.pc \in Nat /\ r.chunks \in Seq(Chunk)
    BY <1>2 DEF RegsOK
  <2>a. r.chunks[r.id] \in Chunk
    BY <2>2
  <2>3. [r.chunks[r.id] EXCEPT !.chunk_pc = r.pc] \in Chunk
    BY <2>2, <2>a DEF Chunk
  <2>4. cs \in Seq(Chunk) /\ Len(cs) = Len(r.chunks)
    BY <2>2, <2>3
  <2>5. \A c \in 1 .. Len(r.chunks) : cs[c].unit = r.chunks[c].unit
    <3> TAKE c \in 1 .. Len(r.chunks)
    <3>1. r.chunks[c] \in Chunk
      BY <2>2
    <3>2. QED
      BY <3>1, <2>2 DEF Chunk
  <2> HIDE DEF cs
  <2>6. QED
    BY <2>1, <2>4, <2>5 DEF RegsOK
<1>3. QED
  BY <1>1, <1>2

(* step_chunk goes to the chunk asked for and leaves at most one entry,    *)
(* exactly one when there is a chunk to come back to.                      *)
LEMMA StepChunk ==
  ASSUME NEW r, RegsOK(r), NEW id \in 1 .. Len(r.chunks),
         r = [chunks |-> r.chunks, id |-> r.id, pc |-> r.pc, tb |-> r.tb]
  PROVE  LET s == step_chunk(r, id) IN
         /\ RegsOK(s)
         /\ s = [chunks |-> s.chunks, id |-> s.id, pc |-> s.pc, tb |-> s.tb]
         /\ s.id = id
         /\ Len(s.chunks) = Len(r.chunks)
         /\ Len(s.tb) = IF r.id = 0 THEN Len(r.tb) ELSE Len(r.tb) + 1
<1> DEFINE s == save_chunk(r)
<1>1. /\ RegsOK(s)
      /\ s = [chunks |-> s.chunks, id |-> s.id, pc |-> s.pc, tb |-> s.tb]
      /\ s.id = r.id /\ s.pc = r.pc /\ s.tb = r.tb
      /\ Len(s.chunks) = Len(r.chunks)
  BY SaveChunk
<1> HIDE DEF s
<1> DEFINE tb == IF r.id = 0 THEN s.tb ELSE Append(s.tb, r.id)
<1>2. step_chunk(r, id) =
        [chunks |-> s.chunks, id |-> id, pc |-> s.chunks[id].chunk_pc, tb |-> tb]
  <2>1. step_chunk(r, id) = [s EXCEPT !.tb = tb, !.id = id, !.pc = s.chunks[id].chunk_pc]
    BY DEF step_chunk, s
  <2> HIDE DEF tb
  <2>2. QED
    BY <1>1, <2>1
<1>3. /\ tb \in Seq(1 .. Len(r.chunks))
      /\ Len(tb) = IF r.id = 0 THEN Len(r.tb) ELSE Len(r.tb) + 1
  <2> DEFINE S == 1 .. Len(r.chunks)
  <2>1. r.tb \in Seq(S) /\ (r.id # 0 => r.id \in S)
    BY DEF RegsOK
  <2> HIDE DEF S
  <2>2. tb \in Seq(S) /\ Len(tb) = IF r.id = 0 THEN Len(r.tb) ELSE Len(r.tb) + 1
    BY <1>1, <2>1, AppendToSeq
  <2>3. QED
    BY <2>2 DEF S
<1>4. s.chunks[id].chunk_pc \in Nat
  <2>1. s.chunks[id] \in Chunk
    BY <1>1 DEF RegsOK
  <2>2. QED
    BY <2>1 DEF Chunk
<1> HIDE DEF tb
<1>5. QED
  BY <1>1, <1>2, <1>3, <1>4 DEF RegsOK

(* back_chunk takes one entry off the traceback, if there is one.          *)
LEMMA BackChunk ==
  ASSUME NEW r, RegsOK(r),
         r = [chunks |-> r.chunks, id |-> r.id, pc |-> r.pc, tb |-> r.tb]
  PROVE  LET s == back_chunk(r) IN
         /\ RegsOK(s)
         /\ s.id = 0 => r.id = 0
         /\ Len(s.chunks) = Len(r.chunks)
         /\ Len(s.tb) = IF r.id = 0 \/ r.tb = <<>> THEN Len(r.tb) ELSE Len(r.tb) - 1
<1>1. CASE r.id = 0 \/ r.tb = <<>>
  BY <1>1 DEF back_chunk
<1>2. CASE ~(r.id = 0 \/ r.tb = <<>>)
  <2> DEFINE s  == save_chunk(r)
             id == r.tb[Len(r.tb)]
             tb == SubSeq(r.tb, 1, Len(r.tb) - 1)
  <2>1. /\ RegsOK(s)
        /\ s = [chunks |-> s.chunks, id |-> s.id, pc |-> s.pc, tb |-> s.tb]
        /\ s.id = r.id /\ s.pc = r.pc /\ s.tb = r.tb
        /\ Len(s.chunks) = Len(r.chunks)
    BY SaveChunk
  <2> HIDE DEF s
  <2>2. r.tb \in Seq(1 .. Len(r.chunks)) /\ Len(r.tb) \in Nat \ {0}
    BY <1>2 DEF RegsOK
  <2>3. /\ tb \in Seq(1 .. Len(r.chunks))
        /\ Len(tb) = Len(r.tb) - 1
        /\ id \in 1 .. Len(r.chunks)
    <3> DEFINE S == 1 .. Len(r.chunks)
    <3>1. r.tb \in Seq(S) /\ r.tb # <<>>
      BY <1>2, <2>2
    <3> HIDE DEF S
    <3>2. tb \in Seq(S) /\ Len(tb) = Len(r.tb) - 1 /\ id \in S
      BY <3>1, FrontOfSeq
    <3>3. QED
      BY <3>2 DEF S
  <2>4. back_chunk(r) =
          [chunks |-> s.chunks, id |-> id, pc |-> s.chunks[id].chunk_pc, tb |-> tb]
    BY <1>2, <2>1 DEF back_chunk, s
  <2>5. s.chunks[id].chunk_pc \in Nat
    <3>1. s.chunks[id] \in Chunk
      BY <2>1, <2>3 DEF RegsOK
    <3>2. QED
      BY <3>1 DEF Chunk
  <2> HIDE DEF tb, id
  <2>6. QED
    BY <1>2, <2>1, <2>3, <2>4, <2>5 DEF RegsOK
<1>3. QED
  BY <1>1, <1>2

(***************************************************************************)
(* What every action does to the registers.                                *)
(***************************************************************************)

(* Assigning well-typed registers. *)
LEMMA Assigned ==
  ASSUME NEW r, RegsOK(r), SetRegs(r)
  PROVE  /\ RegsOK(Regs)'
         /\ Len(chunks') = Len(r.chunks)
         /\ Len(chunk_traceback') = Len(r.tb)
         /\ chunk_id' = r.id
BY SetRegsType DEF SetRegs

(* Fetching an instruction moves pc and nothing else. *)
LEMMA Fetching ==
  ASSUME TypeOK, Fetch
  PROVE  /\ RegsOK(Fetched)
         /\ Fetched = [chunks |-> Fetched.chunks, id |-> Fetched.id,
                       pc |-> Fetched.pc, tb |-> Fetched.tb]
         /\ Fetched.id = chunk_id /\ chunk_id # 0
         /\ Fetched.tb = chunk_traceback
         /\ Len(Fetched.chunks) = Len(chunks)
<1> DEFINE r == [Regs EXCEPT !.pc = @ + 1]
<1>1. r = [chunks |-> chunks, id |-> chunk_id, pc |-> pc + 1, tb |-> chunk_traceback]
  BY DEF Regs
<1>2. RegsOK(r)
  BY <1>1 DEF TypeOK, RegsOK, Regs
<1>3. chunk_id # 0
  BY DEF TypeOK, Fetch
<1>4. Fetched = save_chunk(r)
  BY DEF Fetched
<1> HIDE DEF r
<1>5. r = [chunks |-> r.chunks, id |-> r.id, pc |-> r.pc, tb |-> r.tb]
      /\ r.id = chunk_id /\ r.tb = chunk_traceback /\ r.chunks = chunks
  BY <1>1
<1>6. QED
  BY <1>2, <1>3, <1>4, <1>5, SaveChunk

(* The instruction fetched is one of those of the language. *)
LEMMA Decoding ==
  ASSUME TypeOK, Fetch
  PROVE  /\ Here \in Units
         /\ Instr \in Instructions
<1>1. chunk_id \in 1 .. Len(chunks) /\ chunks \in Seq(Chunk) /\ pc \in Nat
  BY DEF TypeOK, Fetch, RegsOK, Regs
<1>2. Here \in Units
  <2>1. chunks[chunk_id] \in Chunk
    BY <1>1
  <2>2. QED
    BY <2>1 DEF Chunk, Here
<1>3. Code \in Seq(Instructions)
  BY <1>2 DEF TypeOK, IsProgram, Code
<1>4. QED
  BY <1>1, <1>2, <1>3 DEF Fetch, Instr

(* An action that stays in its frame keeps IInv: it may set flags and      *)
(* registers, and leave the chunk if that is recorded.                     *)
LEMMA SameFrame ==
  ASSUME IInv, NEW r, RegsOK(r), SetRegs(r),
         r.id # 0, Len(r.chunks) = Len(chunks), Len(r.tb) >= Len(chunk_traceback),
         UNCHANGED <<prog, call_stack, func_chunk, sourceVars, driverVars, callers>>,
         running' \in BOOLEAN, error' \in BOOLEAN, error_from_native' \in BOOLEAN,
         result' \in {"OK", "error"}, stopped_by' \in {"none", "code", "native", "exit"}
  PROVE  IInv'
<1>1. /\ RegsOK(Regs)'
      /\ Len(chunks') = Len(chunks)
      /\ Len(chunk_traceback') >= Len(chunk_traceback)
      /\ chunk_id' # 0
  BY Assigned
<1>2. TypeOK'
  <2>1. IsProgram(prog)'
    BY DEF IInv, TypeOK, IsProgram, Addresses
  <2>2. /\ call_stack' \in Seq(Nat)
        /\ func_chunk' \in [Funcs -> 0 .. Len(chunks')]
        /\ sf_traceback' \in Seq(Files \cup {NoFile})
        /\ source_filename' \in Files \cup {NoFile}
        /\ nest' \in Nat /\ runs' \in 0 .. MaxRuns
        /\ status' \in {"idle", "running"}
        /\ callers' \in Seq([unit : Units, at : Nat])
    BY <1>1 DEF IInv, TypeOK, sourceVars, driverVars
  <2>3. QED
    BY <1>1, <2>1, <2>2 DEF TypeOK
<1>3. TracebackCoversFrames'
  <2>1. Len(call_stack) \in Nat /\ nest \in Nat
    BY DEF IInv, TypeOK
  <2>2. Len(chunk_traceback) \in Nat /\ Len(chunk_traceback') \in Nat
    <3>1. RegsOK(Regs) /\ Regs.tb = chunk_traceback /\ Regs.tb' = chunk_traceback'
      BY DEF IInv, TypeOK, Regs
    <3>2. QED
      BY <1>1, <3>1, RegsLengths
  <2>3. QED
    BY <1>1, <2>1, <2>2 DEF IInv, TracebackCoversFrames, driverVars
<1>4. SourcesCoverFrames' /\ SourceKnown'
  BY DEF IInv, SourcesCoverFrames, SourceKnown, sourceVars, driverVars
<1>5. QED
  BY <1>2, <1>3, <1>4 DEF IInv

(* Such an action that fetches an instruction and ends with another pc.    *)
LEMMA SameUnit ==
  ASSUME IInv, Fetch, NEW a \in Nat, SetRegs([Fetched EXCEPT !.pc = a]) \/ SetRegs(Fetched),
         UNCHANGED <<prog, call_stack, func_chunk, sourceVars, driverVars, callers>>,
         running' \in BOOLEAN, error' \in BOOLEAN, error_from_native' \in BOOLEAN,
         result' \in {"OK", "error"}, stopped_by' \in {"none", "code", "native", "exit"}
  PROVE  IInv'
<1>1. /\ RegsOK(Fetched)
      /\ Fetched = [chunks |-> Fetched.chunks, id |-> Fetched.id,
                    pc |-> Fetched.pc, tb |-> Fetched.tb]
      /\ Fetched.id # 0 /\ Fetched.tb = chunk_traceback
      /\ Len(Fetched.chunks) = Len(chunks)
  BY Fetching DEF IInv
<1> DEFINE r == [Fetched EXCEPT !.pc = a]
<1>2. r = [chunks |-> Fetched.chunks, id |-> Fetched.id, pc |-> a, tb |-> Fetched.tb]
  BY <1>1
<1> HIDE DEF r
<1>3. RegsOK(r) /\ r.id # 0 /\ r.tb = chunk_traceback /\ Len(r.chunks) = Len(chunks)
  BY <1>1, <1>2 DEF RegsOK
<1>4. Len(chunk_traceback) \in Nat
  BY RegsLengths DEF IInv, TypeOK, Regs
<1>5. CASE SetRegs(Fetched)
  BY <1>1, <1>4, <1>5, SameFrame
<1>6. CASE SetRegs(r)
  BY <1>3, <1>4, <1>6, SameFrame
<1>7. QED
  BY <1>5, <1>6 DEF r

(* Sets of numbers have a least element, bounded ones a greatest: the first *)
(* chunk of a unit and the last definition of a function exist.            *)
LEMMA Least ==
  ASSUME NEW T \in SUBSET Nat, T # {}
  PROVE  \E t \in T : \A u \in T : t <= u
<1>1. PICK t \in T : \A u \in T : ~(<<u, t>> \in OpToRel(<, Nat))
  BY WFMin, NatLessThanWellFounded
<1>2. \A u \in T : ~(u < t)
  BY <1>1 DEF OpToRel
<1>3. QED
  BY <1>2

(* The greatest element of a bounded set, from the least distance to the bound. *)
LEMMA Greatest ==
  ASSUME NEW n \in Nat, NEW ks \in SUBSET (1 .. n), ks # {}
  PROVE  \E k \in ks : \A j \in ks : j <= k
<1>1. \A k \in ks : k \in Nat /\ k <= n /\ n - k \in Nat
  OBVIOUS
<1> DEFINE T == {n - k : k \in ks}
<1>2. T \in SUBSET Nat /\ T # {}
  BY <1>1
<1> HIDE DEF T
<1>3. PICK t \in T : \A u \in T : t <= u
  BY <1>2, Least
<1>4. PICK k \in ks : t = n - k
  BY <1>3 DEF T
<1>5. ASSUME NEW j \in ks PROVE j <= k
  <2>1. n - j \in T
    BY DEF T
  <2>2. QED
    BY <1>1, <1>3, <1>4, <2>1
<1>6. QED
  BY <1>5

(* What loading a unit and starting to execute it do. *)
LEMMA Executing ==
  ASSUME TypeOK, NEW r, RegsOK(r),
         r = [chunks |-> r.chunks, id |-> r.id, pc |-> r.pc, tb |-> r.tb],
         Len(r.chunks) = Len(chunks), NEW u \in Loaded, NEW file \in Files,
         Execute(r, u, file)
  PROVE  /\ RegsOK(Regs)'
         /\ chunk_id' # 0
         /\ Len(chunk_traceback') = IF r.id = 0 THEN Len(r.tb) ELSE Len(r.tb) + 1
         /\ func_chunk' \in [Funcs -> 0 .. Len(chunks')]
<1> DEFINE new == LoadedChunks(u, file)
           n   == Len(prog.defs[u])
<1>1. u \in Units /\ prog.defs[u] \in Seq(Funcs) /\ n \in Nat
  BY DEF TypeOK, IsProgram, Loaded, Units
<1>2. new \in Seq(Chunk) /\ Len(new) = n + 1
  <2> DEFINE fs == [k \in 1 .. n |-> new_chunk(prog.defs[u][k], file)]
  <2>1. \A k \in 1 .. n : prog.defs[u][k] \in Funcs
    BY <1>1
  <2>2. fs \in Seq(Chunk) /\ Len(fs) = n
    <3>1. \A k \in 1 .. n : new_chunk(prog.defs[u][k], file) \in Chunk
      BY <2>1 DEF new_chunk, Chunk, Units
    <3>2. QED
      BY <1>1, <3>1
  <2>3. <<new_chunk(u, file)>> \in Seq(Chunk) /\ Len(<<new_chunk(u, file)>>) = 1
    BY <1>1 DEF new_chunk, Chunk
  <2>4. new = <<new_chunk(u, file)>> \o fs
    BY DEF LoadedChunks
  <2> HIDE DEF fs, new
  <2>5. QED
    BY <1>1, <2>2, <2>3, <2>4, ConcatProperties
<1> HIDE DEF new, n
<1> DEFINE cs == r.chunks \o new
<1>3. cs \in Seq(Chunk) /\ Len(cs) = Len(chunks) + 1 + n
  <2>1. r.chunks \in Seq(Chunk) /\ Len(r.chunks) \in Nat
    BY DEF RegsOK
  <2>2. Len(cs) = Len(r.chunks) + Len(new) /\ cs \in Seq(Chunk)
    BY <1>2, <2>1, ConcatProperties
  <2> HIDE DEF cs
  <2> DEFINE k == Len(chunks)
  <2>3. k \in Nat /\ Len(r.chunks) = k
    BY <2>1
  <2> HIDE DEF k
  <2>4. Len(cs) = k + 1 + n
    BY <1>1, <1>2, <2>2, <2>3
  <2>5. QED
    BY <2>2, <2>4 DEF k
<1> DEFINE s == [r EXCEPT !.chunks = cs]
           id == Len(chunks) + 1
<1>4. SetRegs(step_chunk(s, id))
  BY DEF Execute, new
<1> HIDE DEF cs
<1>5. s = [chunks |-> cs, id |-> r.id, pc |-> r.pc, tb |-> r.tb]
  OBVIOUS
<1> HIDE DEF s
<1>6. /\ RegsOK(s) /\ s.id = r.id /\ s.tb = r.tb /\ Len(s.chunks) = Len(chunks) + 1 + n
      /\ s = [chunks |-> s.chunks, id |-> s.id, pc |-> s.pc, tb |-> s.tb]
      /\ id \in 1 .. Len(s.chunks)
  <2>1. /\ r.id \in 0 .. Len(chunks) /\ r.pc \in Nat /\ r.tb \in Seq(1 .. Len(chunks))
        /\ Len(chunks) \in Nat
    BY RegsLengths DEF RegsOK
  <2> DEFINE m == Len(chunks) + 1 + n
  <2>2. m \in Nat /\ m >= Len(chunks) + 1
    BY <1>1, <2>1
  <2> HIDE DEF m
  <2>3. r.id \in 0 .. m /\ id \in 1 .. m /\ 1 .. Len(chunks) \subseteq 1 .. m
    BY <2>1, <2>2
  <2> DEFINE S == 1 .. Len(chunks)
             W == 1 .. m
  <2>4. r.tb \in Seq(S) /\ S \subseteq W
    BY <2>1, <2>3
  <2> HIDE DEF S, W
  <2>5. r.tb \in Seq(W)
    BY <2>4
  <2>6. QED
    BY <1>3, <1>5, <2>1, <2>3, <2>5 DEF RegsOK, W, m
<1> HIDE DEF id
<1>7. /\ RegsOK(Regs)'
      /\ Len(chunks') = Len(chunks) + 1 + n
      /\ chunk_id' # 0
      /\ Len(chunk_traceback') = IF r.id = 0 THEN Len(r.tb) ELSE Len(r.tb) + 1
  <2> DEFINE t == step_chunk(s, id)
  <2>1. /\ RegsOK(t) /\ t.id = id
        /\ Len(t.chunks) = Len(s.chunks)
        /\ Len(t.tb) = IF s.id = 0 THEN Len(s.tb) ELSE Len(s.tb) + 1
    BY <1>6, StepChunk
  <2> HIDE DEF t
  <2>2. /\ RegsOK(Regs)' /\ chunk_id' = id
        /\ Len(chunks') = Len(t.chunks) /\ Len(chunk_traceback') = Len(t.tb)
    BY <1>4, <2>1, Assigned DEF t
  <2>3. id # 0
    BY <1>6
  <2>4. QED
    BY <1>6, <2>1, <2>2, <2>3
<1>8. func_chunk' \in [Funcs -> 0 .. Len(chunks')]
  <2>1. func_chunk' = LoadedFuncs(u)
    BY DEF Execute
  <2>2. SUFFICES ASSUME NEW f \in Funcs
                 PROVE  LoadedFuncs(u)[f] \in 0 .. Len(chunks')
    BY <2>1 DEF LoadedFuncs
  <2> DEFINE ks == {k \in 1 .. n : prog.defs[u][k] = f}
  <2>3. func_chunk[f] \in 0 .. Len(chunks) /\ Len(chunks) \in Nat
    BY RegsLengths DEF TypeOK, Regs
  <2>4. CASE ks = {}
    <3>1. LoadedFuncs(u)[f] = func_chunk[f]
      BY <2>4 DEF LoadedFuncs, n
    <3>2. QED
      BY <1>1, <1>7, <2>3, <3>1
  <2>5. CASE ks # {}
    <3> DEFINE m == CHOOSE k \in ks : \A j \in ks : j <= k
    <3>1. m \in 1 .. n
      BY <1>1, <2>5, Greatest
    <3>2. LoadedFuncs(u)[f] = Len(chunks) + 1 + m
      BY <2>5 DEF LoadedFuncs, n
    <3> HIDE DEF m
    <3>3. QED
      BY <1>1, <1>7, <2>3, <3>1, <3>2
  <2>6. QED
    BY <2>4, <2>5
<1>9. QED
  BY <1>7, <1>8

(***************************************************************************)
(* The invariant, action by action.                                        *)
(***************************************************************************)

(* Actions that run an instruction in the chunk they are in, the ones that *)
(* set flags included.                                                     *)
LEMMA InPlace ==
  ASSUME IInv,
         Step \/ Jump \/ FallThrough \/ Raise \/ Native \/ NativeFails \/ Exit
           \/ CallUndefined \/ ReturnAtTop \/ GotoUndefined
  PROVE  IInv'
<1>1. /\ running \in BOOLEAN /\ error \in BOOLEAN /\ error_from_native \in BOOLEAN
      /\ result \in {"OK", "error"} /\ stopped_by \in {"none", "code", "native", "exit"}
  BY DEF IInv, TypeOK
<1>2. CASE Step
  BY <1>1, <1>2, SameUnit DEF Step, flagVars
<1>3. CASE Jump
  <2>1. Instr \in Instructions /\ Instr.op \in {"jump", "branch"}
    BY <1>3, Decoding DEF Jump, IInv
  <2>2. Instr.arg \in Nat
    BY <2>1 DEF Instructions
  <2>3. QED
    BY <1>1, <1>3, <2>2, SameUnit DEF Jump, flagVars
<1>4. CASE FallThrough
  BY <1>1, <1>4, SameUnit DEF FallThrough, flagVars
<1>5. CASE Raise
  BY <1>1, <1>5, SameUnit DEF Raise, vm_error
<1>6. CASE Native
  BY <1>1, <1>6, SameUnit DEF Native
<1>7. CASE NativeFails
  BY <1>1, <1>7, SameUnit DEF NativeFails, vm_error
<1>8. CASE Exit
  BY <1>1, <1>8, SameUnit DEF Exit
<1>9. CASE CallUndefined
  BY <1>1, <1>9, SameUnit DEF CallUndefined, vm_error
<1>10. CASE ReturnAtTop
  BY <1>1, <1>10, SameUnit DEF ReturnAtTop, flagVars
<1>11. CASE GotoUndefined
  BY <1>1, <1>11, SameUnit DEF GotoUndefined, vm_error
<1>12. QED
  BY <1>2, <1>3, <1>4, <1>5, <1>6, <1>7, <1>8, <1>9, <1>10, <1>11

(* A goto suspends the chunk it leaves, which nothing may ever resume.     *)
LEMMA Gone ==
  ASSUME IInv, Goto
  PROVE  IInv'
<1> DEFINE c == CHOOSE c \in ChunksOf(Instr.arg) : \A d \in ChunksOf(Instr.arg) : c <= d
<1>1. /\ RegsOK(Fetched)
      /\ Fetched = [chunks |-> Fetched.chunks, id |-> Fetched.id,
                    pc |-> Fetched.pc, tb |-> Fetched.tb]
      /\ Fetched.id # 0 /\ Fetched.tb = chunk_traceback
      /\ Len(Fetched.chunks) = Len(chunks)
  BY Fetching DEF IInv, Goto
<1>2. chunks \in Seq(Chunk) /\ Len(chunks) \in Nat
  BY RegsLengths DEF IInv, TypeOK, RegsOK, Regs
<1>3. c \in 1 .. Len(chunks)
  <2>1. ChunksOf(Instr.arg) \in SUBSET Nat /\ ChunksOf(Instr.arg) # {}
    BY <1>2 DEF Goto, ChunksOf
  <2>2. c \in ChunksOf(Instr.arg)
    BY <2>1, Least
  <2>3. QED
    BY <2>2 DEF ChunksOf
<1> HIDE DEF c
<1> DEFINE s == step_chunk(Fetched, c)
           r == [s EXCEPT !.pc = Instr.at]
<1>4. /\ RegsOK(s)
      /\ s = [chunks |-> s.chunks, id |-> s.id, pc |-> s.pc, tb |-> s.tb]
      /\ s.id = c
      /\ Len(s.chunks) = Len(chunks)
      /\ Len(s.tb) = Len(chunk_traceback) + 1
  BY <1>1, <1>3, StepChunk
<1>5. Instr.at \in Nat
  <2>1. Instr \in Instructions /\ Instr.op = "goto"
    BY Decoding DEF Goto, IInv
  <2>2. QED
    BY <2>1 DEF Instructions
<1>6. SetRegs(r) /\ UNCHANGED <<prog, call_stack, func_chunk, sourceVars, flagVars, driverVars, callers>>
  BY DEF Goto, c
<1> HIDE DEF s
<1>7. r = [chunks |-> s.chunks, id |-> s.id, pc |-> Instr.at, tb |-> s.tb]
  BY <1>4
<1> HIDE DEF r
<1>8. RegsOK(r) /\ r.id # 0 /\ Len(r.chunks) = Len(chunks) /\ Len(r.tb) >= Len(chunk_traceback)
  <2>1. Len(chunk_traceback) \in Nat
    BY RegsLengths DEF IInv, TypeOK, Regs
  <2>2. QED
    BY <1>3, <1>4, <1>5, <1>7, <2>1 DEF RegsOK
<1>9. /\ running \in BOOLEAN /\ error \in BOOLEAN /\ error_from_native \in BOOLEAN
      /\ result \in {"OK", "error"} /\ stopped_by \in {"none", "code", "native", "exit"}
  BY DEF IInv, TypeOK
<1>10. QED
  BY <1>6, <1>8, <1>9, SameFrame DEF flagVars

(* A source file entered on a call or a load covers the frame or the load. *)
LEMMA SourceEntered ==
  ASSUME IInv, NEW file \in Files, vm_set_source_info(file),
         Len(call_stack') + nest' = Len(call_stack) + nest + 1
  PROVE  /\ SourcesCoverFrames' /\ SourceKnown'
         /\ sf_traceback' \in Seq(Files \cup {NoFile})
         /\ source_filename' \in Files \cup {NoFile}
<1>1. /\ sf_traceback \in Seq(Files \cup {NoFile}) /\ source_filename \in Files
      /\ Len(call_stack) \in Nat /\ nest \in Nat
      /\ Len(sf_traceback) > Len(call_stack) + nest
      /\ \A k \in 2 .. Len(sf_traceback) : sf_traceback[k] \in Files
  BY DEF IInv, TypeOK, SourcesCoverFrames, SourceKnown
<1>2. sf_traceback' = Append(sf_traceback, source_filename) /\ source_filename' = file
  BY DEF vm_set_source_info
<1>3. /\ sf_traceback' \in Seq(Files \cup {NoFile})
      /\ Len(sf_traceback') = Len(sf_traceback) + 1
      /\ sf_traceback'[Len(sf_traceback) + 1] = source_filename
      /\ \A k \in 1 .. Len(sf_traceback) : sf_traceback'[k] = sf_traceback[k]
  <2> DEFINE S == Files \cup {NoFile}
  <2>1. sf_traceback \in Seq(S) /\ source_filename \in S
    BY <1>1
  <2> HIDE DEF S
  <2>2. /\ sf_traceback' \in Seq(S)
        /\ Len(sf_traceback') = Len(sf_traceback) + 1
        /\ sf_traceback'[Len(sf_traceback) + 1] = source_filename
        /\ \A k \in 1 .. Len(sf_traceback) : sf_traceback'[k] = sf_traceback[k]
    BY <1>2, <2>1, AppendToSeq
  <2>3. QED
    BY <2>2 DEF S
<1>4. Len(sf_traceback) \in Nat
  BY <1>1
<1>5. Len(sf_traceback') > Len(call_stack') + nest'
  BY <1>1, <1>3, <1>4
<1>6. \A k \in 2 .. Len(sf_traceback') : sf_traceback'[k] \in Files
  BY <1>1, <1>3, <1>4
<1>7. QED
  BY <1>2, <1>3, <1>5, <1>6 DEF SourcesCoverFrames, SourceKnown

(* Going back to a source file takes no more than one entry away.          *)
LEMMA SourceLeft ==
  ASSUME IInv, vm_back_source_info, nest' \in Nat, Len(call_stack') \in Nat,
         Len(call_stack') + nest' = Len(call_stack) + nest - 1
  PROVE  /\ SourcesCoverFrames' /\ SourceKnown'
         /\ sf_traceback' \in Seq(Files \cup {NoFile})
         /\ source_filename' \in Files \cup {NoFile}
<1>1. /\ sf_traceback \in Seq(Files \cup {NoFile})
      /\ Len(call_stack) \in Nat /\ nest \in Nat
      /\ Len(sf_traceback) > Len(call_stack) + nest
      /\ \A k \in 2 .. Len(sf_traceback) : sf_traceback[k] \in Files
  BY DEF IInv, TypeOK, SourcesCoverFrames
<1>2. Len(sf_traceback) \in Nat /\ Len(sf_traceback) >= 2 /\ sf_traceback # <<>>
  BY <1>1
<1>3. /\ source_filename' = sf_traceback[Len(sf_traceback)]
      /\ sf_traceback' = SubSeq(sf_traceback, 1, Len(sf_traceback) - 1)
  BY <1>2 DEF vm_back_source_info
<1>4. /\ sf_traceback' \in Seq(Files \cup {NoFile})
      /\ Len(sf_traceback') = Len(sf_traceback) - 1
      /\ \A k \in 1 .. Len(sf_traceback) - 1 : sf_traceback'[k] = sf_traceback[k]
  <2> DEFINE S == Files \cup {NoFile}
  <2>1. sf_traceback \in Seq(S)
    BY <1>1
  <2> HIDE DEF S
  <2>2. /\ sf_traceback' \in Seq(S)
        /\ Len(sf_traceback') = Len(sf_traceback) - 1
        /\ \A k \in 1 .. Len(sf_traceback) - 1 : sf_traceback'[k] = sf_traceback[k]
    BY <1>2, <1>3, <2>1, FrontOfSeq
  <2>3. QED
    BY <2>2 DEF S
<1>5. source_filename' \in Files
  BY <1>1, <1>2, <1>3
<1>6. Len(sf_traceback') > Len(call_stack') + nest'
  BY <1>1, <1>2, <1>4
<1>7. \A k \in 2 .. Len(sf_traceback') : sf_traceback'[k] \in Files
  BY <1>1, <1>2, <1>4
<1>8. QED
  BY <1>4, <1>5, <1>6, <1>7 DEF SourcesCoverFrames, SourceKnown

(* The history of suspended activations keeps its type. *)
LEMMA History ==
  ASSUME TypeOK, (Fetch /\ Suspend) \/ Resume \/ UNCHANGED callers
  PROVE  callers' \in Seq([unit : Units, at : Nat])
<1> DEFINE S == [unit : Units, at : Nat]
<1>1. callers \in Seq(S)
  BY DEF TypeOK
<1>2. CASE Fetch /\ Suspend
  <2>1. Here \in Units /\ pc \in Nat
    BY <1>2, Decoding DEF TypeOK, RegsOK, Regs
  <2>2. [unit |-> Here, at |-> pc + 1] \in S
    BY <2>1
  <2> HIDE DEF S
  <2>3. callers' \in Seq(S)
    BY <1>1, <1>2, <2>2, AppendToSeq DEF Suspend
  <2>4. QED
    BY <2>3 DEF S
<1>3. CASE Resume
  <2> HIDE DEF S
  <2>1. callers' \in Seq(S)
    <3>1. CASE callers = <<>>
      BY <1>1, <1>3, <3>1 DEF Resume
    <3>2. CASE callers # <<>>
      BY <1>1, <1>3, <3>2, FrontOfSeq DEF Resume
    <3>3. QED
      BY <3>1, <3>2
  <2>2. QED
    BY <2>1 DEF S
<1>4. QED
  BY <1>1, <1>2, <1>3

(* A call: a frame, a source file and a suspended chunk more. *)
LEMMA Called ==
  ASSUME IInv, Call
  PROVE  IInv'
<1> DEFINE c == func_chunk[Instr.arg]
           s == step_chunk(Fetched, c)
           r == [s EXCEPT !.pc = 0]
<1>1. /\ RegsOK(Fetched)
      /\ Fetched = [chunks |-> Fetched.chunks, id |-> Fetched.id,
                    pc |-> Fetched.pc, tb |-> Fetched.tb]
      /\ Fetched.id # 0 /\ Fetched.tb = chunk_traceback
      /\ Len(Fetched.chunks) = Len(chunks)
  BY Fetching DEF IInv, Call
<1>2. /\ chunks \in Seq(Chunk) /\ Len(chunks) \in Nat /\ pc \in Nat
      /\ Len(chunk_traceback) \in Nat
  BY RegsLengths DEF IInv, TypeOK, RegsOK, Regs
<1>3. c \in 1 .. Len(chunks)
  <2>1. Instr.arg \in Funcs
    <3>1. Instr \in Instructions /\ Instr.op = "call"
      BY Decoding DEF Call, IInv
    <3>2. QED
      BY <3>1 DEF Instructions
  <2>2. c \in 0 .. Len(chunks) /\ c # 0
    BY <2>1 DEF IInv, TypeOK, Call
  <2>3. QED
    BY <1>2, <2>2
<1>4. chunks[c].file \in Files
  <2>1. chunks[c] \in Chunk
    BY <1>2, <1>3
  <2>2. QED
    BY <2>1 DEF Chunk
<1>5. /\ SetRegs(r) /\ vm_set_source_info(chunks[c].file)
      /\ call_stack' = Append(call_stack, pc + 1)
      /\ UNCHANGED <<prog, func_chunk, flagVars, driverVars>>
      /\ Fetch /\ Suspend
  BY DEF Call
<1> HIDE DEF c
<1>6. /\ RegsOK(s)
      /\ s = [chunks |-> s.chunks, id |-> s.id, pc |-> s.pc, tb |-> s.tb]
      /\ s.id = c
      /\ Len(s.chunks) = Len(chunks)
      /\ Len(s.tb) = Len(chunk_traceback) + 1
  BY <1>1, <1>3, StepChunk
<1> HIDE DEF s
<1>7. r = [chunks |-> s.chunks, id |-> s.id, pc |-> 0, tb |-> s.tb]
  BY <1>6
<1> HIDE DEF r
<1>8. /\ RegsOK(r) /\ r.id # 0 /\ Len(r.chunks) = Len(chunks)
      /\ Len(r.tb) = Len(chunk_traceback) + 1
  BY <1>3, <1>6, <1>7 DEF RegsOK
<1>9. /\ RegsOK(Regs)' /\ Len(chunks') = Len(chunks) /\ chunk_id' # 0
      /\ Len(chunk_traceback') = Len(chunk_traceback) + 1
  BY <1>5, <1>8, Assigned
<1>10. /\ call_stack' \in Seq(Nat) /\ Len(call_stack') = Len(call_stack) + 1
       /\ Len(call_stack) \in Nat /\ nest \in Nat /\ nest' = nest
  BY <1>2, <1>5 DEF IInv, TypeOK, driverVars
<1>11. /\ SourcesCoverFrames' /\ SourceKnown'
       /\ sf_traceback' \in Seq(Files \cup {NoFile})
       /\ source_filename' \in Files \cup {NoFile}
  BY <1>4, <1>5, <1>10, SourceEntered
<1>12. TracebackCoversFrames'
  BY <1>2, <1>9, <1>10 DEF IInv, TracebackCoversFrames
<1>13. TypeOK'
  <2>1. IsProgram(prog)'
    BY <1>5 DEF IInv, TypeOK, IsProgram, Addresses
  <2>2. callers' \in Seq([unit : Units, at : Nat])
    BY <1>5, History DEF IInv
  <2>3. func_chunk' \in [Funcs -> 0 .. Len(chunks')]
    BY <1>5, <1>9 DEF IInv, TypeOK
  <2>4. /\ nest' \in Nat /\ runs' \in 0 .. MaxRuns /\ status' \in {"idle", "running"}
        /\ running' \in BOOLEAN /\ error' \in BOOLEAN /\ error_from_native' \in BOOLEAN
        /\ result' \in {"OK", "error"} /\ stopped_by' \in {"none", "code", "native", "exit"}
    BY <1>5 DEF IInv, TypeOK, flagVars, driverVars
  <2>5. QED
    BY <1>9, <1>10, <1>11, <2>1, <2>2, <2>3, <2>4 DEF TypeOK
<1>14. QED
  BY <1>11, <1>12, <1>13 DEF IInv

(* A return takes one frame, one source file and one chunk away.           *)
LEMMA Returned ==
  ASSUME IInv, Return
  PROVE  IInv'
<1> DEFINE a == call_stack[Len(call_stack)]
           r == [Fetched EXCEPT !.pc = a]
<1>1. /\ RegsOK(Fetched)
      /\ Fetched = [chunks |-> Fetched.chunks, id |-> Fetched.id,
                    pc |-> Fetched.pc, tb |-> Fetched.tb]
      /\ Fetched.id # 0 /\ Fetched.tb = chunk_traceback
      /\ Len(Fetched.chunks) = Len(chunks)
  BY Fetching DEF IInv, Return
<1>2. /\ Len(chunk_traceback) \in Nat /\ call_stack \in Seq(Nat) /\ call_stack # <<>>
      /\ nest \in Nat
  BY RegsLengths DEF IInv, TypeOK, Regs, Return
<1>3. a \in Nat /\ Len(call_stack) \in Nat /\ Len(call_stack) >= 1
  BY <1>2
<1>4. /\ SetRegs(back_chunk(r))
      /\ call_stack' = SubSeq(call_stack, 1, Len(call_stack) - 1)
      /\ IF sf_traceback = <<>> THEN source_filename' = NoFile /\ UNCHANGED sf_traceback
                                ELSE vm_back_source_info
      /\ Resume
      /\ UNCHANGED <<prog, func_chunk, flagVars, driverVars>>
  BY DEF Return
<1> HIDE DEF a
<1>5. r = [chunks |-> Fetched.chunks, id |-> Fetched.id, pc |-> a, tb |-> Fetched.tb]
  BY <1>1
<1> HIDE DEF r
<1>6. /\ RegsOK(r) /\ r.id # 0 /\ r.tb = chunk_traceback /\ Len(r.chunks) = Len(chunks)
      /\ r = [chunks |-> r.chunks, id |-> r.id, pc |-> r.pc, tb |-> r.tb]
  BY <1>1, <1>3, <1>5 DEF RegsOK
<1> DEFINE s == back_chunk(r)
<1>7. /\ RegsOK(s) /\ s.id # 0 /\ Len(s.chunks) = Len(chunks)
      /\ Len(s.tb) >= Len(chunk_traceback) - 1
  <2>1. /\ RegsOK(s) /\ s.id # 0 /\ Len(s.chunks) = Len(chunks)
        /\ Len(s.tb) = IF chunk_traceback = <<>> THEN Len(r.tb) ELSE Len(r.tb) - 1
    BY <1>6, BackChunk
  <2> HIDE DEF s
  <2>2. QED
    BY <1>2, <1>6, <2>1
<1> HIDE DEF s
<1>8. /\ RegsOK(Regs)' /\ Len(chunks') = Len(chunks) /\ chunk_id' # 0
      /\ Len(chunk_traceback') >= Len(chunk_traceback) - 1
  BY <1>4, <1>7, Assigned DEF s
<1>9. /\ call_stack' \in Seq(Nat) /\ Len(call_stack') = Len(call_stack) - 1
      /\ nest' = nest
  BY <1>2, <1>4, FrontOfSeq DEF driverVars
<1>10. vm_back_source_info
  <2>1. Len(sf_traceback) > 0
    BY <1>2, <1>3 DEF IInv, TypeOK, SourcesCoverFrames
  <2>2. QED
    BY <1>4, <2>1
<1>11. /\ SourcesCoverFrames' /\ SourceKnown'
       /\ sf_traceback' \in Seq(Files \cup {NoFile})
       /\ source_filename' \in Files \cup {NoFile}
  BY <1>2, <1>3, <1>9, <1>10, SourceLeft
<1>12. TracebackCoversFrames'
  <2>1. Regs.tb' = chunk_traceback' /\ Len(chunk_traceback') \in Nat
    BY <1>8, RegsLengths DEF Regs
  <2>2. QED
    BY <1>2, <1>3, <1>8, <1>9, <2>1 DEF IInv, TracebackCoversFrames
<1>13. TypeOK'
  <2>1. IsProgram(prog)'
    BY <1>4 DEF IInv, TypeOK, IsProgram, Addresses
  <2>2. callers' \in Seq([unit : Units, at : Nat])
    BY <1>4, History DEF IInv
  <2>3. func_chunk' \in [Funcs -> 0 .. Len(chunks')]
    BY <1>4, <1>8 DEF IInv, TypeOK
  <2>4. /\ nest' \in Nat /\ runs' \in 0 .. MaxRuns /\ status' \in {"idle", "running"}
        /\ running' \in BOOLEAN /\ error' \in BOOLEAN /\ error_from_native' \in BOOLEAN
        /\ result' \in {"OK", "error"} /\ stopped_by' \in {"none", "code", "native", "exit"}
    BY <1>4 DEF IInv, TypeOK, flagVars, driverVars
  <2>5. QED
    BY <1>8, <1>9, <1>11, <2>1, <2>2, <2>3, <2>4 DEF TypeOK
<1>14. QED
  BY <1>11, <1>12, <1>13 DEF IInv

(* A module load: a nested vm_execute, a source file and a suspended chunk *)
(* more.                                                                   *)
LEMMA LoadStarted ==
  ASSUME IInv, LoadModule
  PROVE  IInv'
<1>1. /\ RegsOK(Fetched)
      /\ Fetched = [chunks |-> Fetched.chunks, id |-> Fetched.id,
                    pc |-> Fetched.pc, tb |-> Fetched.tb]
      /\ Fetched.id # 0 /\ Fetched.tb = chunk_traceback
      /\ Len(Fetched.chunks) = Len(chunks)
  BY Fetching DEF IInv, LoadModule
<1> DEFINE m == Instr.arg
<1>2. m \in Loaded /\ m \in Files
  <2>1. Instr \in Instructions /\ Instr.op = "load"
    BY Decoding DEF LoadModule, IInv
  <2>2. QED
    BY <2>1 DEF Instructions, Loaded, Files
<1>3. /\ Execute(Fetched, m, m) /\ vm_set_source_info(m)
      /\ nest' = nest + 1 /\ Fetch /\ Suspend
      /\ UNCHANGED <<prog, call_stack, error_from_native, stopped_by, status, runs>>
  BY DEF LoadModule
<1> HIDE DEF m
<1>4. /\ RegsOK(Regs)' /\ chunk_id' # 0
      /\ Len(chunk_traceback') = Len(chunk_traceback) + 1
      /\ func_chunk' \in [Funcs -> 0 .. Len(chunks')]
  BY <1>1, <1>2, <1>3, Executing DEF IInv
<1>5. /\ call_stack' = call_stack /\ Len(call_stack) \in Nat
      /\ nest \in Nat /\ nest' = nest + 1 /\ Len(chunk_traceback) \in Nat
  BY <1>3, RegsLengths DEF IInv, TypeOK, Regs
<1>6. /\ SourcesCoverFrames' /\ SourceKnown'
      /\ sf_traceback' \in Seq(Files \cup {NoFile})
      /\ source_filename' \in Files \cup {NoFile}
  BY <1>2, <1>3, <1>5, SourceEntered
<1>7. TracebackCoversFrames'
  BY <1>4, <1>5 DEF IInv, TracebackCoversFrames
<1>8. TypeOK'
  <2>1. IsProgram(prog)'
    BY <1>3 DEF IInv, TypeOK, IsProgram, Addresses
  <2>2. callers' \in Seq([unit : Units, at : Nat])
    BY <1>3, History DEF IInv
  <2>3. /\ call_stack' \in Seq(Nat) /\ nest' \in Nat /\ runs' \in 0 .. MaxRuns
        /\ status' \in {"idle", "running"} /\ error_from_native' \in BOOLEAN
        /\ stopped_by' \in {"none", "code", "native", "exit"}
    BY <1>3, <1>5 DEF IInv, TypeOK
  <2>4. running' \in BOOLEAN /\ error' \in BOOLEAN /\ result' \in {"OK", "error"}
    BY <1>3 DEF Execute
  <2>5. QED
    BY <1>4, <1>6, <2>1, <2>2, <2>3, <2>4 DEF TypeOK
<1>9. QED
  BY <1>6, <1>7, <1>8 DEF IInv

(* The driver may find frames, chunks and source files of an earlier run   *)
(* that ended in an error: nothing is missing, however many are left.      *)
LEMMA RunStarted ==
  ASSUME IInv, Start
  PROVE  IInv'
<1>1. /\ RegsOK(Regs)
      /\ Regs = [chunks |-> Regs.chunks, id |-> Regs.id, pc |-> Regs.pc, tb |-> Regs.tb]
      /\ Regs.tb = chunk_traceback /\ Regs.chunks = chunks
  BY DEF IInv, TypeOK, Regs
<1>2. PICK u \in Mains : Execute(Regs, u, source_filename)
  BY DEF Start
<1>3. u \in Loaded /\ source_filename \in Files
  BY DEF Loaded, IInv, SourceKnown
<1>4. /\ status' = "running" /\ runs' = runs + 1 /\ runs < MaxRuns
      /\ callers' = <<>> /\ stopped_by' = "none"
      /\ UNCHANGED <<prog, call_stack, sourceVars, error_from_native, nest>>
  BY DEF Start
<1>5. /\ RegsOK(Regs)' /\ chunk_id' # 0
      /\ Len(chunk_traceback') >= Len(chunk_traceback)
      /\ func_chunk' \in [Funcs -> 0 .. Len(chunks')]
  <2>1. Len(Regs.tb) \in Nat
    BY <1>1, RegsLengths
  <2>2. /\ RegsOK(Regs)' /\ chunk_id' # 0
        /\ Len(chunk_traceback') = IF Regs.id = 0 THEN Len(Regs.tb) ELSE Len(Regs.tb) + 1
        /\ func_chunk' \in [Funcs -> 0 .. Len(chunks')]
    BY <1>1, <1>2, <1>3, Executing DEF IInv
  <2>3. QED
    BY <1>1, <2>1, <2>2
<1>6. TracebackCoversFrames'
  <2>1. Regs.tb' = chunk_traceback' /\ Len(chunk_traceback') \in Nat
    BY <1>5, RegsLengths DEF Regs
  <2>2. /\ Len(chunk_traceback) \in Nat /\ Len(call_stack) \in Nat /\ nest \in Nat
        /\ Len(chunk_traceback) >= Len(call_stack) + nest
    BY <1>1, RegsLengths DEF IInv, TypeOK, TracebackCoversFrames
  <2>3. QED
    BY <1>4, <1>5, <2>1, <2>2 DEF TracebackCoversFrames
<1>7. SourcesCoverFrames' /\ SourceKnown'
  BY <1>4 DEF IInv, SourcesCoverFrames, SourceKnown, sourceVars
<1>8. TypeOK'
  <2>1. IsProgram(prog)'
    BY <1>4 DEF IInv, TypeOK, IsProgram, Addresses
  <2>2. /\ call_stack' \in Seq(Nat) /\ nest' \in Nat /\ error_from_native' \in BOOLEAN
        /\ sf_traceback' \in Seq(Files \cup {NoFile})
        /\ source_filename' \in Files \cup {NoFile}
    BY <1>4 DEF IInv, TypeOK, sourceVars
  <2>3. runs' \in 0 .. MaxRuns
    BY <1>4, BoundsAssumption DEF IInv, TypeOK
  <2>4. running' \in BOOLEAN /\ error' \in BOOLEAN /\ result' \in {"OK", "error"}
    BY <1>2 DEF Execute
  <2>5. callers' \in Seq([unit : Units, at : Nat])
    BY <1>4
  <2>6. QED
    BY <1>4, <1>5, <2>1, <2>2, <2>3, <2>4, <2>5 DEF TypeOK
<1>9. QED
  BY <1>6, <1>7, <1>8 DEF IInv

(* The end of a nested vm_execute, without and with an error, and of the   *)
(* driver's.                                                               *)
LEMMA LoadEnded ==
  ASSUME IInv, ModuleEnds
  PROVE  IInv'
<1>1. /\ RegsOK(Regs)
      /\ Regs = [chunks |-> Regs.chunks, id |-> Regs.id, pc |-> Regs.pc, tb |-> Regs.tb]
      /\ Regs.tb = chunk_traceback /\ Regs.chunks = chunks /\ Regs.id # 0
  BY DEF IInv, TypeOK, Regs, ModuleEnds, LoopOver
<1>2. /\ SetRegs(back_chunk(Regs)) /\ vm_back_source_info
      /\ nest > 0 /\ nest' = nest - 1 /\ Resume
      /\ UNCHANGED <<prog, call_stack, func_chunk, flagVars, status, runs>>
  BY DEF ModuleEnds
<1>3. /\ Len(chunk_traceback) \in Nat /\ Len(call_stack) \in Nat /\ nest \in Nat
  BY <1>1, RegsLengths DEF IInv, TypeOK
<1> DEFINE s == back_chunk(Regs)
<1>4. /\ RegsOK(s) /\ s.id # 0 /\ Len(s.chunks) = Len(chunks)
      /\ Len(s.tb) >= Len(chunk_traceback) - 1
  <2>1. /\ RegsOK(s) /\ s.id # 0 /\ Len(s.chunks) = Len(chunks)
        /\ Len(s.tb) = IF chunk_traceback = <<>> THEN Len(Regs.tb) ELSE Len(Regs.tb) - 1
    BY <1>1, BackChunk
  <2> HIDE DEF s
  <2>2. QED
    BY <1>1, <1>3, <2>1
<1> HIDE DEF s
<1>5. /\ RegsOK(Regs)' /\ Len(chunks') = Len(chunks) /\ chunk_id' # 0
      /\ Len(chunk_traceback') >= Len(chunk_traceback) - 1
  BY <1>2, <1>4, Assigned DEF s
<1>6. nest' \in Nat /\ call_stack' = call_stack
  BY <1>2, <1>3
<1>7. /\ SourcesCoverFrames' /\ SourceKnown'
      /\ sf_traceback' \in Seq(Files \cup {NoFile})
      /\ source_filename' \in Files \cup {NoFile}
  BY <1>2, <1>3, <1>6, SourceLeft
<1>8. TracebackCoversFrames'
  <2>1. Regs.tb' = chunk_traceback' /\ Len(chunk_traceback') \in Nat
    BY <1>5, RegsLengths DEF Regs
  <2>2. QED
    BY <1>2, <1>3, <1>5, <1>6, <2>1 DEF IInv, TracebackCoversFrames
<1>9. TypeOK'
  <2>1. IsProgram(prog)'
    BY <1>2 DEF IInv, TypeOK, IsProgram, Addresses
  <2>2. callers' \in Seq([unit : Units, at : Nat])
    BY <1>2, History DEF IInv
  <2>3. func_chunk' \in [Funcs -> 0 .. Len(chunks')]
    BY <1>2, <1>5 DEF IInv, TypeOK
  <2>4. /\ call_stack' \in Seq(Nat) /\ runs' \in 0 .. MaxRuns /\ status' \in {"idle", "running"}
        /\ running' \in BOOLEAN /\ error' \in BOOLEAN /\ error_from_native' \in BOOLEAN
        /\ result' \in {"OK", "error"} /\ stopped_by' \in {"none", "code", "native", "exit"}
    BY <1>2 DEF IInv, TypeOK, flagVars
  <2>5. QED
    BY <1>5, <1>6, <1>7, <2>1, <2>2, <2>3, <2>4 DEF TypeOK
<1>10. QED
  BY <1>7, <1>8, <1>9 DEF IInv

(* A module that failed leaves the machine where it stopped: one load fewer *)
(* to cover, and nothing given back for it.                                *)
LEMMA LoadFailed ==
  ASSUME IInv, ModuleFails
  PROVE  IInv'
<1>1. /\ nest > 0 /\ nest' = nest - 1 /\ result' = "OK"
      /\ UNCHANGED <<prog, chunkVars, call_stack, func_chunk, sourceVars, running, error,
                     error_from_native, stopped_by, status, runs, callers>>
  BY DEF ModuleFails
<1>2. /\ Len(chunk_traceback) \in Nat /\ Len(call_stack) \in Nat /\ nest \in Nat
      /\ Len(sf_traceback) \in Nat
  BY RegsLengths DEF IInv, TypeOK, Regs
<1>3. TypeOK'
  <2>1. IsProgram(prog)' /\ RegsOK(Regs)'
    BY <1>1 DEF IInv, TypeOK, IsProgram, Addresses, RegsOK, Regs, chunkVars
  <2>2. nest' \in Nat
    BY <1>1, <1>2
  <2>3. QED
    BY <1>1, <2>1, <2>2 DEF IInv, TypeOK, chunkVars, sourceVars
<1>4. TracebackCoversFrames' /\ SourcesCoverFrames' /\ SourceKnown'
  BY <1>1, <1>2 DEF IInv, TracebackCoversFrames, SourcesCoverFrames, SourceKnown,
                    chunkVars, sourceVars
<1>5. QED
  BY <1>3, <1>4 DEF IInv

(* The end of a run changes none of what the invariant relates. *)
LEMMA Unchanged ==
  ASSUME IInv, End \/ UNCHANGED vars
  PROVE  IInv'
<1>1. /\ UNCHANGED <<prog, chunkVars, call_stack, func_chunk, sourceVars, flagVars,
                     nest, runs, callers>>
      /\ status' \in {"idle", status}
  BY DEF End, vars, driverVars
<1>2. TypeOK'
  <2>1. IsProgram(prog)' /\ RegsOK(Regs)'
    BY <1>1 DEF IInv, TypeOK, IsProgram, Addresses, RegsOK, Regs, chunkVars
  <2>2. QED
    BY <1>1, <2>1 DEF IInv, TypeOK, chunkVars, sourceVars, flagVars
<1>3. QED
  BY <1>1, <1>2 DEF IInv, TracebackCoversFrames, SourcesCoverFrames, SourceKnown,
                    chunkVars, sourceVars

(* The invariant holds of an empty machine ...                             *)
LEMMA Initially ==
  Init => IInv
<1> SUFFICES ASSUME Init PROVE IInv
  OBVIOUS
<1>1. RegsOK(Regs)
  BY DEF Init, RegsOK, Regs
<1>2. IsProgram(prog)
  BY ProgramsAssumption DEF Init
<1>3. TypeOK
  <2>1. func_chunk \in [Funcs -> 0 .. Len(chunks)]
    BY <1>1, RegsLengths DEF Init, Regs
  <2>2. /\ call_stack \in Seq(Nat) /\ callers \in Seq([unit : Units, at : Nat])
        /\ sf_traceback \in Seq(Files \cup {NoFile})
        /\ source_filename \in Files \cup {NoFile}
    BY DEF Init, Files
  <2>3. nest \in Nat /\ runs \in 0 .. MaxRuns
    BY BoundsAssumption DEF Init
  <2>4. QED
    BY <1>1, <1>2, <2>1, <2>2, <2>3 DEF Init, TypeOK
<1>4. TracebackCoversFrames /\ SourcesCoverFrames /\ SourceKnown
  BY DEF Init, TracebackCoversFrames, SourcesCoverFrames, SourceKnown, Files
<1>5. QED
  BY <1>3, <1>4 DEF IInv

(* ... and every step keeps it. *)
LEMMA Inductive ==
  IInv /\ [Next]_vars => IInv'
<1> SUFFICES ASSUME IInv, [Next]_vars PROVE IInv'
  OBVIOUS
<1>1. CASE \/ Step \/ Jump \/ FallThrough \/ Raise \/ Native \/ NativeFails \/ Exit
           \/ CallUndefined \/ ReturnAtTop \/ GotoUndefined
  BY <1>1, InPlace
<1>2. CASE Call
  BY <1>2, Called
<1>3. CASE Return
  BY <1>3, Returned
<1>4. CASE Goto
  BY <1>4, Gone
<1>5. CASE LoadModule
  BY <1>5, LoadStarted
<1>6. CASE Start
  BY <1>6, RunStarted
<1>7. CASE ModuleEnds
  BY <1>7, LoadEnded
<1>8. CASE ModuleFails
  BY <1>8, LoadFailed
<1>9. CASE End \/ UNCHANGED vars
  BY <1>9, Unchanged
<1>10. QED
  BY <1>1, <1>2, <1>3, <1>4, <1>5, <1>6, <1>7, <1>8, <1>9 DEF Next

(* The inductive invariant: types, the traceback over frames and loads, the *)
(* stack of source files over them, and a known current file, kept up by   *)
(* vm_execute through calls, returns, gotos, loads, errors and new runs.   *)
THEOREM Invariance ==
  Spec => []IInv
BY Initially, Inductive, PTL DEF Spec

(* Every variable keeps its type, and chunk numbers held by the traceback  *)
(* and by function values are those of chunks that exist.                  *)
THEOREM TypeCorrect ==
  Spec => []TypeOK
<1>1. IInv => TypeOK
  BY DEF IInv
<1>2. QED
  BY <1>1, Invariance, PTL

(* No RETURN and no end of a module ever finds the chunk traceback empty,  *)
(* for any program, any mix of gotos, recursion, modules and errors.       *)
THEOREM FramesAreCovered ==
  Spec => []TracebackCoversFrames
<1>1. IInv => TracebackCoversFrames
  BY DEF IInv
<1>2. QED
  BY <1>1, Invariance, PTL

(* The interpreter always knows a source file to name in a message and to  *)
(* search modules from.                                                    *)
THEOREM SourceIsKnown ==
  Spec => []SourceKnown
<1>1. IInv => SourceKnown
  BY DEF IInv
<1>2. QED
  BY <1>1, Invariance, PTL
(***************************************************************************)
(* One run.  A file is run once; the flag that a failing native leaves set *)
(* is then never met by a later run, which vm_execute would start without  *)
(* clearing it.                                                            *)
(***************************************************************************)

(* Until something stops the run, neither flag is set. *)
FlagsInStep ==
  /\ runs = 0 => status = "idle" /\ ~error_from_native
  /\ running => ~error /\ ~error_from_native /\ stopped_by = "none"
  /\ ErrorAttributed

LEMMA FlagsStay ==
  ASSUME MaxRuns = 1, TypeOK, FlagsInStep, [Next]_vars
  PROVE  FlagsInStep'
<1> USE DEF FlagsInStep, ErrorAttributed
<1>1. runs \in Nat /\ error_from_native \in BOOLEAN
  BY BoundsAssumption DEF TypeOK
<1>2. CASE Start
  <2>1. runs = 0 /\ runs' = 1 /\ ~error_from_native /\ error_from_native' = error_from_native
        /\ error' = FALSE /\ stopped_by' = "none"
    BY <1>1, <1>2 DEF Start, Execute
  <2>2. QED
    BY <2>1
<1>3. CASE Raise \/ CallUndefined \/ GotoUndefined
  <2>1. /\ running /\ status = "running" /\ running' = FALSE /\ stopped_by' = "code"
        /\ UNCHANGED <<error_from_native, status, runs>>
    BY <1>3 DEF Raise, CallUndefined, GotoUndefined, Fetch, vm_error, driverVars
  <2>2. QED
    BY <2>1
<1>4. CASE NativeFails
  <2>1. /\ running' = FALSE /\ stopped_by' = "native" /\ error_from_native' = TRUE
        /\ status = "running" /\ runs' = runs
    BY <1>4 DEF NativeFails, Fetch, vm_error, driverVars
  <2>2. QED
    BY <2>1
<1>5. CASE Native \/ Exit
  <2>1. /\ running /\ status = "running" /\ error' = error /\ error_from_native' = FALSE
        /\ stopped_by' = stopped_by \/ running' = FALSE
        /\ UNCHANGED <<status, runs>>
    BY <1>5 DEF Native, Exit, Fetch, driverVars
  <2>2. QED
    BY <2>1
<1>6. CASE LoadModule
  <2>1. /\ running /\ status = "running" /\ error' = FALSE
        /\ UNCHANGED <<error_from_native, stopped_by, status, runs>>
    BY <1>6 DEF LoadModule, Execute, Fetch
  <2>2. QED
    BY <2>1
<1>7. CASE Step \/ Jump \/ FallThrough \/ Call \/ Return \/ ReturnAtTop \/ Goto \/ ModuleEnds
  <2>1. UNCHANGED <<running, error, error_from_native, stopped_by, status, runs>>
    BY <1>7 DEF Step, Jump, FallThrough, Call, Return, ReturnAtTop, Goto, ModuleEnds,
                flagVars, driverVars
  <2>2. QED
    BY <2>1
<1>8. CASE ModuleFails \/ End \/ UNCHANGED vars
  <2>1. /\ UNCHANGED <<running, error, error_from_native, stopped_by, runs>>
        /\ status' = status \/ status' = "idle"
    BY <1>8 DEF ModuleFails, End, vars, flagVars, driverVars
  <2>2. QED
    BY <2>1
<1>9. QED
  BY <1>2, <1>3, <1>4, <1>5, <1>6, <1>7, <1>8 DEF Next

(* In the one run of a file, whatever its program, a message blames a      *)
(* native function exactly when a native function raised the error: loads, *)
(* failed loads and natives that succeed come in any order before it.      *)
THEOREM ErrorsAreAttributed ==
  ASSUME MaxRuns = 1
  PROVE  Spec => []ErrorAttributed
<1>1. Init => FlagsInStep
  BY DEF Init, FlagsInStep, ErrorAttributed
<1>2. TypeOK /\ FlagsInStep /\ [Next]_vars => FlagsInStep'
  BY FlagsStay
<1>3. FlagsInStep => ErrorAttributed
  BY DEF FlagsInStep
<1>4. QED
  BY <1>1, <1>2, <1>3, TypeCorrect, PTL DEF Spec

----------------------------------------------------------------------------
(* VMControl implements Activations: sharing one saved pc among all        *)
(* activations of a chunk, and keeping frames, chunks and source files on  *)
(* three stacks, loses nothing.                                            *)
Rank == CHOOSE rank \in [Units -> Nat] : Descends(prog, rank)

(* The chunk and the unit of each activation, the running one last, and    *)
(* how many of the first k activations were entered by going to a unit of  *)
(* S: by a call for Funcs, by a load for Mods.                             *)
Depth == Len(callers) + 1
Chain == [k \in 1 .. Depth |->
            IF k = Depth THEN chunk_id
            ELSE chunk_traceback[Len(chunk_traceback) - Len(callers) + k]]
Trail == [k \in 1 .. Depth |-> chunks[Chain[k]].unit]
Count(trail, k, S) == Cardinality({j \in 2 .. k : trail[j] \in S})

(* An activation that was left for another chunk finds in its own chunk    *)
(* the address it goes on at; chunks leave the chain in one piece.         *)
Suspended ==
  /\ Len(callers) <= Len(chunk_traceback)
  /\ \A k \in 1 .. Len(callers) :
       /\ Trail[k] = callers[k].unit
       /\ callers[k].at \in Addresses(prog, callers[k].unit)
       /\ Chain[k] # Chain[k + 1] => chunks[Chain[k]].chunk_pc = callers[k].at

(* Along the activations ranks fall, except from a function to itself; its *)
(* definitions, and so its chunks, are then met from the oldest on.        *)
Falling ==
  /\ Rank \in [Units -> Nat] /\ Descends(prog, Rank)
  /\ \A j \in 1 .. Depth : \A k \in j + 1 .. Depth :
       \/ Rank[Trail[j]] > Rank[Trail[k]]
       \/ Trail[j] = Trail[k] /\ Trail[j] \in Funcs /\ Chain[j] <= Chain[k]
  /\ \A k \in 1 .. Depth : Trail[k] \in Funcs => Chain[k] <= func_chunk[Trail[k]]

(* Only the first activation is of a main unit, and none is beyond its code. *)
Rooted ==
  /\ \A k \in 1 .. Depth : Trail[k] \in Mains <=> k = 1
  /\ pc \in Addresses(prog, Here)

(* The k-th activation's frame lies under those of the later calls, and    *)
(* every load has its vm_execute.                                          *)
Framed ==
  /\ nest = Count(Trail, Depth, Mods)
  /\ Count(Trail, Depth, Funcs) <= Len(call_stack)
  /\ \A k \in 1 .. Len(callers) : Trail[k + 1] \in Funcs =>
       call_stack[Len(call_stack) - Count(Trail, Depth, Funcs) + Count(Trail, k + 1, Funcs)]
         = callers[k].at

(* The two tracebacks, of chunks and of files, name the same activations. *)
Sourced ==
  /\ Len(callers) < Len(sf_traceback)
  /\ source_filename = chunks[chunk_id].file
  /\ \A k \in 1 .. Len(callers) :
       sf_traceback[Len(sf_traceback) - Len(callers) + k] = chunks[Chain[k]].file

Linked == result = "OK" /\ Suspended /\ Falling /\ Rooted /\ Framed /\ Sourced

InStep == status = "running" /\ running => Linked

(* A function value is in a chunk of its function. *)
FuncsKnown ==
  \A f \in Funcs : func_chunk[f] # 0 => chunks[func_chunk[f]].unit = f

(***************************************************************************)
(* Data: counting along a trail, and stacks.                               *)
(***************************************************************************)

(* Counting one activation more. *)
LEMMA CountOneMore ==
  ASSUME NEW trail, NEW S, NEW k \in Nat \ {0}
  PROVE  /\ Count(trail, k, S) \in Nat
         /\ Count(trail, k + 1, S) = IF trail[k + 1] \in S THEN Count(trail, k, S) + 1
                                                           ELSE Count(trail, k, S)
<1> DEFINE T == {j \in 2 .. k : trail[j] \in S}
           U == {j \in 2 .. k + 1 : trail[j] \in S}
<1>1. IsFiniteSet(2 .. k)
  BY FS_Interval
<1>2. T \in SUBSET (2 .. k)
  OBVIOUS
<1>3. IsFiniteSet(T) /\ Cardinality(T) \in Nat
  BY <1>1, <1>2, FS_Subset, FS_CardinalityType
<1>4. k + 1 \notin T
  OBVIOUS
<1>5. CASE trail[k + 1] \in S
  <2>1. U = T \cup {k + 1}
    BY <1>5
  <2> HIDE DEF T, U
  <2>2. Cardinality(U) = Cardinality(T) + 1
    BY <1>3, <1>4, <2>1, FS_AddElement
  <2>3. QED
    BY <1>3, <1>5, <2>2 DEF Count, T, U
<1>6. CASE trail[k + 1] \notin S
  <2>1. U = T
    BY <1>6
  <2>2. QED
    BY <1>3, <1>6, <2>1 DEF Count
<1>7. QED
  BY <1>5, <1>6

(* The first activation was neither called nor loaded. *)
LEMMA CountNone ==
  ASSUME NEW trail, NEW S
  PROVE  Count(trail, 1, S) = 0
<1>1. {j \in 2 .. 1 : trail[j] \in S} = {}
  OBVIOUS
<1>2. QED
  BY <1>1, FS_EmptySet DEF Count

(* Counting further counts no fewer. *)
LEMMA CountMonotone ==
  ASSUME NEW trail, NEW S, NEW k \in Nat, NEW m \in Nat, k <= m
  PROVE  Count(trail, k, S) <= Count(trail, m, S)
<1> DEFINE T == {j \in 2 .. k : trail[j] \in S}
           U == {j \in 2 .. m : trail[j] \in S}
<1>1. IsFiniteSet(2 .. m) /\ U \in SUBSET (2 .. m) /\ T \in SUBSET U
  BY FS_Interval
<1> HIDE DEF T, U
<1>2. IsFiniteSet(U)
  BY <1>1, FS_Subset
<1>3. Cardinality(T) <= Cardinality(U)
  BY <1>1, <1>2, FS_Subset
<1>4. QED
  BY <1>3 DEF Count, T, U

(* Trails that agree up to k count the same. *)
LEMMA CountSame ==
  ASSUME NEW trail, NEW other, NEW S, NEW k \in Nat,
         \A j \in 1 .. k : trail[j] = other[j]
  PROVE  Count(trail, k, S) = Count(other, k, S)
<1>1. {j \in 2 .. k : trail[j] \in S} = {j \in 2 .. k : other[j] \in S}
  OBVIOUS
<1>2. QED
  BY <1>1 DEF Count

(* The elements of two sequences put together. *)
LEMMA Together ==
  ASSUME NEW S, NEW q \in Seq(S), NEW r \in Seq(S), NEW t, t = q \o r
  PROVE  /\ t \in Seq(S) /\ Len(q) \in Nat /\ Len(r) \in Nat
         /\ Len(t) = Len(q) + Len(r)
         /\ \A i \in 1 .. Len(q) : t[i] = q[i]
         /\ \A i \in 1 .. Len(r) : t[Len(q) + i] = r[i]
OBVIOUS

LEMMA OneAndMore ==
  ASSUME NEW S, NEW e \in S, NEW r \in Seq(S), NEW t, t = <<e>> \o r
  PROVE  /\ t \in Seq(S) /\ Len(r) \in Nat
         /\ Len(t) = 1 + Len(r) /\ t[1] = e
         /\ \A i \in 1 .. Len(r) : t[1 + i] = r[i]
OBVIOUS

(* Taking off what was pushed last. *)
LEMMA TopAndRest ==
  ASSUME NEW S, NEW q \in Seq(S), NEW a \in S
  PROVE  /\ Append(q, a) # <<>>
         /\ Len(Append(q, a)) = Len(q) + 1
         /\ Append(q, a)[Len(Append(q, a))] = a
         /\ SubSeq(Append(q, a), 1, Len(Append(q, a)) - 1) = q
<1> DEFINE r == Append(q, a)
<1>1. /\ r \in Seq(S) /\ Len(r) = Len(q) + 1 /\ Len(q) \in Nat
      /\ r[Len(q) + 1] = a /\ \A i \in 1 .. Len(q) : r[i] = q[i]
  BY AppendToSeq
<1>2. r # <<>>
  BY <1>1
<1> HIDE DEF r
<1>3. /\ SubSeq(r, 1, Len(r) - 1) \in Seq(S)
      /\ Len(SubSeq(r, 1, Len(r) - 1)) = Len(q)
      /\ \A i \in 1 .. Len(q) : SubSeq(r, 1, Len(r) - 1)[i] = q[i]
  BY <1>1, <1>2, FrontOfSeq
<1> DEFINE s == SubSeq(r, 1, Len(r) - 1)
<1> HIDE DEF s
<1>4. s \in Seq(S) /\ Len(s) = Len(q) /\ \A i \in 1 .. Len(q) : s[i] = q[i]
  BY <1>3 DEF s
<1>5. s = q
  BY <1>4, SeqEqual
<1>6. QED
  BY <1>1, <1>2, <1>5 DEF r, s

(***************************************************************************)
(* Registers, to the last field.                                           *)
(***************************************************************************)

(* Chunks cs become ds when one may have its pc saved and some are added.  *)
KeepsAllBut(c, cs, ds) ==
  /\ Len(cs) <= Len(ds)
  /\ \A d \in 1 .. Len(cs) :
       /\ ds[d].unit = cs[d].unit /\ ds[d].file = cs[d].file
       /\ d # c => ds[d].chunk_pc = cs[d].chunk_pc

(* What save_chunk writes, and where. *)
LEMMA SavesPc ==
  ASSUME NEW r, RegsOK(r), r.id # 0,
         r = [chunks |-> r.chunks, id |-> r.id, pc |-> r.pc, tb |-> r.tb]
  PROVE  LET s == save_chunk(r) IN
         /\ KeepsAllBut(r.id, r.chunks, s.chunks)
         /\ Len(s.chunks) = Len(r.chunks)
         /\ s.chunks[r.id].chunk_pc = r.pc
<1> DEFINE cs == [r.chunks EXCEPT ![r.id] = [@ EXCEPT !.chunk_pc = r.pc]]
<1>1. save_chunk(r).chunks = cs
  BY DEF save_chunk
<1>2. r.id \in 1 .. Len(r.chunks) /\ r.pc \in Nat /\ r.chunks \in Seq(Chunk)
  BY DEF RegsOK
<1>3. \A d \in 1 .. Len(r.chunks) : r.chunks[d] \in Chunk
  BY <1>2
<1>4. Len(cs) = Len(r.chunks) /\ Len(r.chunks) \in Nat
  BY <1>2
<1>5. \A d \in 1 .. Len(r.chunks) :
        /\ cs[d].unit = r.chunks[d].unit /\ cs[d].file = r.chunks[d].file
        /\ d # r.id => cs[d].chunk_pc = r.chunks[d].chunk_pc
  <2> TAKE d \in 1 .. Len(r.chunks)
  <2>1. r.chunks[d] \in Chunk
    BY <1>3
  <2>2. QED
    BY <2>1, <1>2 DEF Chunk
<1>6. cs[r.id].chunk_pc = r.pc
  <2>1. r.chunks[r.id] \in Chunk
    BY <1>2, <1>3
  <2>2. QED
    BY <2>1, <1>2 DEF Chunk
<1> HIDE DEF cs
<1>7. QED
  BY <1>1, <1>4, <1>5, <1>6 DEF KeepsAllBut

(* Keeping is transitive. *)
LEMMA KeepsTwice ==
  ASSUME NEW c, NEW cs, NEW ds, NEW es,
         Len(cs) \in Nat, Len(ds) \in Nat, Len(es) \in Nat,
         KeepsAllBut(c, cs, ds), KeepsAllBut(c, ds, es)
  PROVE  KeepsAllBut(c, cs, es)
<1>1. Len(cs) <= Len(es) /\ \A d \in 1 .. Len(cs) : d \in 1 .. Len(ds)
  BY DEF KeepsAllBut
<1>2. QED
  BY <1>1 DEF KeepsAllBut

(* Fetching saves the incremented pc in the current chunk. *)
LEMMA FetchSaves ==
  ASSUME TypeOK, Fetch
  PROVE  /\ Fetched.pc = pc + 1
         /\ KeepsAllBut(chunk_id, chunks, Fetched.chunks)
         /\ Fetched.chunks[chunk_id].chunk_pc = pc + 1
<1> DEFINE r == [Regs EXCEPT !.pc = @ + 1]
<1>1. r = [chunks |-> chunks, id |-> chunk_id, pc |-> pc + 1, tb |-> chunk_traceback]
  BY DEF Regs
<1>2. RegsOK(r)
  BY <1>1 DEF TypeOK, RegsOK, Regs
<1>3. chunk_id # 0
  BY DEF TypeOK, Fetch
<1>4. Fetched = save_chunk(r)
  BY DEF Fetched
<1> HIDE DEF r
<1>5. /\ r = [chunks |-> r.chunks, id |-> r.id, pc |-> r.pc, tb |-> r.tb]
      /\ r.id = chunk_id /\ r.chunks = chunks /\ r.pc = pc + 1
  BY <1>1
<1>6. QED
  BY <1>2, <1>3, <1>4, <1>5, SavesPc, SaveChunk

(* Entering a chunk from a chunk suspends the latter, with its pc saved.   *)
LEMMA StepSaves ==
  ASSUME NEW r, RegsOK(r), r.id # 0, NEW id \in 1 .. Len(r.chunks),
         r = [chunks |-> r.chunks, id |-> r.id, pc |-> r.pc, tb |-> r.tb]
  PROVE  LET s == step_chunk(r, id) IN
         /\ KeepsAllBut(r.id, r.chunks, s.chunks)
         /\ s.chunks[r.id].chunk_pc = r.pc
         /\ s.tb = Append(r.tb, r.id)
         /\ s.pc = s.chunks[id].chunk_pc
<1> DEFINE s == save_chunk(r)
<1>1. /\ s = [chunks |-> s.chunks, id |-> s.id, pc |-> s.pc, tb |-> s.tb]
      /\ s.id = r.id /\ s.pc = r.pc /\ s.tb = r.tb
      /\ KeepsAllBut(r.id, r.chunks, s.chunks) /\ s.chunks[r.id].chunk_pc = r.pc
  BY SaveChunk, SavesPc
<1>2. step_chunk(r, id) = [s EXCEPT !.tb = Append(r.tb, r.id), !.id = id,
                                    !.pc = s.chunks[id].chunk_pc]
  BY <1>1 DEF step_chunk
<1> HIDE DEF s
<1>3. step_chunk(r, id) = [chunks |-> s.chunks, id |-> id, pc |-> s.chunks[id].chunk_pc,
                           tb |-> Append(r.tb, r.id)]
  BY <1>1, <1>2
<1>4. QED
  BY <1>1, <1>3

(* Entering the first chunk suspends none. *)
LEMMA StepFirst ==
  ASSUME NEW cs, NEW a, NEW tb, NEW id
  PROVE  LET s == step_chunk([chunks |-> cs, id |-> 0, pc |-> a, tb |-> tb], id) IN
         s = [chunks |-> cs, id |-> id, pc |-> cs[id].chunk_pc, tb |-> tb]
<1> DEFINE r == [chunks |-> cs, id |-> 0, pc |-> a, tb |-> tb]
<1>1. r.id = 0 /\ r.tb = tb /\ r.chunks = cs
  OBVIOUS
<1> HIDE DEF r
<1>2. save_chunk(r) = r
  BY <1>1 DEF save_chunk
<1>3. step_chunk(r, id) = [r EXCEPT !.tb = tb, !.id = id, !.pc = cs[id].chunk_pc]
  BY <1>1, <1>2 DEF step_chunk
<1>4. QED
  BY <1>3 DEF r

(* Going back resumes the chunk suspended last at its saved pc. *)
LEMMA BackResumes ==
  ASSUME NEW r, RegsOK(r), r.id # 0, r.tb # <<>>,
         r = [chunks |-> r.chunks, id |-> r.id, pc |-> r.pc, tb |-> r.tb]
  PROVE  LET s == back_chunk(r) IN
         /\ KeepsAllBut(r.id, r.chunks, s.chunks)
         /\ s.chunks[r.id].chunk_pc = r.pc
         /\ s.tb = SubSeq(r.tb, 1, Len(r.tb) - 1)
         /\ s.id = r.tb[Len(r.tb)]
         /\ s.pc = s.chunks[s.id].chunk_pc
<1> DEFINE s == save_chunk(r)
<1>1. /\ s = [chunks |-> s.chunks, id |-> s.id, pc |-> s.pc, tb |-> s.tb]
      /\ s.id = r.id /\ s.pc = r.pc /\ s.tb = r.tb
      /\ KeepsAllBut(r.id, r.chunks, s.chunks) /\ s.chunks[r.id].chunk_pc = r.pc
  BY SaveChunk, SavesPc
<1> DEFINE id == r.tb[Len(r.tb)]
           tb == SubSeq(r.tb, 1, Len(r.tb) - 1)
<1>2. back_chunk(r) = [s EXCEPT !.tb = SubSeq(s.tb, 1, Len(s.tb) - 1), !.id = id,
                                !.pc = s.chunks[id].chunk_pc]
  BY DEF back_chunk
<1>3. SubSeq(s.tb, 1, Len(s.tb) - 1) = tb
  BY <1>1
<1> HIDE DEF s, tb, id
<1>4. back_chunk(r) = [chunks |-> s.chunks, id |-> id, pc |-> s.chunks[id].chunk_pc, tb |-> tb]
  BY <1>1, <1>2, <1>3
<1>5. QED
  BY <1>1, <1>4 DEF id, tb

(***************************************************************************)
(* The chain of activations.                                               *)
(***************************************************************************)

(* Every activation has a chunk, and its chunk has a unit. *)
LEMMA ChainTypes ==
  ASSUME TypeOK, status = "running", Suspended
  PROVE  /\ Len(callers) \in Nat /\ Depth = Len(callers) + 1
         /\ chunk_id \in 1 .. Len(chunks) /\ Len(chunks) \in Nat
         /\ DOMAIN Chain = 1 .. Depth /\ DOMAIN Trail = 1 .. Depth
         /\ Chain[Depth] = chunk_id /\ Trail[Depth] = Here
         /\ \A k \in 1 .. Len(callers) :
              Chain[k] = chunk_traceback[Len(chunk_traceback) - Len(callers) + k]
         /\ \A k \in 1 .. Depth : /\ Chain[k] \in 1 .. Len(chunks)
                                  /\ Trail[k] = chunks[Chain[k]].unit
                                  /\ Trail[k] \in Units
<1>1. /\ Len(callers) \in Nat /\ chunks \in Seq(Chunk) /\ Len(chunks) \in Nat
      /\ chunk_traceback \in Seq(1 .. Len(chunks)) /\ Len(chunk_traceback) \in Nat
      /\ chunk_id \in 1 .. Len(chunks)
  BY RegsLengths DEF TypeOK, RegsOK, Regs
<1>2. Depth = Len(callers) + 1 /\ DOMAIN Chain = 1 .. Depth /\ DOMAIN Trail = 1 .. Depth
  BY DEF Depth, Chain, Trail
<1>3. Chain[Depth] = chunk_id
  BY <1>1, <1>2 DEF Chain
<1>4. ASSUME NEW k \in 1 .. Len(callers)
      PROVE  /\ Chain[k] = chunk_traceback[Len(chunk_traceback) - Len(callers) + k]
             /\ Chain[k] \in 1 .. Len(chunks)
  <2>1. Chain[k] = chunk_traceback[Len(chunk_traceback) - Len(callers) + k]
    BY <1>1, <1>2 DEF Chain
  <2>2. Len(chunk_traceback) - Len(callers) + k \in 1 .. Len(chunk_traceback)
    BY <1>1 DEF Suspended
  <2> DEFINE S == 1 .. Len(chunks)
  <2>3. chunk_traceback \in Seq(S)
    BY <1>1
  <2> HIDE DEF S
  <2>4. Chain[k] \in S
    BY <2>1, <2>2, <2>3
  <2>5. QED
    BY <2>1, <2>4 DEF S
<1>5. ASSUME NEW k \in 1 .. Depth
      PROVE  Chain[k] \in 1 .. Len(chunks) /\ Trail[k] = chunks[Chain[k]].unit /\ Trail[k] \in Units
  <2>1. Chain[k] \in 1 .. Len(chunks)
    BY <1>1, <1>2, <1>3, <1>4
  <2>2. chunks[Chain[k]] \in Chunk
    BY <1>1, <2>1
  <2>3. Trail[k] = chunks[Chain[k]].unit
    BY DEF Trail
  <2>4. QED
    BY <2>1, <2>2, <2>3 DEF Chunk
<1>6. Trail[Depth] = Here
  BY <1>1, <1>2, <1>3 DEF Trail, Here
<1>7. QED
  BY <1>1, <1>2, <1>3, <1>4, <1>5, <1>6

(* Between two activations of the running chunk there are only others of it. *)
LEMMA Contiguous ==
  ASSUME TypeOK, status = "running", Suspended, Falling,
         NEW k \in 1 .. Len(callers), Chain[k] = chunk_id
  PROVE  Chain[k + 1] = chunk_id
<1>1. /\ Len(callers) \in Nat /\ Depth = Len(callers) + 1
      /\ chunk_id \in Nat /\ Chain[Depth] = chunk_id
      /\ \A i \in 1 .. Depth : /\ Chain[i] \in Nat /\ Trail[i] \in Units
                               /\ Trail[i] = chunks[Chain[i]].unit
  BY ChainTypes
<1>2. CASE k + 1 = Depth
  BY <1>1, <1>2
<1>3. CASE k + 1 # Depth
  <2>1. /\ k \in 1 .. Depth /\ k + 1 \in 1 .. Depth /\ Depth \in 1 .. Depth
        /\ k + 1 \in k + 1 .. Depth /\ Depth \in k + 1 + 1 .. Depth
    BY <1>1, <1>3
  <2>2. Trail[k] = Trail[Depth]
    BY <1>1, <2>1
  <2>3. /\ Rank[Trail[k]] \in Nat /\ Rank[Trail[k + 1]] \in Nat /\ Rank[Trail[Depth]] \in Nat
    BY <1>1, <2>1 DEF Falling
  <2>4. \/ Rank[Trail[k]] > Rank[Trail[k + 1]]
        \/ Trail[k] = Trail[k + 1] /\ Chain[k] <= Chain[k + 1]
    BY <2>1 DEF Falling
  <2>5. \/ Rank[Trail[k + 1]] > Rank[Trail[Depth]]
        \/ Trail[k + 1] = Trail[Depth] /\ Chain[k + 1] <= Chain[Depth]
    BY <2>1 DEF Falling
  <2>6. Chain[k] <= Chain[k + 1] /\ Chain[k + 1] <= Chain[Depth]
    BY <2>2, <2>3, <2>4, <2>5
  <2>7. QED
    BY <1>1, <2>1, <2>6
<1>4. QED
  BY <1>2, <1>3

(* Instructions that stay in their activation keep the links. *)
LEMMA Staying ==
  ASSUME IInv, status = "running", Linked,
         KeepsAllBut(chunk_id, chunks, chunks'), pc' \in Addresses(prog, Here), result' = "OK",
         UNCHANGED <<prog, chunk_id, chunk_traceback, call_stack, func_chunk, sourceVars,
                     nest, callers>>
  PROVE  Linked' /\ Here' = Here
<1>1. /\ Len(callers) \in Nat /\ Depth = Len(callers) + 1 /\ chunk_id \in 1 .. Len(chunks)
      /\ Len(chunks) \in Nat
      /\ \A k \in 1 .. Depth : Chain[k] \in 1 .. Len(chunks)
      /\ DOMAIN Trail = 1 .. Depth
      /\ \A k \in 1 .. Depth : Trail[k] = chunks[Chain[k]].unit
  BY ChainTypes DEF IInv, Linked
<1>2. Depth' = Depth /\ Chain' = Chain /\ Rank' = Rank
  BY DEF Depth, Chain, Rank
<1>3. /\ \A c \in 1 .. Len(chunks) : chunks'[c].unit = chunks[c].unit
                                     /\ chunks'[c].file = chunks[c].file
      /\ \A c \in 1 .. Len(chunks) : c # chunk_id => chunks'[c].chunk_pc = chunks[c].chunk_pc
  BY DEF KeepsAllBut
<1>4. Trail' = Trail
  <2>1. Trail' = [k \in 1 .. Depth |-> chunks'[Chain[k]].unit]
    BY <1>2 DEF Trail
  <2>2. \A k \in 1 .. Depth : chunks'[Chain[k]].unit = chunks[Chain[k]].unit
    BY <1>1, <1>3
  <2>3. Trail = [k \in 1 .. Depth |-> chunks[Chain[k]].unit]
    BY DEF Trail
  <2>4. QED
    BY <2>1, <2>2, <2>3
<1>5. Here' = Here
  BY <1>1, <1>3 DEF Here
<1>6. Suspended'
  <2>1. ASSUME NEW k \in 1 .. Len(callers), Chain[k] # Chain[k + 1]
        PROVE  chunks'[Chain[k]].chunk_pc = callers[k].at
    <3>1. Chain[k] # chunk_id
      BY <2>1, Contiguous DEF IInv, Linked
    <3>2. Chain[k] \in 1 .. Len(chunks)
      BY <1>1
    <3>3. QED
      BY <1>3, <2>1, <3>1, <3>2 DEF Linked, Suspended
  <2>2. \A u : Addresses(prog', u) = Addresses(prog, u)
    BY DEF Addresses
  <2>3. QED
    BY <1>2, <1>4, <2>1, <2>2 DEF Linked, Suspended
<1>7. Falling'
  BY <1>2, <1>4 DEF Linked, Falling, Descends
<1>8. Rooted'
  BY <1>2, <1>4, <1>5 DEF Linked, Rooted, Addresses
<1>9. Framed'
  BY <1>2, <1>4 DEF Linked, Framed
<1>10. Sourced'
  <2>1. \A k \in 1 .. Len(callers) : chunks'[Chain[k]].file = chunks[Chain[k]].file
    BY <1>1, <1>3
  <2>2. chunks'[chunk_id].file = chunks[chunk_id].file
    BY <1>1, <1>3
  <2>3. QED
    BY <1>2, <2>1, <2>2 DEF Linked, Sourced, sourceVars
<1>11. QED
  BY <1>5, <1>6, <1>7, <1>8, <1>9, <1>10 DEF Linked

(* Entering chunk c, of unit v: the activation left behind goes on at a.   *)
GoesTo(c, v, a) ==
  /\ callers' = Append(callers, [unit |-> Here, at |-> a])
  /\ chunk_traceback' = Append(chunk_traceback, chunk_id)
  /\ chunk_id' = c /\ pc' = 0
  /\ KeepsAllBut(chunk_id, chunks, chunks')
  /\ chunks'[chunk_id].chunk_pc = a
  /\ c \in 1 .. Len(chunks') /\ chunks'[c].unit = v
  /\ sf_traceback' = Append(sf_traceback, source_filename)
  /\ source_filename' = chunks'[c].file
  /\ UNCHANGED prog /\ result' = "OK"
  /\ \A f \in Funcs : func_chunk'[f] \in Nat /\ func_chunk[f] <= func_chunk'[f]

(* A call enters a function and leaves a frame, a load enters a module and *)
(* a vm_execute.                                                           *)
Records(c, v, a) ==
  \/ /\ v \in Funcs /\ call_stack' = Append(call_stack, a) /\ nest' = nest
     /\ c <= func_chunk'[v]
  \/ v \in Mods /\ call_stack' = call_stack /\ nest' = nest + 1

(* Afterwards there is one activation more, and the others are unchanged.  *)
LEMMA ChainGrows ==
  ASSUME IInv, status = "running", Linked, NEW c, NEW v, NEW a, GoesTo(c, v, a)
  PROVE  /\ Depth' = Depth + 1 /\ Len(callers') = Len(callers) + 1
         /\ Chain'[Depth + 1] = c /\ Trail'[Depth + 1] = v
         /\ \A k \in 1 .. Depth : Chain'[k] = Chain[k] /\ Trail'[k] = Trail[k]
         /\ \A k \in 1 .. Len(callers) : callers'[k] = callers[k]
         /\ callers'[Depth] = [unit |-> Here, at |-> a]
<1>1. /\ Len(callers) \in Nat /\ Depth = Len(callers) + 1 /\ chunk_id \in 1 .. Len(chunks)
      /\ Len(chunks) \in Nat /\ Chain[Depth] = chunk_id
      /\ \A k \in 1 .. Depth : Chain[k] \in 1 .. Len(chunks) /\ Trail[k] = chunks[Chain[k]].unit
      /\ \A k \in 1 .. Len(callers) :
              Chain[k] = chunk_traceback[Len(chunk_traceback) - Len(callers) + k]
  BY ChainTypes DEF IInv, Linked
<1>2. /\ callers' = Append(callers, [unit |-> Here, at |-> a])
      /\ chunk_traceback' = Append(chunk_traceback, chunk_id)
      /\ chunk_id' = c /\ c \in 1 .. Len(chunks') /\ chunks'[c].unit = v
      /\ \A d \in 1 .. Len(chunks) : chunks'[d].unit = chunks[d].unit
  BY DEF GoesTo, KeepsAllBut
<1>3. /\ chunk_traceback \in Seq(1 .. Len(chunks)) /\ Len(chunk_traceback) \in Nat
      /\ callers \in Seq([unit : Units, at : Nat])
      /\ Len(callers) <= Len(chunk_traceback)
  BY RegsLengths DEF IInv, TypeOK, RegsOK, Regs, Linked, Suspended
<1>4. /\ Len(chunk_traceback') = Len(chunk_traceback) + 1
      /\ chunk_traceback'[Len(chunk_traceback) + 1] = chunk_id
      /\ \A i \in 1 .. Len(chunk_traceback) : chunk_traceback'[i] = chunk_traceback[i]
  <2> DEFINE S == 1 .. Len(chunks)
  <2>1. chunk_traceback \in Seq(S) /\ chunk_id \in S
    BY <1>1, <1>3
  <2> HIDE DEF S
  <2>2. QED
    BY <1>2, <2>1, AppendToSeq
<1>5. /\ Len(callers') = Len(callers) + 1
      /\ callers'[Len(callers) + 1] = [unit |-> Here, at |-> a]
      /\ \A i \in 1 .. Len(callers) : callers'[i] = callers[i]
  BY <1>2, <1>3
<1>6. Depth' = Depth + 1
  BY <1>1, <1>5 DEF Depth
<1>7. Chain' = [k \in 1 .. Depth + 1 |->
                  IF k = Depth + 1 THEN c
                  ELSE chunk_traceback'[Len(chunk_traceback') - Len(callers') + k]]
  BY <1>2, <1>6 DEF Chain
<1>8. Chain'[Depth + 1] = c
  BY <1>1, <1>7
<1>9. ASSUME NEW k \in 1 .. Depth
      PROVE  Chain'[k] = Chain[k]
  <2>1. Chain'[k] = chunk_traceback'[Len(chunk_traceback) - Len(callers) + k]
    <3>1. Len(chunk_traceback') - Len(callers') + k = Len(chunk_traceback) - Len(callers) + k
      BY <1>1, <1>3, <1>4, <1>5
    <3>2. k # Depth + 1 /\ k \in 1 .. Depth + 1
      BY <1>1
    <3>3. QED
      BY <1>7, <3>1, <3>2
  <2>2. CASE k = Depth
    <3>1. Len(chunk_traceback) - Len(callers) + k = Len(chunk_traceback) + 1
      BY <1>1, <1>3, <2>2
    <3>2. QED
      BY <1>1, <1>4, <2>1, <2>2, <3>1
  <2>3. CASE k # Depth
    <3>1. /\ k \in 1 .. Len(callers)
          /\ Len(chunk_traceback) - Len(callers) + k \in 1 .. Len(chunk_traceback)
      BY <1>1, <1>3, <2>3
    <3>2. QED
      BY <1>1, <1>4, <2>1, <3>1
  <2>4. QED
    BY <2>2, <2>3
<1>10. /\ Trail'[Depth + 1] = v
       /\ \A k \in 1 .. Depth : Trail'[k] = Trail[k]
  <2>1. Trail' = [k \in 1 .. Depth + 1 |-> chunks'[Chain'[k]].unit]
    BY <1>6 DEF Trail
  <2>2. Depth + 1 \in 1 .. Depth + 1 /\ \A k \in 1 .. Depth : k \in 1 .. Depth + 1
    BY <1>1
  <2> HIDE <1>7
  <2>3. QED
    BY <1>1, <1>2, <1>8, <1>9, <2>1, <2>2
<1>11. QED
  BY <1>1, <1>5, <1>6, <1>8, <1>9, <1>10

(* Entering a unit further down, or its own function again, keeps the      *)
(* links: what is suspended now keeps its address until it is resumed.     *)
LEMMA Entering ==
  ASSUME IInv, status = "running", Linked,
         NEW v \in Funcs \cup Mods, NEW c, NEW a \in Addresses(prog, Here),
         GoesTo(c, v, a), Records(c, v, a), 0 \in Addresses(prog, v),
         \/ Rank[v] < Rank[Here]
         \/ v = Here /\ v \in Funcs /\ chunk_id <= c
  PROVE  Linked'
<1>1. /\ Len(callers) \in Nat /\ Depth = Len(callers) + 1 /\ chunk_id \in 1 .. Len(chunks)
      /\ Len(chunks) \in Nat /\ Chain[Depth] = chunk_id /\ Trail[Depth] = Here
      /\ \A k \in 1 .. Depth : /\ Chain[k] \in 1 .. Len(chunks)
                               /\ Trail[k] = chunks[Chain[k]].unit /\ Trail[k] \in Units
  BY ChainTypes DEF IInv, Linked
<1>2. /\ Depth' = Depth + 1 /\ Len(callers') = Len(callers) + 1
      /\ Chain'[Depth + 1] = c /\ Trail'[Depth + 1] = v
      /\ \A k \in 1 .. Depth : Chain'[k] = Chain[k] /\ Trail'[k] = Trail[k]
      /\ \A k \in 1 .. Len(callers) : callers'[k] = callers[k]
      /\ callers'[Depth] = [unit |-> Here, at |-> a]
  BY ChainGrows
<1>3. /\ \A d \in 1 .. Len(chunks) : chunks'[d].unit = chunks[d].unit
                                     /\ chunks'[d].file = chunks[d].file
      /\ \A d \in 1 .. Len(chunks) : d # chunk_id => chunks'[d].chunk_pc = chunks[d].chunk_pc
      /\ chunks'[chunk_id].chunk_pc = a
      /\ Len(chunks) <= Len(chunks') /\ c \in 1 .. Len(chunks') /\ chunks'[c].unit = v
      /\ prog' = prog /\ chunk_id' = c /\ pc' = 0 /\ result' = "OK"
  BY DEF GoesTo, KeepsAllBut
<1>4. \A u : Addresses(prog', u) = Addresses(prog, u)
  BY <1>3 DEF Addresses
<1>5. Rank' = Rank /\ Rank \in [Units -> Nat] /\ v \in Units /\ Here \in Units
  <2>1. Rank' = Rank
    BY <1>3 DEF Rank
  <2>2. Depth \in 1 .. Depth
    BY <1>1
  <2>3. QED
    BY <1>1, <2>1, <2>2 DEF Linked, Falling, Units
<1>6. Suspended'
  <2>1. Len(callers') <= Len(chunk_traceback')
    <3>1. Len(chunk_traceback') = Len(chunk_traceback) + 1 /\ Len(chunk_traceback) \in Nat
      BY <1>1 DEF GoesTo, IInv, TypeOK, RegsOK, Regs
    <3>2. QED
      BY <1>1, <1>2, <3>1 DEF Linked, Suspended
  <2>2. ASSUME NEW k \in 1 .. Len(callers)
        PROVE  /\ Trail'[k] = callers'[k].unit
               /\ callers'[k].at \in Addresses(prog, callers'[k].unit)
               /\ Chain'[k] # Chain'[k + 1] => chunks'[Chain'[k]].chunk_pc = callers'[k].at
    <3>1. /\ k \in 1 .. Depth /\ k + 1 \in 1 .. Depth /\ callers'[k] = callers[k]
          /\ Trail'[k] = Trail[k] /\ Chain'[k] = Chain[k] /\ Chain'[k + 1] = Chain[k + 1]
      BY <1>1, <1>2
    <3>2. /\ Trail[k] = callers[k].unit
          /\ callers[k].at \in Addresses(prog, callers[k].unit)
          /\ Chain[k] # Chain[k + 1] => chunks[Chain[k]].chunk_pc = callers[k].at
      BY DEF Linked, Suspended
    <3>3. Chain[k] = chunk_id => Chain[k + 1] = chunk_id
      BY Contiguous DEF IInv, Linked
    <3>4. Chain[k] # Chain[k + 1] => chunks'[Chain[k]].chunk_pc = callers[k].at
      BY <1>1, <1>3, <3>1, <3>2, <3>3
    <3>5. QED
      BY <3>1, <3>2, <3>4
  <2>3. /\ Trail'[Depth] = callers'[Depth].unit
        /\ callers'[Depth].at \in Addresses(prog, callers'[Depth].unit)
        /\ chunks'[Chain'[Depth]].chunk_pc = callers'[Depth].at
    <3>1. Depth \in 1 .. Depth
      BY <1>1
    <3>2. callers'[Depth].unit = Here /\ callers'[Depth].at = a
      BY <1>2
    <3>3. QED
      BY <1>1, <1>2, <1>3, <3>1, <3>2
  <2>4. \A k \in 1 .. Len(callers') : k \in 1 .. Len(callers) \/ k = Depth
    BY <1>1, <1>2
  <2>5. QED
    BY <1>4, <2>1, <2>2, <2>3, <2>4 DEF Suspended
<1>7. Falling'
  <2>1. Rank' \in [Units -> Nat] /\ Descends(prog', Rank')
    BY <1>3, <1>5 DEF Linked, Falling
  <2>2. ASSUME NEW j \in 1 .. Depth', NEW k \in j + 1 .. Depth'
        PROVE  \/ Rank[Trail'[j]] > Rank[Trail'[k]]
               \/ Trail'[j] = Trail'[k] /\ Trail'[j] \in Funcs /\ Chain'[j] <= Chain'[k]
    <3>1. j \in 1 .. Depth /\ k \in 1 .. Depth + 1 /\ Depth \in 1 .. Depth
      BY <1>1, <1>2
    <3>2. CASE k # Depth + 1
      <4>1. k \in 1 .. Depth /\ k \in j + 1 .. Depth
        BY <1>1, <3>1, <3>2
      <4>2. QED
        BY <1>2, <3>1, <4>1 DEF Linked, Falling
    <3>3. CASE k = Depth + 1
      <4>1. Trail'[k] = v /\ Chain'[k] = c /\ Trail'[j] = Trail[j] /\ Chain'[j] = Chain[j]
        BY <1>2, <3>1, <3>3
      <4>2. /\ Rank[Trail[j]] \in Nat /\ Rank[Here] \in Nat /\ Rank[v] \in Nat
            /\ Chain[j] \in Nat /\ chunk_id \in Nat /\ c \in Nat
        BY <1>1, <1>3, <1>5, <3>1, SMTT(40)
      <4>3. \/ Rank[Trail[j]] > Rank[Here]
            \/ Trail[j] = Here /\ Chain[j] <= chunk_id
        <5>1. CASE j = Depth
          BY <1>1, <4>2, <5>1
        <5>2. CASE j # Depth
          <6>1. Depth \in j + 1 .. Depth
            BY <1>1, <3>1, <5>2
          <6>2. QED
            BY <1>1, <3>1, <6>1 DEF Linked, Falling
        <5>3. QED
          BY <5>1, <5>2
      <4>4. QED
        BY <4>1, <4>2, <4>3
    <3>4. QED
      BY <3>2, <3>3
  <2>3. ASSUME NEW k \in 1 .. Depth', Trail'[k] \in Funcs
        PROVE  Chain'[k] <= func_chunk'[Trail'[k]]
    <3>1. CASE k \in 1 .. Depth
      <4>1. Trail'[k] = Trail[k] /\ Chain'[k] = Chain[k] /\ Trail[k] \in Funcs
        BY <1>2, <2>3, <3>1
      <4>2. Chain[k] <= func_chunk[Trail[k]]
        BY <3>1, <4>1 DEF Linked, Falling
      <4>3. func_chunk[Trail[k]] <= func_chunk'[Trail[k]]
        BY <4>1 DEF GoesTo
      <4>4. Chain[k] \in Int /\ func_chunk[Trail[k]] \in Int /\ func_chunk'[Trail[k]] \in Int
        BY <1>1, <3>1, <4>1, SMTT(40) DEF IInv, TypeOK, GoesTo
      <4>5. QED
        BY <4>1, <4>2, <4>3, <4>4
    <3>2. CASE k = Depth + 1
      BY <1>2, <2>3, <3>2, UnitsAssumption DEF Records
    <3>3. QED
      BY <1>1, <1>2, <3>1, <3>2
  <2>4. QED
    BY <1>5, <2>1, <2>2, <2>3 DEF Falling
<1>8. Rooted'
  <2>1. Here' = v
    BY <1>3 DEF Here
  <2>2. ASSUME NEW k \in 1 .. Depth' PROVE Trail'[k] \in Mains <=> k = 1
    <3>1. CASE k \in 1 .. Depth
      BY <1>2, <3>1 DEF Linked, Rooted
    <3>2. CASE k = Depth + 1
      BY <1>1, <1>2, <3>2, UnitsAssumption
    <3>3. QED
      BY <1>1, <1>2, <3>1, <3>2
  <2>3. QED
    BY <1>3, <1>4, <2>1, <2>2 DEF Rooted
<1>9. Framed'
  <2>1. \A S : \A k \in 1 .. Depth : Count(Trail', k, S) = Count(Trail, k, S)
    <3> SUFFICES ASSUME NEW S, NEW k \in 1 .. Depth
                 PROVE  Count(Trail', k, S) = Count(Trail, k, S)
      OBVIOUS
    <3>1. k \in Nat /\ \A j \in 1 .. k : Trail'[j] = Trail[j]
      BY <1>1, <1>2
    <3>2. QED
      BY <3>1, CountSame
  <2>2. /\ Depth \in 1 .. Depth /\ Depth \in Nat \ {0}
    BY <1>1
  <2>3. \A S : /\ Count(Trail, Depth, S) \in Nat
              /\ Count(Trail', Depth + 1, S) =
                   IF v \in S THEN Count(Trail, Depth, S) + 1 ELSE Count(Trail, Depth, S)
    BY <1>2, <2>1, <2>2, CountOneMore
  <2> DEFINE F == Count(Trail, Depth, Funcs)
             G == Count(Trail', Depth + 1, Funcs)
  <2>4. /\ F \in Nat /\ Len(call_stack) \in Nat /\ F <= Len(call_stack)
        /\ call_stack \in Seq(Nat) /\ a \in Nat
    BY <2>3 DEF Linked, Framed, IInv, TypeOK, Addresses
  <2>5. ASSUME NEW k \in 1 .. Len(callers), Trail[k + 1] \in Funcs
        PROVE  /\ Count(Trail', k + 1, Funcs) = Count(Trail, k + 1, Funcs)
               /\ Count(Trail, k + 1, Funcs) \in 1 .. F
               /\ call_stack[Len(call_stack) - F + Count(Trail, k + 1, Funcs)] = callers[k].at
    <3>1. k \in Nat \ {0} /\ k + 1 \in 1 .. Depth /\ k + 1 \in Nat /\ k + 1 <= Depth
      BY <1>1
    <3>2. Count(Trail, k + 1, Funcs) = Count(Trail, k, Funcs) + 1 /\ Count(Trail, k, Funcs) \in Nat
      BY <2>5, <3>1, CountOneMore
    <3>3. Count(Trail, k + 1, Funcs) <= F
      BY <2>2, <3>1, CountMonotone
    <3>4. QED
      BY <2>1, <2>5, <3>1, <3>2, <3>3 DEF Linked, Framed
  <2> HIDE DEF F, G
  <2>6. \A k \in 1 .. Len(callers) : k + 1 \in 1 .. Depth /\ callers'[k] = callers[k]
                                     /\ Trail'[k + 1] = Trail[k + 1]
    BY <1>1, <1>2
  <2>7. \A k \in 1 .. Len(callers') : k \in 1 .. Len(callers) \/ k = Depth
    BY <1>1, <1>2
  <2>8. callers'[Depth].at = a
    BY <1>2
  <2>9. nest' = Count(Trail', Depth + 1, Mods) /\ G <= Len(call_stack')
    <3>1. nest = Count(Trail, Depth, Mods)
      BY DEF Linked, Framed
    <3>2. CASE v \in Funcs
      <4>1. v \notin Mods /\ nest' = nest /\ call_stack' = Append(call_stack, a)
        BY <3>2, UnitsAssumption DEF Records
      <4>2. QED
        BY <2>3, <2>4, <3>1, <3>2, <4>1 DEF F, G
    <3>3. CASE v \in Mods
      <4>1. v \notin Funcs /\ nest' = nest + 1 /\ call_stack' = call_stack
        BY <3>3, UnitsAssumption DEF Records
      <4>2. QED
        BY <2>3, <2>4, <3>1, <3>3, <4>1 DEF F, G
    <3>4. QED
      BY <3>2, <3>3
  <2>10. ASSUME NEW k \in 1 .. Len(callers'), Trail'[k + 1] \in Funcs
         PROVE  call_stack'[Len(call_stack') - G + Count(Trail', k + 1, Funcs)] = callers'[k].at
    <3>1. CASE v \in Funcs
      <4>1. /\ call_stack' = Append(call_stack, a) /\ Len(call_stack') = Len(call_stack) + 1
            /\ G = F + 1
        BY <2>3, <2>4, <3>1, UnitsAssumption DEF Records, F, G
      <4>2. CASE k \in 1 .. Len(callers)
        <5>1. /\ Count(Trail', k + 1, Funcs) = Count(Trail, k + 1, Funcs)
              /\ Count(Trail, k + 1, Funcs) \in 1 .. F
              /\ call_stack[Len(call_stack) - F + Count(Trail, k + 1, Funcs)] = callers[k].at
          BY <2>5, <2>6, <2>10, <4>2
        <5>2. Len(call_stack') - G + Count(Trail', k + 1, Funcs)
                = Len(call_stack) - F + Count(Trail, k + 1, Funcs)
          BY <2>4, <4>1, <5>1
        <5>3. Len(call_stack) - F + Count(Trail, k + 1, Funcs) \in 1 .. Len(call_stack)
          BY <2>4, <5>1, SMTT(40)
        <5>4. QED
          BY <2>4, <2>6, <4>1, <4>2, <5>1, <5>2, <5>3, SMTT(40)
      <4>3. CASE k = Depth
        <5>1. Count(Trail', k + 1, Funcs) = G
          BY <4>3 DEF G
        <5>2. Len(call_stack') - G + G = Len(call_stack) + 1
          BY <2>4, <4>1
        <5>3. QED
          BY <2>4, <2>8, <4>1, <4>3, <5>1, <5>2
      <4>4. QED
        BY <2>7, <4>2, <4>3
    <3>2. CASE v \in Mods
      <4>1. call_stack' = call_stack /\ G = F /\ v \notin Funcs
        BY <2>3, <2>4, <3>2, UnitsAssumption DEF Records, F, G
      <4>2. k \in 1 .. Len(callers)
        BY <1>2, <2>7, <2>10, <4>1
      <4>3. QED
        BY <2>5, <2>6, <2>10, <4>1, <4>2
    <3>3. QED
      BY <3>1, <3>2
  <2>11. QED
    BY <1>2, <2>9, <2>10 DEF Framed, G
<1>10. Sourced'
  <2>1. /\ sf_traceback \in Seq(Files \cup {NoFile}) /\ source_filename \in Files \cup {NoFile}
        /\ sf_traceback' = Append(sf_traceback, source_filename)
        /\ source_filename' = chunks'[c].file
    BY DEF IInv, TypeOK, GoesTo
  <2>2. /\ Len(sf_traceback) \in Nat /\ Len(callers) < Len(sf_traceback)
        /\ Len(sf_traceback') = Len(sf_traceback) + 1
        /\ sf_traceback'[Len(sf_traceback) + 1] = source_filename
        /\ \A i \in 1 .. Len(sf_traceback) : sf_traceback'[i] = sf_traceback[i]
    <3> DEFINE S == Files \cup {NoFile}
    <3>1. sf_traceback \in Seq(S) /\ source_filename \in S
      BY <2>1
    <3> HIDE DEF S
    <3>2. QED
      BY <2>1, <3>1, AppendToSeq DEF Linked, Sourced
  <2>3. ASSUME NEW k \in 1 .. Len(callers')
        PROVE  sf_traceback'[Len(sf_traceback') - Len(callers') + k] = chunks'[Chain'[k]].file
    <3>1. Len(sf_traceback') - Len(callers') + k = Len(sf_traceback) - Len(callers) + k
      BY <1>1, <1>2, <2>2
    <3>2. CASE k \in 1 .. Len(callers)
      <4>1. Len(sf_traceback) - Len(callers) + k \in 1 .. Len(sf_traceback)
        BY <1>1, <2>2, <3>2
      <4>2. sf_traceback[Len(sf_traceback) - Len(callers) + k] = chunks[Chain[k]].file
        BY <3>2 DEF Linked, Sourced
      <4>3. k \in 1 .. Depth
        BY <1>1, <3>2
      <4>4. Chain'[k] = Chain[k] /\ Chain[k] \in 1 .. Len(chunks)
        BY <1>1, <1>2, <4>3
      <4>5. chunks'[Chain'[k]].file = chunks[Chain[k]].file
        BY <1>3, <4>4
      <4>6. QED
        BY <2>2, <3>1, <4>1, <4>2, <4>5
    <3>3. CASE k = Depth
      <4>1. Len(sf_traceback) - Len(callers) + k = Len(sf_traceback) + 1
        BY <1>1, <2>2, <3>3
      <4>2. source_filename = chunks[chunk_id].file /\ Depth \in 1 .. Depth
        BY <1>1 DEF Linked, Sourced
      <4>3. Chain'[k] = chunk_id
        BY <1>1, <1>2, <3>3, <4>2
      <4>4. chunks'[Chain'[k]].file = chunks[chunk_id].file
        BY <1>1, <1>3, <4>3
      <4>5. QED
        BY <2>2, <3>1, <4>1, <4>2, <4>4
    <3>4. QED
      BY <1>1, <1>2, <3>2, <3>3
  <2>4. Len(callers') < Len(sf_traceback')
    BY <1>1, <1>2, <2>2
  <2>5. source_filename' = chunks'[chunk_id'].file
    BY <1>3, <2>1
  <2>6. QED
    BY <2>3, <2>4, <2>5 DEF Sourced
<1>11. QED
  BY <1>3, <1>6, <1>7, <1>8, <1>9, <1>10 DEF Linked

(* Going back to the activation suspended last, at the pc of its chunk,    *)
(* after saving a in the chunk left.                                       *)
Resumes(a) ==
  /\ callers' = SubSeq(callers, 1, Len(callers) - 1)
  /\ chunk_traceback' = SubSeq(chunk_traceback, 1, Len(chunk_traceback) - 1)
  /\ chunk_id' = chunk_traceback[Len(chunk_traceback)]
  /\ pc' = chunks'[chunk_id'].chunk_pc
  /\ KeepsAllBut(chunk_id, chunks, chunks')
  /\ chunks'[chunk_id].chunk_pc = a
  /\ sf_traceback' = SubSeq(sf_traceback, 1, Len(sf_traceback) - 1)
  /\ source_filename' = sf_traceback[Len(sf_traceback)]
  /\ UNCHANGED <<prog, func_chunk>> /\ result' = "OK"

(* A function gives its frame back, whose address is what was saved; a     *)
(* module its vm_execute.                                                  *)
Restores(a) ==
  \/ /\ Here \in Funcs /\ nest' = nest
     /\ call_stack' = SubSeq(call_stack, 1, Len(call_stack) - 1)
     /\ a = call_stack[Len(call_stack)]
  \/ Here \in Mods /\ call_stack' = call_stack /\ nest' = nest - 1

(* Afterwards the last activation is gone and the others are unchanged. *)
LEMMA ChainShrinks ==
  ASSUME IInv, status = "running", Linked, callers # <<>>, NEW a, Resumes(a)
  PROVE  /\ Depth' = Len(callers) /\ Len(callers') = Len(callers) - 1
         /\ Len(callers) \in Nat \ {0}
         /\ \A k \in 1 .. Len(callers) : Chain'[k] = Chain[k] /\ Trail'[k] = Trail[k]
         /\ \A k \in 1 .. Len(callers) - 1 : callers'[k] = callers[k]
         /\ chunk_id' = Chain[Len(callers)] /\ Here' = Trail[Len(callers)]
<1>1. /\ Len(callers) \in Nat /\ Depth = Len(callers) + 1 /\ chunk_id \in 1 .. Len(chunks)
      /\ Len(chunks) \in Nat /\ Chain[Depth] = chunk_id
      /\ \A k \in 1 .. Depth : Chain[k] \in 1 .. Len(chunks) /\ Trail[k] = chunks[Chain[k]].unit
      /\ \A k \in 1 .. Len(callers) :
              Chain[k] = chunk_traceback[Len(chunk_traceback) - Len(callers) + k]
  BY ChainTypes DEF IInv, Linked
<1>2. /\ Len(callers) \in Nat \ {0} /\ Len(callers') = Len(callers) - 1
      /\ \A k \in 1 .. Len(callers) - 1 : callers'[k] = callers[k]
  <2> DEFINE S == [unit : Units, at : Nat]
  <2>1. callers \in Seq(S) /\ callers' = SubSeq(callers, 1, Len(callers) - 1)
    BY DEF IInv, TypeOK, Resumes
  <2> HIDE DEF S
  <2>2. QED
    BY <2>1, FrontOfSeq
<1>3. /\ Len(chunk_traceback) \in Nat \ {0} /\ Len(callers) <= Len(chunk_traceback)
      /\ Len(chunk_traceback') = Len(chunk_traceback) - 1
      /\ \A i \in 1 .. Len(chunk_traceback) - 1 : chunk_traceback'[i] = chunk_traceback[i]
  <2> DEFINE S == 1 .. Len(chunks)
  <2>1. chunk_traceback \in Seq(S) /\ Len(callers) <= Len(chunk_traceback)
    BY DEF IInv, TypeOK, RegsOK, Regs, Linked, Suspended
  <2> HIDE DEF S
  <2>2. chunk_traceback # <<>> /\ Len(chunk_traceback) \in Nat
    BY <1>2, <2>1
  <2>3. QED
    BY <2>1, <2>2, FrontOfSeq DEF Resumes
<1>4. Depth' = Len(callers)
  BY <1>2 DEF Depth
<1>5. chunk_id' = Chain[Len(callers)]
  <2>1. Len(callers) \in 1 .. Len(callers)
        /\ Len(chunk_traceback) - Len(callers) + Len(callers) = Len(chunk_traceback)
    BY <1>2, <1>3
  <2>2. QED
    BY <1>1, <2>1 DEF Resumes
<1>6. Chain' = [k \in 1 .. Len(callers) |->
                  IF k = Len(callers) THEN chunk_id'
                  ELSE chunk_traceback'[Len(chunk_traceback') - Len(callers') + k]]
  BY <1>4 DEF Chain
<1>7. ASSUME NEW k \in 1 .. Len(callers)
      PROVE  Chain'[k] = Chain[k]
  <2>1. CASE k = Len(callers)
    BY <1>5, <1>6, <2>1
  <2>2. CASE k # Len(callers)
    <3>1. Chain'[k] = chunk_traceback'[Len(chunk_traceback') - Len(callers') + k]
      BY <1>6, <2>2
    <3>2. /\ Len(chunk_traceback') - Len(callers') + k = Len(chunk_traceback) - Len(callers) + k
          /\ Len(chunk_traceback) - Len(callers) + k \in 1 .. Len(chunk_traceback) - 1
      BY <1>2, <1>3, <2>2
    <3>3. QED
      BY <1>1, <1>3, <3>1, <3>2
  <2>3. QED
    BY <2>1, <2>2
<1>8. \A c \in 1 .. Len(chunks) : chunks'[c].unit = chunks[c].unit
  BY DEF Resumes, KeepsAllBut
<1>9. \A k \in 1 .. Len(callers) : Trail'[k] = Trail[k]
  <2>1. Trail' = [k \in 1 .. Len(callers) |-> chunks'[Chain'[k]].unit]
    BY <1>4 DEF Trail
  <2>2. \A k \in 1 .. Len(callers) : k \in 1 .. Depth
    BY <1>1
  <2> HIDE <1>6
  <2>3. QED
    BY <1>1, <1>7, <1>8, <2>1, <2>2
<1>10. Here' = Trail[Len(callers)]
  <2>1. Len(callers) \in 1 .. Depth
    BY <1>1, <1>2
  <2>2. QED
    BY <1>1, <1>5, <1>8, <2>1 DEF Here
<1>11. QED
  BY <1>2, <1>4, <1>5, <1>7, <1>9, <1>10

(* The activation resumed goes on exactly where it was suspended, and the  *)
(* links are kept.                                                         *)
LEMMA Leaving ==
  ASSUME IInv, status = "running", Linked, callers # <<>>,
         NEW a, Resumes(a), Restores(a)
  PROVE  /\ Here' = callers[Len(callers)].unit
         /\ pc' = callers[Len(callers)].at
         /\ Linked'
<1> DEFINE n == Len(callers)
<1>1. /\ n \in Nat \ {0} /\ Depth = n + 1 /\ chunk_id \in 1 .. Len(chunks)
      /\ Len(chunks) \in Nat /\ Chain[Depth] = chunk_id /\ Trail[Depth] = Here
      /\ \A k \in 1 .. Depth : /\ Chain[k] \in 1 .. Len(chunks)
                               /\ Trail[k] = chunks[Chain[k]].unit /\ Trail[k] \in Units
  BY ChainTypes, ChainShrinks DEF IInv, Linked
<1>2. /\ Depth' = n /\ Len(callers') = n - 1
      /\ \A k \in 1 .. n : Chain'[k] = Chain[k] /\ Trail'[k] = Trail[k]
      /\ \A k \in 1 .. n - 1 : callers'[k] = callers[k]
      /\ chunk_id' = Chain[n] /\ Here' = Trail[n]
  BY ChainShrinks
<1>3. /\ \A d \in 1 .. Len(chunks) : chunks'[d].unit = chunks[d].unit
                                     /\ chunks'[d].file = chunks[d].file
      /\ \A d \in 1 .. Len(chunks) : d # chunk_id => chunks'[d].chunk_pc = chunks[d].chunk_pc
      /\ chunks'[chunk_id].chunk_pc = a
      /\ prog' = prog /\ pc' = chunks'[chunk_id'].chunk_pc /\ result' = "OK"
      /\ func_chunk' = func_chunk
  BY DEF Resumes, KeepsAllBut
<1> HIDE DEF n
<1>4. n \in 1 .. n /\ n \in 1 .. Depth /\ Depth \in n + 1 .. Depth /\ n + 1 = Depth
  BY <1>1
<1>5. /\ Trail[n] = callers[n].unit
      /\ callers[n].at \in Addresses(prog, callers[n].unit)
      /\ Chain[n] # Chain[Depth] => chunks[Chain[n]].chunk_pc = callers[n].at
  BY <1>4 DEF Linked, Suspended, n
<1>6. Here' = callers[n].unit
  BY <1>2, <1>5
<1>7. pc' = callers[n].at
  <2>1. CASE Chain[n] # chunk_id
    <3>1. Chain[n] \in 1 .. Len(chunks)
      BY <1>1, <1>4
    <3>2. QED
      BY <1>1, <1>2, <1>3, <1>5, <2>1, <3>1
  <2>2. CASE Chain[n] = chunk_id
    <3>1. pc' = a
      BY <1>2, <1>3, <2>2
    <3>2. Trail[n] = Here
      BY <1>1, <1>4, <2>2
    <3>3. Here \in Funcs
      <4>1. Rank[Here] \in Nat
        BY <1>1, <1>4 DEF Linked, Falling
      <4>2. ~(Rank[Here] > Rank[Here])
        BY <4>1
      <4>3. Rank[Trail[n]] > Rank[Trail[Depth]] \/ Trail[n] \in Funcs
        BY <1>4 DEF Linked, Falling
      <4>4. QED
        BY <1>1, <3>2, <4>2, <4>3
    <3>4. a = call_stack[Len(call_stack)]
      BY <3>3, UnitsAssumption DEF Restores
    <3>5. Trail[n + 1] \in Funcs
      BY <1>1, <1>4, <3>3
    <3>6. call_stack[Len(call_stack) - Count(Trail, Depth, Funcs) + Count(Trail, n + 1, Funcs)]
            = callers[n].at
      BY <1>4, <3>5 DEF Linked, Framed, n
    <3>7. Len(call_stack) \in Nat /\ Count(Trail, Depth, Funcs) \in Nat
      BY <1>1, <1>4, CountOneMore DEF IInv, TypeOK
    <3>8. QED
      BY <1>4, <3>1, <3>4, <3>6, <3>7
  <2>3. QED
    BY <2>1, <2>2
<1>8. \A u : Addresses(prog', u) = Addresses(prog, u)
  BY <1>3 DEF Addresses
<1>9. Suspended'
  <2>1. Len(callers') <= Len(chunk_traceback')
    <3>1. chunk_traceback \in Seq(1 .. Len(chunks)) /\ n <= Len(chunk_traceback)
      BY DEF IInv, TypeOK, RegsOK, Regs, Linked, Suspended, n
    <3>2. chunk_traceback # <<>> /\ Len(chunk_traceback) \in Nat
      BY <1>1, <3>1
    <3>3. Len(chunk_traceback') = Len(chunk_traceback) - 1
      BY <3>1, <3>2, FrontOfSeq DEF Resumes
    <3>4. QED
      BY <1>1, <1>2, <3>1, <3>2, <3>3
  <2>2. ASSUME NEW k \in 1 .. n - 1
        PROVE  /\ Trail'[k] = callers'[k].unit
               /\ callers'[k].at \in Addresses(prog, callers'[k].unit)
               /\ Chain'[k] # Chain'[k + 1] => chunks'[Chain'[k]].chunk_pc = callers'[k].at
    <3>1. /\ k \in 1 .. n /\ k + 1 \in 1 .. n /\ k \in 1 .. Depth /\ callers'[k] = callers[k]
          /\ Trail'[k] = Trail[k] /\ Chain'[k] = Chain[k] /\ Chain'[k + 1] = Chain[k + 1]
      BY <1>1, <1>2
    <3>2. /\ Trail[k] = callers[k].unit
          /\ callers[k].at \in Addresses(prog, callers[k].unit)
          /\ Chain[k] # Chain[k + 1] => chunks[Chain[k]].chunk_pc = callers[k].at
      BY <3>1 DEF Linked, Suspended, n
    <3>3. Chain[k] = chunk_id => Chain[k + 1] = chunk_id
      BY <3>1, Contiguous DEF IInv, Linked, n
    <3>4. Chain[k] # Chain[k + 1] => chunks'[Chain[k]].chunk_pc = callers[k].at
      BY <1>1, <1>3, <3>1, <3>2, <3>3
    <3>5. QED
      BY <3>1, <3>2, <3>4
  <2>3. QED
    BY <1>2, <1>8, <2>1, <2>2 DEF Suspended
<1>10. Falling'
  <2>1. Rank' = Rank
    BY <1>3 DEF Rank
  <2>2. ASSUME NEW j \in 1 .. n, NEW k \in j + 1 .. n
        PROVE  \/ Rank[Trail'[j]] > Rank[Trail'[k]]
               \/ Trail'[j] = Trail'[k] /\ Trail'[j] \in Funcs /\ Chain'[j] <= Chain'[k]
    <3>1. j \in 1 .. Depth /\ k \in j + 1 .. Depth /\ k \in 1 .. n
      BY <1>1
    <3>2. QED
      BY <1>2, <3>1 DEF Linked, Falling
  <2>3. \A k \in 1 .. n : Trail'[k] \in Funcs => Chain'[k] <= func_chunk'[Trail'[k]]
    <3>1. \A k \in 1 .. n : k \in 1 .. Depth
      BY <1>1
    <3>2. QED
      BY <1>2, <1>3, <3>1 DEF Linked, Falling
  <2>4. QED
    BY <1>2, <1>3, <2>1, <2>2, <2>3 DEF Linked, Falling
<1>11. Rooted'
  <2>1. \A k \in 1 .. n : k \in 1 .. Depth
    BY <1>1
  <2>2. \A k \in 1 .. n : Trail'[k] \in Mains <=> k = 1
    BY <1>2, <2>1 DEF Linked, Rooted
  <2>3. QED
    BY <1>2, <1>5, <1>6, <1>7, <1>8, <2>2 DEF Rooted
<1>12. Framed'
  <2>1. \A S : \A k \in 1 .. n : Count(Trail', k, S) = Count(Trail, k, S)
    <3> SUFFICES ASSUME NEW S, NEW k \in 1 .. n
                 PROVE  Count(Trail', k, S) = Count(Trail, k, S)
      OBVIOUS
    <3>1. k \in Nat /\ \A j \in 1 .. k : Trail'[j] = Trail[j]
      BY <1>1, <1>2
    <3>2. QED
      BY <3>1, CountSame
  <2>2. \A S : /\ Count(Trail, n, S) \in Nat
              /\ Count(Trail, Depth, S) =
                   IF Here \in S THEN Count(Trail, n, S) + 1 ELSE Count(Trail, n, S)
    <3> SUFFICES ASSUME NEW S
                 PROVE  /\ Count(Trail, n, S) \in Nat
                        /\ Count(Trail, Depth, S) =
                             IF Here \in S THEN Count(Trail, n, S) + 1 ELSE Count(Trail, n, S)
      OBVIOUS
    <3>1. /\ Count(Trail, n, S) \in Nat
          /\ Count(Trail, n + 1, S) =
               IF Trail[n + 1] \in S THEN Count(Trail, n, S) + 1 ELSE Count(Trail, n, S)
      BY <1>1, CountOneMore
    <3>2. Trail[n + 1] = Here
      BY <1>1
    <3>3. QED
      BY <1>4, <3>1, <3>2
  <2> DEFINE F == Count(Trail, n, Funcs)
             G == Count(Trail, Depth, Funcs)
  <2>3. /\ F \in Nat /\ G \in Nat /\ Len(call_stack) \in Nat /\ G <= Len(call_stack)
        /\ call_stack \in Seq(Nat)
    BY <2>2, SMTT(40) DEF Linked, Framed, IInv, TypeOK
  <2>4. ASSUME NEW k \in 1 .. n - 1, Trail[k + 1] \in Funcs
        PROVE  /\ Count(Trail', k + 1, Funcs) = Count(Trail, k + 1, Funcs)
               /\ Count(Trail, k + 1, Funcs) \in 1 .. F
               /\ call_stack[Len(call_stack) - G + Count(Trail, k + 1, Funcs)] = callers[k].at
    <3>1. /\ k \in Nat \ {0} /\ k + 1 \in 1 .. n /\ k + 1 \in Nat /\ k + 1 <= n /\ k \in 1 .. n
          /\ n \in Nat
      BY <1>1
    <3>2. Count(Trail, k + 1, Funcs) = Count(Trail, k, Funcs) + 1 /\ Count(Trail, k, Funcs) \in Nat
      BY <2>4, <3>1, CountOneMore
    <3>3. Count(Trail, k + 1, Funcs) <= F
      BY <3>1, CountMonotone
    <3>4. call_stack[Len(call_stack) - G + Count(Trail, k + 1, Funcs)] = callers[k].at
      BY <2>4, <3>1 DEF Linked, Framed, n
    <3>5. QED
      BY <2>1, <2>3, <3>1, <3>2, <3>3, <3>4, SMTT(40)
  <2>5. \A k \in 1 .. n - 1 : callers'[k] = callers[k] /\ Trail'[k + 1] = Trail[k + 1]
    <3> TAKE k \in 1 .. n - 1
    <3>1. k + 1 \in 1 .. n
      BY <1>1
    <3>2. QED
      BY <1>2, <3>1
  <2>6. Count(Trail', Depth', Funcs) = F /\ Count(Trail', Depth', Mods) = Count(Trail, n, Mods)
    BY <1>2, <1>4, <2>1
  <2> HIDE DEF F, G
  <2>7. CASE Here \in Funcs
    <3>1. /\ Here \notin Mods /\ nest' = nest
          /\ call_stack' = SubSeq(call_stack, 1, Len(call_stack) - 1)
      BY <2>7, UnitsAssumption DEF Restores
    <3>2. G = F + 1 /\ nest = Count(Trail, n, Mods)
      BY <2>2, <2>7, <3>1 DEF Linked, Framed, F, G
    <3>3. call_stack # <<>>
      BY <2>3, <3>2
    <3>4. /\ Len(call_stack') = Len(call_stack) - 1
          /\ \A i \in 1 .. Len(call_stack) - 1 : call_stack'[i] = call_stack[i]
      BY <2>3, <3>1, <3>3, FrontOfSeq
    <3>5. nest' = Count(Trail', Depth', Mods) /\ F <= Len(call_stack')
      BY <2>3, <2>6, <3>1, <3>2, <3>4
    <3>6. ASSUME NEW k \in 1 .. n - 1, Trail'[k + 1] \in Funcs
          PROVE  call_stack'[Len(call_stack') - F + Count(Trail', k + 1, Funcs)] = callers'[k].at
      <4>1. /\ Count(Trail', k + 1, Funcs) = Count(Trail, k + 1, Funcs)
            /\ Count(Trail, k + 1, Funcs) \in 1 .. F
            /\ call_stack[Len(call_stack) - G + Count(Trail, k + 1, Funcs)] = callers[k].at
        BY <2>4, <2>5, <3>6
      <4>2. /\ Len(call_stack') - F + Count(Trail', k + 1, Funcs)
                 = Len(call_stack) - G + Count(Trail, k + 1, Funcs)
            /\ Len(call_stack) - G + Count(Trail, k + 1, Funcs) \in 1 .. Len(call_stack) - 1
        BY <2>3, <3>2, <3>4, <4>1, SMTT(40)
      <4>3. QED
        BY <2>5, <3>4, <4>1, <4>2
    <3>7. QED
      BY <1>2, <2>6, <3>5, <3>6 DEF Framed
  <2>8. CASE Here \in Mods
    <3>1. Here \notin Funcs /\ nest' = nest - 1 /\ call_stack' = call_stack
      BY <2>8, UnitsAssumption DEF Restores
    <3>2. G = F /\ nest = Count(Trail, n, Mods) + 1 /\ Count(Trail, n, Mods) \in Nat
      BY <2>2, <2>8, <3>1 DEF Linked, Framed, F, G
    <3>3. nest' = Count(Trail', Depth', Mods) /\ F <= Len(call_stack')
      BY <2>3, <2>6, <3>1, <3>2
    <3>4. ASSUME NEW k \in 1 .. n - 1, Trail'[k + 1] \in Funcs
          PROVE  call_stack'[Len(call_stack') - F + Count(Trail', k + 1, Funcs)] = callers'[k].at
      BY <2>4, <2>5, <3>1, <3>2, <3>4
    <3>5. QED
      BY <1>2, <2>6, <3>3, <3>4 DEF Framed
  <2>9. QED
    BY <2>7, <2>8 DEF Restores
<1>13. Sourced'
  <2>1. /\ sf_traceback \in Seq(Files \cup {NoFile})
        /\ sf_traceback' = SubSeq(sf_traceback, 1, Len(sf_traceback) - 1)
        /\ source_filename' = sf_traceback[Len(sf_traceback)]
        /\ n < Len(sf_traceback)
    BY DEF IInv, TypeOK, Resumes, Linked, Sourced, n
  <2>2. /\ Len(sf_traceback) \in Nat \ {0} /\ Len(sf_traceback') = Len(sf_traceback) - 1
        /\ \A i \in 1 .. Len(sf_traceback) - 1 : sf_traceback'[i] = sf_traceback[i]
    <3> DEFINE S == Files \cup {NoFile}
    <3>1. sf_traceback \in Seq(S) /\ sf_traceback # <<>>
      BY <1>1, <2>1
    <3> HIDE DEF S
    <3>2. QED
      BY <2>1, <3>1, FrontOfSeq
  <2>3. \A k \in 1 .. n :
          sf_traceback[Len(sf_traceback) - n + k] = chunks[Chain[k]].file
    BY DEF Linked, Sourced, n
  <2>4. source_filename' = chunks'[chunk_id'].file
    <3>1. Chain[n] \in 1 .. Len(chunks) /\ Len(sf_traceback) - n + n = Len(sf_traceback)
      BY <1>1, <1>4, <2>2
    <3>2. sf_traceback[Len(sf_traceback)] = chunks[Chain[n]].file
      BY <1>4, <2>3, <3>1
    <3>3. QED
      BY <1>2, <1>3, <2>1, <3>1, <3>2
  <2>5. ASSUME NEW k \in 1 .. n - 1
        PROVE  sf_traceback'[Len(sf_traceback') - (n - 1) + k] = chunks'[Chain'[k]].file
    <3>1. /\ Len(sf_traceback') - (n - 1) + k = Len(sf_traceback) - n + k
          /\ Len(sf_traceback) - n + k \in 1 .. Len(sf_traceback) - 1
          /\ k \in 1 .. n /\ k \in 1 .. Depth
      BY <1>1, <2>1, <2>2
    <3>2. chunks'[Chain'[k]].file = chunks[Chain[k]].file
      BY <1>1, <1>2, <1>3, <3>1
    <3>3. QED
      BY <2>2, <2>3, <3>1, <3>2
  <2>6. QED
    BY <1>1, <1>2, <2>1, <2>2, <2>4, <2>5 DEF Sourced
<1>14. QED
  BY <1>3, <1>6, <1>7, <1>9, <1>10, <1>11, <1>12, <1>13 DEF Linked, n

(***************************************************************************)
(* What the actions do, in these terms.                                    *)
(***************************************************************************)

(* The address after an instruction that is not a return is in the unit.   *)
LEMMA NextAddress ==
  ASSUME TypeOK, Fetch, Instr.op # "return"
  PROVE  pc + 1 \in Addresses(prog, Here) /\ Here \in Units /\ pc \in Nat
<1>1. Here \in Units /\ pc \in Nat /\ pc < Len(Code)
  BY Decoding DEF TypeOK, RegsOK, Regs, Fetch
<1>2. Code \in Seq(Instructions) /\ Len(Code) \in Nat
  BY <1>1 DEF TypeOK, IsProgram, Code
<1>3. Here \in Funcs => pc + 1 # Len(Code)
  BY <1>1, <1>2 DEF TypeOK, IsProgram, Instr, Code
<1>4. QED
  BY <1>1, <1>2, <1>3 DEF Addresses, Code

(* So is the address of a jump; every unit has a first address. *)
LEMMA JumpAddress ==
  ASSUME TypeOK, Fetch, Instr.op \in {"jump", "branch"}
  PROVE  Instr.arg \in Addresses(prog, Here)
<1>1. Here \in Units /\ pc \in Nat /\ pc < Len(Code)
  BY Decoding DEF TypeOK, RegsOK, Regs, Fetch
<1>2. Code \in Seq(Instructions) /\ pc + 1 \in 1 .. Len(Code)
  BY <1>1 DEF TypeOK, IsProgram, Code
<1>3. \A k \in 1 .. Len(prog.code[Here]) :
         prog.code[Here][k].op \in {"jump", "branch"} => prog.code[Here][k].arg \in Addresses(prog, Here)
  BY <1>1 DEF TypeOK, IsProgram
<1>4. QED
  BY <1>2, <1>3 DEF Instr, Code

LEMMA FirstAddress ==
  ASSUME TypeOK, NEW u \in Units
  PROVE  0 \in Addresses(prog, u)
<1>1. prog.code[u] \in Seq(Instructions) /\ Len(prog.code[u]) \in Nat
  BY DEF TypeOK, IsProgram
<1>2. u \in Funcs => Len(prog.code[u]) # 0
  BY <1>1, EmptySeq DEF TypeOK, IsProgram
<1>3. QED
  BY <1>1, <1>2 DEF Addresses

(* An instruction in its place: the current chunk's saved pc may change. *)
LEMMA FetchAssigned ==
  ASSUME TypeOK, Fetch, NEW a,
         (SetRegs(Fetched) /\ a = pc + 1) \/ SetRegs([Fetched EXCEPT !.pc = a])
  PROVE  /\ pc' = a /\ UNCHANGED <<chunk_id, chunk_traceback>>
         /\ KeepsAllBut(chunk_id, chunks, chunks')
<1>1. /\ Fetched = [chunks |-> Fetched.chunks, id |-> Fetched.id,
                    pc |-> Fetched.pc, tb |-> Fetched.tb]
      /\ Fetched.id = chunk_id /\ Fetched.tb = chunk_traceback /\ Fetched.pc = pc + 1
      /\ KeepsAllBut(chunk_id, chunks, Fetched.chunks)
  BY Fetching, FetchSaves
<1>2. CASE SetRegs(Fetched) /\ a = pc + 1
  BY <1>1, <1>2 DEF SetRegs
<1>3. CASE SetRegs([Fetched EXCEPT !.pc = a])
  <2> DEFINE r == [Fetched EXCEPT !.pc = a]
  <2>1. r.chunks = Fetched.chunks /\ r.id = chunk_id /\ r.tb = chunk_traceback /\ r.pc = a
    BY <1>1
  <2> HIDE DEF r
  <2>2. SetRegs(r)
    BY <1>3 DEF r
  <2>3. QED
    BY <1>1, <2>1, <2>2 DEF SetRegs
<1>4. QED
  BY <1>2, <1>3

(* A call goes to the chunk of the function value. *)
LEMMA CallGoes ==
  ASSUME IInv, FuncsKnown, result = "OK", Call
  PROVE  /\ Instr.arg \in Funcs
         /\ GoesTo(func_chunk[Instr.arg], Instr.arg, pc + 1)
         /\ Records(func_chunk[Instr.arg], Instr.arg, pc + 1)
<1> DEFINE f == Instr.arg
           c == func_chunk[f]
           s == step_chunk(Fetched, c)
           r == [s EXCEPT !.pc = 0]
<1>1. /\ RegsOK(Fetched)
      /\ Fetched = [chunks |-> Fetched.chunks, id |-> Fetched.id,
                    pc |-> Fetched.pc, tb |-> Fetched.tb]
      /\ Fetched.id = chunk_id /\ Fetched.id # 0 /\ Fetched.tb = chunk_traceback
      /\ Fetched.pc = pc + 1
      /\ Len(Fetched.chunks) = Len(chunks)
      /\ KeepsAllBut(chunk_id, chunks, Fetched.chunks)
      /\ Fetched.chunks[chunk_id].chunk_pc = pc + 1
  BY Fetching, FetchSaves DEF IInv, Call
<1>2. f \in Funcs
  <2>1. Instr \in Instructions /\ Instr.op = "call"
    BY Decoding DEF Call, IInv
  <2>2. QED
    BY <2>1 DEF Instructions
<1>3. /\ Len(chunks) \in Nat /\ c \in 1 .. Len(chunks) /\ chunks[c].unit = f
      /\ func_chunk \in [Funcs -> 0 .. Len(chunks)]
  <2>1. Len(chunks) \in Nat /\ func_chunk \in [Funcs -> 0 .. Len(chunks)]
    BY RegsLengths DEF IInv, TypeOK, Regs
  <2>2. QED
    BY <1>2, <2>1 DEF Call, FuncsKnown
<1>4. /\ SetRegs(r) /\ vm_set_source_info(chunks[c].file)
      /\ call_stack' = Append(call_stack, pc + 1)
      /\ UNCHANGED <<prog, func_chunk, flagVars, driverVars>> /\ Suspend
  BY DEF Call
<1> HIDE DEF f, c
<1>5. /\ RegsOK(s) /\ s = [chunks |-> s.chunks, id |-> s.id, pc |-> s.pc, tb |-> s.tb]
      /\ s.id = c /\ Len(s.chunks) = Len(chunks)
      /\ KeepsAllBut(chunk_id, Fetched.chunks, s.chunks)
      /\ s.chunks[chunk_id].chunk_pc = pc + 1
      /\ s.tb = Append(chunk_traceback, chunk_id)
  BY <1>1, <1>3, StepChunk, StepSaves
<1>6. KeepsAllBut(chunk_id, chunks, s.chunks)
  BY <1>1, <1>3, <1>5, KeepsTwice
<1> HIDE DEF s
<1>7. r.chunks = s.chunks /\ r.id = c /\ r.tb = s.tb /\ r.pc = 0
  BY <1>5
<1> HIDE DEF r
<1>8. /\ chunks' = s.chunks /\ chunk_id' = c /\ pc' = 0
      /\ chunk_traceback' = Append(chunk_traceback, chunk_id)
  BY <1>4, <1>5, <1>7 DEF SetRegs
<1>9. /\ sf_traceback' = Append(sf_traceback, source_filename)
      /\ source_filename' = chunks[c].file
  BY <1>4 DEF vm_set_source_info
<1>10. chunks'[c].unit = f /\ chunks'[c].file = chunks[c].file /\ c \in 1 .. Len(chunks')
  BY <1>3, <1>5, <1>6, <1>8 DEF KeepsAllBut
<1>11. callers' = Append(callers, [unit |-> Here, at |-> pc + 1])
  BY <1>4 DEF Suspend
<1>12. /\ prog' = prog /\ func_chunk' = func_chunk /\ result' = "OK" /\ nest' = nest
  BY <1>4 DEF flagVars, driverVars
<1>13. \A g \in Funcs : func_chunk'[g] \in Nat /\ func_chunk[g] <= func_chunk'[g]
  BY <1>3, <1>12
<1>14. GoesTo(c, f, pc + 1)
  BY <1>5, <1>6, <1>8, <1>9, <1>10, <1>11, <1>12, <1>13 DEF GoesTo
<1>15. c <= func_chunk'[f]
  BY <1>3, <1>12 DEF c
<1>16. Records(c, f, pc + 1)
  BY <1>2, <1>4, <1>12, <1>15 DEF Records
<1>17. QED
  BY <1>2, <1>14, <1>16 DEF c, f

(* The chunks of a unit loaded, at their places: its own, then those of    *)
(* the functions it defines.                                               *)
LEMMA ChunksAdded ==
  ASSUME TypeOK, NEW cs \in Seq(Chunk), NEW u \in Loaded, NEW file \in Files
  PROVE  LET ds == cs \o LoadedChunks(u, file)
             n  == Len(prog.defs[u])
         IN  /\ n \in Nat /\ Len(cs) \in Nat
             /\ ds \in Seq(Chunk) /\ Len(ds) = Len(cs) + 1 + n
             /\ \A d \in 1 .. Len(cs) : ds[d] = cs[d]
             /\ ds[Len(cs) + 1] = new_chunk(u, file)
             /\ \A k \in 1 .. n : ds[Len(cs) + 1 + k] = new_chunk(prog.defs[u][k], file)
<1> DEFINE n   == Len(prog.defs[u])
           fs  == [k \in 1 .. n |-> new_chunk(prog.defs[u][k], file)]
           e   == new_chunk(u, file)
           add == LoadedChunks(u, file)
           ds  == cs \o add
<1>1. u \in Units /\ prog.defs[u] \in Seq(Funcs) /\ n \in Nat
  BY DEF TypeOK, IsProgram, Loaded, Units
<1>2. fs \in Seq(Chunk) /\ Len(fs) = n
  <2>1. \A k \in 1 .. n : prog.defs[u][k] \in Funcs
    BY <1>1
  <2>2. \A k \in 1 .. n : new_chunk(prog.defs[u][k], file) \in Chunk
    BY <2>1 DEF new_chunk, Chunk, Units
  <2>3. QED
    BY <1>1, <2>2
<1>3. e \in Chunk
  BY <1>1 DEF new_chunk, Chunk
<1>4. \A k \in 1 .. n : fs[k] = new_chunk(prog.defs[u][k], file)
  OBVIOUS
<1>5. add = <<e>> \o fs
  BY DEF LoadedChunks
<1>6. ds = cs \o add
  OBVIOUS
<1> HIDE DEF n, fs, e, add, ds
<1>7. /\ add \in Seq(Chunk) /\ Len(add) = 1 + n /\ add[1] = e
      /\ \A k \in 1 .. n : add[1 + k] = fs[k]
  BY <1>2, <1>3, <1>5, OneAndMore
<1>8. /\ ds \in Seq(Chunk) /\ Len(ds) = Len(cs) + Len(add) /\ Len(cs) \in Nat
      /\ \A i \in 1 .. Len(cs) : ds[i] = cs[i]
      /\ \A i \in 1 .. Len(add) : ds[Len(cs) + i] = add[i]
  <2>1. add \in Seq(Chunk)
    BY <1>7
  <2>2. QED
    BY <1>6, <2>1, Together
<1>9. Len(ds) = Len(cs) + 1 + n
  BY <1>1, <1>7, <1>8
<1>10. ds[Len(cs) + 1] = e
  <2>1. 1 \in 1 .. Len(add)
    BY <1>1, <1>7
  <2>2. QED
    BY <1>7, <1>8, <2>1
<1>11. ASSUME NEW k \in 1 .. n
       PROVE  ds[Len(cs) + 1 + k] = new_chunk(prog.defs[u][k], file)
  <2>1. 1 + k \in 1 .. Len(add) /\ Len(cs) + (1 + k) = Len(cs) + 1 + k
    BY <1>1, <1>7, <1>8
  <2>2. ds[Len(cs) + (1 + k)] = add[1 + k]
    BY <1>8, <2>1
  <2>3. QED
    BY <1>4, <1>7, <2>1, <2>2
<1>12. QED
  BY <1>1, <1>8, <1>9, <1>10, <1>11 DEF n, e, ds, add

(* Loading a unit and starting to execute it: what was in the chunks stays *)
(* but for the saved pc of the chunk left, and function values only move   *)
(* to later chunks, of the same function.                                  *)
LEMMA ExecuteGoes ==
  ASSUME IInv, FuncsKnown, NEW r, RegsOK(r),
         r = [chunks |-> r.chunks, id |-> r.id, pc |-> r.pc, tb |-> r.tb],
         Len(r.chunks) = Len(chunks), KeepsAllBut(r.id, chunks, r.chunks),
         NEW u \in Loaded, NEW file \in Files, Execute(r, u, file)
  PROVE  /\ chunk_id' = Len(chunks) + 1 /\ pc' = 0
         /\ chunk_id' \in 1 .. Len(chunks')
         /\ chunks'[chunk_id'].unit = u /\ chunks'[chunk_id'].file = file
         /\ KeepsAllBut(r.id, chunks, chunks')
         /\ r.id # 0 => /\ chunks'[r.id].chunk_pc = r.pc
                        /\ chunk_traceback' = Append(r.tb, r.id)
         /\ r.id = 0 => chunk_traceback' = r.tb
         /\ \A f \in Funcs : func_chunk'[f] \in Nat /\ func_chunk[f] <= func_chunk'[f]
         /\ FuncsKnown'
<1> DEFINE n  == Len(prog.defs[u])
           cs == r.chunks \o LoadedChunks(u, file)
           L  == Len(chunks)
           s  == [r EXCEPT !.chunks = cs]
           t  == step_chunk(s, L + 1)
<1>1. r.chunks \in Seq(Chunk) /\ Len(r.chunks) = L /\ L \in Nat /\ TypeOK
  BY RegsLengths DEF RegsOK, IInv
<1>2. /\ n \in Nat /\ cs \in Seq(Chunk) /\ Len(cs) = L + 1 + n
      /\ \A d \in 1 .. L : cs[d] = r.chunks[d]
      /\ cs[L + 1] = new_chunk(u, file)
      /\ \A k \in 1 .. n : cs[L + 1 + k] = new_chunk(prog.defs[u][k], file)
  <2> DEFINE q == r.chunks
  <2>1. q \in Seq(Chunk) /\ Len(q) = L
    BY <1>1
  <2> HIDE DEF q
  <2>2. /\ n \in Nat
        /\ q \o LoadedChunks(u, file) \in Seq(Chunk)
        /\ Len(q \o LoadedChunks(u, file)) = Len(q) + 1 + n
        /\ \A d \in 1 .. Len(q) : (q \o LoadedChunks(u, file))[d] = q[d]
        /\ (q \o LoadedChunks(u, file))[Len(q) + 1] = new_chunk(u, file)
        /\ \A k \in 1 .. n : (q \o LoadedChunks(u, file))[Len(q) + 1 + k]
                               = new_chunk(prog.defs[u][k], file)
    BY <1>1, <2>1, ChunksAdded, ZenonT(40)
  <2>3. cs = q \o LoadedChunks(u, file)
    BY DEF q
  <2> HIDE DEF cs, L, n
  <2>4. QED
    BY <2>1, <2>2, <2>3 DEF q
<1>3. SetRegs(t) /\ func_chunk' = LoadedFuncs(u)
  BY DEF Execute
<1>4. /\ chunks' = t.chunks /\ chunk_id' = t.id /\ pc' = t.pc /\ chunk_traceback' = t.tb
  BY <1>3 DEF SetRegs
<1> HIDE DEF cs, n, L
<1>5. s = [chunks |-> cs, id |-> r.id, pc |-> r.pc, tb |-> r.tb]
  OBVIOUS
<1>6. s.chunks = cs /\ s.id = r.id /\ s.pc = r.pc /\ s.tb = r.tb
  BY <1>5
<1>7. RegsOK(s) /\ L + 1 \in 1 .. Len(cs)
  <2>1. /\ r.id \in 0 .. L /\ r.pc \in Nat /\ r.tb \in Seq(1 .. L)
    BY <1>1 DEF RegsOK
  <2> DEFINE S == 1 .. L
             W == 1 .. Len(cs)
  <2>2. S \subseteq W /\ r.id \in 0 .. Len(cs) /\ L + 1 \in W
    BY <1>1, <1>2, <2>1
  <2>3. r.tb \in Seq(S)
    BY <2>1
  <2> HIDE DEF S, W, s
  <2>4. r.tb \in Seq(W)
    BY <2>2, <2>3
  <2>5. QED
    BY <1>2, <1>6, <2>1, <2>2, <2>4 DEF RegsOK, W
<1> HIDE DEF s
<1>8. s = [chunks |-> s.chunks, id |-> s.id, pc |-> s.pc, tb |-> s.tb]
  BY <1>5, <1>6
<1>9. /\ t.id = L + 1 /\ t.pc = 0 /\ Len(t.chunks) = Len(cs)
      /\ KeepsAllBut(r.id, cs, t.chunks)
      /\ r.id # 0 => t.chunks[r.id].chunk_pc = r.pc /\ t.tb = Append(r.tb, r.id)
      /\ r.id = 0 => t.tb = r.tb
  <2>1. t.id = L + 1 /\ Len(t.chunks) = Len(cs)
    BY <1>6, <1>7, <1>8, StepChunk
  <2>2. cs[L + 1].chunk_pc = 0
    BY <1>2 DEF new_chunk
  <2>3. CASE r.id # 0
    <3>1. /\ KeepsAllBut(r.id, cs, t.chunks) /\ t.chunks[r.id].chunk_pc = r.pc
          /\ t.tb = Append(r.tb, r.id) /\ t.pc = t.chunks[L + 1].chunk_pc
      BY <1>6, <1>7, <1>8, <2>3, StepSaves
    <3>2. L + 1 # r.id
      BY <1>1 DEF RegsOK
    <3>3. t.pc = 0
      BY <1>7, <2>2, <3>1, <3>2 DEF KeepsAllBut
    <3>4. QED
      BY <2>1, <2>3, <3>1, <3>3
  <2>4. CASE r.id = 0
    <3>1. t = [chunks |-> cs, id |-> L + 1, pc |-> cs[L + 1].chunk_pc, tb |-> r.tb]
      BY <1>5, <2>4, StepFirst
    <3>2. KeepsAllBut(r.id, cs, cs)
      BY <1>1, <1>2 DEF KeepsAllBut
    <3>3. t.chunks = cs /\ t.pc = cs[L + 1].chunk_pc /\ t.tb = r.tb
      BY <3>1
    <3> HIDE DEF t
    <3>4. QED
      BY <2>1, <2>2, <2>4, <3>2, <3>3
  <2>5. QED
    BY <2>3, <2>4
<1> HIDE DEF t
<1>10. Len(chunks') = L + 1 + n
  BY <1>2, <1>4, <1>9
<1>11. KeepsAllBut(r.id, chunks, chunks')
  <2>1. KeepsAllBut(r.id, r.chunks, cs)
    BY <1>1, <1>2 DEF KeepsAllBut
  <2>2. Len(chunks) = L
    BY DEF L
  <2>3. KeepsAllBut(r.id, chunks, cs)
    BY <1>1, <1>2, <2>1, <2>2, KeepsTwice
  <2>4. QED
    BY <1>1, <1>2, <1>4, <1>9, <1>10, <2>2, <2>3, KeepsTwice
<1>12. /\ chunks'[L + 1].unit = u /\ chunks'[L + 1].file = file
       /\ \A k \in 1 .. n : chunks'[L + 1 + k].unit = prog.defs[u][k]
  <2>1. \A d \in 1 .. Len(cs) : chunks'[d].unit = cs[d].unit /\ chunks'[d].file = cs[d].file
    BY <1>4, <1>9 DEF KeepsAllBut
  <2>2. \A k \in 1 .. n : L + 1 + k \in 1 .. Len(cs)
    BY <1>1, <1>2
  <2>3. /\ cs[L + 1].unit = u /\ cs[L + 1].file = file
        /\ \A k \in 1 .. n : cs[L + 1 + k].unit = prog.defs[u][k]
    <3>1. \A w : new_chunk(w, file).unit = w /\ new_chunk(w, file).file = file
      BY DEF new_chunk
    <3>2. QED
      BY <1>2, <3>1
  <2>4. chunks'[L + 1].unit = cs[L + 1].unit /\ chunks'[L + 1].file = cs[L + 1].file
    BY <1>7, <2>1
  <2>5. \A k \in 1 .. n : chunks'[L + 1 + k].unit = cs[L + 1 + k].unit
    BY <2>1, <2>2
  <2>6. QED
    BY <2>3, <2>4, <2>5
<1>13. ASSUME NEW f \in Funcs
       PROVE  /\ func_chunk'[f] \in Nat /\ func_chunk[f] <= func_chunk'[f]
              /\ func_chunk'[f] # 0 => chunks'[func_chunk'[f]].unit = f
  <2> DEFINE ks == {k \in 1 .. n : prog.defs[u][k] = f}
  <2>1. func_chunk[f] \in 0 .. L /\ (func_chunk[f] # 0 => chunks[func_chunk[f]].unit = f)
    BY DEF IInv, TypeOK, FuncsKnown, L
  <2>2. CASE ks = {}
    <3>1. func_chunk'[f] = func_chunk[f]
      BY <1>3, <2>2 DEF LoadedFuncs, n
    <3>2. func_chunk[f] # 0 => chunks'[func_chunk[f]].unit = chunks[func_chunk[f]].unit
      BY <1>1, <1>11, <2>1 DEF KeepsAllBut, L
    <3>3. QED
      BY <1>1, <2>1, <3>1, <3>2
  <2>3. CASE ks # {}
    <3> DEFINE m == CHOOSE k \in ks : \A j \in ks : j <= k
    <3>1. m \in ks
      BY <1>2, <2>3, Greatest
    <3>2. func_chunk'[f] = L + 1 + m
      BY <1>3, <2>3 DEF LoadedFuncs, n, L
    <3> HIDE DEF m
    <3>3. m \in 1 .. n /\ prog.defs[u][m] = f
      BY <3>1
    <3>4. QED
      BY <1>1, <1>2, <1>12, <2>1, <3>2, <3>3
  <2>4. QED
    BY <2>2, <2>3
<1>14. QED
  <2>1. FuncsKnown'
    BY <1>13 DEF FuncsKnown
  <2>2. chunk_id' = L + 1 /\ pc' = 0 /\ L + 1 \in 1 .. Len(chunks')
    BY <1>1, <1>2, <1>4, <1>9, <1>10
  <2>3. QED
    BY <1>4, <1>9, <1>11, <1>12, <1>13, <2>1, <2>2 DEF L

(* A load goes to the first of the chunks it adds. *)
LEMMA LoadGoes ==
  ASSUME IInv, FuncsKnown, LoadModule
  PROVE  /\ Instr.arg \in Mods
         /\ GoesTo(Len(chunks) + 1, Instr.arg, pc + 1)
         /\ Records(Len(chunks) + 1, Instr.arg, pc + 1)
         /\ FuncsKnown'
<1> DEFINE m == Instr.arg
<1>1. /\ RegsOK(Fetched)
      /\ Fetched = [chunks |-> Fetched.chunks, id |-> Fetched.id,
                    pc |-> Fetched.pc, tb |-> Fetched.tb]
      /\ Fetched.id = chunk_id /\ chunk_id # 0 /\ Fetched.tb = chunk_traceback
      /\ Fetched.pc = pc + 1
      /\ Len(Fetched.chunks) = Len(chunks)
      /\ KeepsAllBut(chunk_id, chunks, Fetched.chunks)
  BY Fetching, FetchSaves DEF IInv, LoadModule
<1>2. m \in Mods /\ m \in Loaded /\ m \in Files
  <2>1. Instr \in Instructions /\ Instr.op = "load"
    BY Decoding DEF LoadModule, IInv
  <2>2. QED
    BY <2>1 DEF Instructions, Loaded, Files
<1>3. /\ Execute(Fetched, m, m) /\ vm_set_source_info(m)
      /\ nest' = nest + 1 /\ Suspend
      /\ UNCHANGED <<prog, call_stack, error_from_native, stopped_by, status, runs>>
  BY DEF LoadModule
<1> HIDE DEF m
<1>4. /\ chunk_id' = Len(chunks) + 1 /\ pc' = 0
      /\ chunk_id' \in 1 .. Len(chunks')
      /\ chunks'[chunk_id'].unit = m /\ chunks'[chunk_id'].file = m
      /\ KeepsAllBut(chunk_id, chunks, chunks')
      /\ chunks'[chunk_id].chunk_pc = pc + 1
      /\ chunk_traceback' = Append(chunk_traceback, chunk_id)
      /\ \A f \in Funcs : func_chunk'[f] \in Nat /\ func_chunk[f] <= func_chunk'[f]
      /\ FuncsKnown'
  BY <1>1, <1>2, <1>3, ExecuteGoes
<1>5. /\ sf_traceback' = Append(sf_traceback, source_filename)
      /\ source_filename' = m
      /\ callers' = Append(callers, [unit |-> Here, at |-> pc + 1])
      /\ result' = "OK"
  BY <1>3 DEF vm_set_source_info, Suspend, Execute
<1>6. GoesTo(Len(chunks) + 1, m, pc + 1)
  BY <1>3, <1>4, <1>5 DEF GoesTo
<1>7. Records(Len(chunks) + 1, m, pc + 1)
  BY <1>2, <1>3 DEF Records
<1>8. QED
  BY <1>2, <1>4, <1>6, <1>7 DEF m

(* The kind of unit that runs says what is suspended: a function has a     *)
(* caller and a frame, a module a unit that loads it and a vm_execute, a   *)
(* main unit neither.                                                      *)
LEMMA KindOfRun ==
  ASSUME IInv, status = "running", Linked
  PROVE  /\ Here \in Units /\ callers \in Seq([unit : Units, at : Nat])
         /\ Here \in Funcs => callers # <<>> /\ call_stack # <<>>
         /\ Here \in Mods  => callers # <<>> /\ nest > 0
         /\ Here \in Mains => callers = <<>> /\ nest = 0
<1>1. /\ Len(callers) \in Nat /\ Depth = Len(callers) + 1 /\ Trail[Depth] = Here
      /\ Here \in Units
      /\ callers \in Seq([unit : Units, at : Nat]) /\ call_stack \in Seq(Nat) /\ nest \in Nat
  <2>1. /\ Len(callers) \in Nat /\ Depth = Len(callers) + 1 /\ Trail[Depth] = Here
        /\ \A k \in 1 .. Depth : Trail[k] \in Units
    BY ChainTypes DEF IInv, Linked
  <2>2. Depth \in 1 .. Depth
    BY <2>1
  <2>3. QED
    BY <2>1, <2>2 DEF IInv, TypeOK
<1>2. Here \in Mains <=> Depth = 1
  <2>1. Depth \in 1 .. Depth
    BY <1>1
  <2>2. QED
    BY <1>1, <2>1 DEF Linked, Rooted
<1>3. nest = Count(Trail, Depth, Mods) /\ Count(Trail, Depth, Funcs) <= Len(call_stack)
  BY DEF Linked, Framed
<1>4. CASE Here \in Mains
  <2>1. Depth = 1 /\ callers = <<>> /\ Here \notin Funcs /\ Here \notin Mods
    BY <1>1, <1>2, <1>4, UnitsAssumption
  <2>2. nest = 0
    BY <1>3, <2>1, CountNone
  <2>3. QED
    BY <1>1, <2>1, <2>2
<1>5. CASE Here \notin Mains
  <2>1. Len(callers) \in Nat \ {0} /\ callers # <<>>
    BY <1>1, <1>2, <1>5
  <2>2. ASSUME NEW S, Here \in S
        PROVE  Count(Trail, Depth, S) \in Nat /\ Count(Trail, Depth, S) > 0
    <3>1. /\ Count(Trail, Len(callers), S) \in Nat
          /\ Count(Trail, Len(callers) + 1, S) = Count(Trail, Len(callers), S) + 1
      BY <1>1, <2>1, <2>2, CountOneMore
    <3>2. QED
      BY <1>1, <3>1
  <2>3. Here \in Mods => nest > 0
    BY <1>3, <2>2
  <2>4. Here \in Funcs => call_stack # <<>>
    <3>1. SUFFICES ASSUME Here \in Funcs PROVE call_stack # <<>>
      OBVIOUS
    <3>2. Len(call_stack) > 0
      BY <1>1, <1>3, <2>2, <3>1
    <3>3. QED
      BY <3>2
  <2>5. QED
    BY <1>1, <1>5, <2>1, <2>3, <2>4
<1>6. QED
  BY <1>4, <1>5

(* A loop that runs out of instructions does so at the end of a main unit  *)
(* or a module, never in a function.                                       *)
LEMMA AtItsEnd ==
  ASSUME IInv, Linked, LoopOver, running
  PROVE  pc = Len(Code) /\ Here \in Mains \cup Mods
<1>1. Here \in Units
  BY KindOfRun DEF LoopOver
<1>2. pc \in Addresses(prog, Here) /\ ~(pc < Len(Code)) /\ Len(Code) \in Nat
  BY <1>1 DEF LoopOver, Linked, Rooted, IInv, TypeOK, IsProgram, Code
<1>3. Here \notin Funcs /\ pc = Len(Code)
  BY <1>2 DEF Addresses, Code
<1>4. QED
  BY <1>1, <1>3 DEF Units

(* Only a function returns, and a return goes to whoever called it. *)
LEMMA ReturnResumes ==
  ASSUME IInv, Linked, Fetch, Instr.op = "return"
  PROVE  /\ callers # <<>> /\ call_stack # <<>>
         /\ Return => /\ Resumes(call_stack[Len(call_stack)])
                      /\ Restores(call_stack[Len(call_stack)])
<1>1. status = "running" /\ TypeOK /\ pc \in Nat
  BY DEF Fetch, IInv, TypeOK, RegsOK, Regs
<1>2. Here \in Funcs
  <2>1. Here \in Units /\ pc + 1 \in 1 .. Len(Code) /\ Code \in Seq(Instructions)
    BY <1>1, Decoding DEF Fetch, TypeOK, IsProgram, Code
  <2>2. pc + 1 \in DOMAIN prog.code[Here]
    BY <2>1 DEF Code
  <2>3. QED
    BY <2>1, <2>2 DEF Linked, Falling, Descends, Instr, Code
<1>3. callers # <<>> /\ call_stack # <<>>
  BY <1>1, <1>2, KindOfRun
<1>4. ASSUME Return
      PROVE  /\ Resumes(call_stack[Len(call_stack)])
             /\ Restores(call_stack[Len(call_stack)])
  <2> DEFINE a == call_stack[Len(call_stack)]
             r == [Fetched EXCEPT !.pc = a]
             s == back_chunk(r)
  <2>1. /\ RegsOK(Fetched)
        /\ Fetched = [chunks |-> Fetched.chunks, id |-> Fetched.id,
                      pc |-> Fetched.pc, tb |-> Fetched.tb]
        /\ Fetched.id = chunk_id /\ Fetched.id # 0 /\ Fetched.tb = chunk_traceback
        /\ Len(Fetched.chunks) = Len(chunks) /\ KeepsAllBut(chunk_id, chunks, Fetched.chunks)
    BY <1>1, Fetching, FetchSaves
  <2>2. a \in Nat
    BY <1>1, <1>3 DEF TypeOK
  <2>3. chunk_traceback # <<>> /\ sf_traceback # <<>>
    <3>1. Len(callers) \in Nat /\ Len(callers) # 0
      BY <1>1, <1>3 DEF TypeOK
    <3>2. /\ Len(callers) <= Len(chunk_traceback) /\ Len(callers) < Len(sf_traceback)
          /\ Len(chunk_traceback) \in Nat /\ Len(sf_traceback) \in Nat
      BY <1>1, RegsLengths DEF Linked, Suspended, Sourced, TypeOK, Regs
    <3>3. QED
      BY <3>1, <3>2
  <2>4. /\ SetRegs(s) /\ vm_back_source_info /\ Resume
        /\ call_stack' = SubSeq(call_stack, 1, Len(call_stack) - 1)
        /\ prog' = prog /\ func_chunk' = func_chunk /\ nest' = nest /\ result' = "OK"
    BY <1>4, <2>3 DEF Return, flagVars, driverVars, Linked
  <2> HIDE DEF a
  <2>5. r = [chunks |-> Fetched.chunks, id |-> Fetched.id, pc |-> a, tb |-> Fetched.tb]
    BY <2>1
  <2> HIDE DEF r
  <2>6. /\ RegsOK(r) /\ r.id = chunk_id /\ r.id # 0 /\ r.tb = chunk_traceback /\ r.pc = a
        /\ r.chunks = Fetched.chunks
        /\ r = [chunks |-> r.chunks, id |-> r.id, pc |-> r.pc, tb |-> r.tb]
    BY <2>1, <2>2, <2>5 DEF RegsOK
  <2>7. /\ KeepsAllBut(chunk_id, Fetched.chunks, s.chunks)
        /\ s.chunks[chunk_id].chunk_pc = a
        /\ s.tb = SubSeq(chunk_traceback, 1, Len(chunk_traceback) - 1)
        /\ s.id = chunk_traceback[Len(chunk_traceback)]
        /\ s.pc = s.chunks[s.id].chunk_pc
        /\ Len(s.chunks) = Len(chunks)
    BY <2>1, <2>3, <2>6, BackResumes, BackChunk
  <2> HIDE DEF s
  <2>8. KeepsAllBut(chunk_id, chunks, s.chunks)
    <3>1. Len(chunks) \in Nat
      BY <1>1, RegsLengths DEF TypeOK, Regs
    <3>2. QED
      BY <2>1, <2>7, <3>1, KeepsTwice
  <2>9. /\ sf_traceback' = SubSeq(sf_traceback, 1, Len(sf_traceback) - 1)
        /\ source_filename' = sf_traceback[Len(sf_traceback)]
        /\ callers' = SubSeq(callers, 1, Len(callers) - 1)
    BY <1>3, <2>3, <2>4 DEF vm_back_source_info, Resume
  <2>10. Resumes(a)
    BY <2>4, <2>7, <2>8, <2>9 DEF Resumes, SetRegs
  <2>11. Restores(a)
    BY <1>2, <2>4 DEF Restores, a
  <2>12. QED
    BY <2>10, <2>11 DEF a
<1>5. QED
  BY <1>3, <1>4

(* The end of a module goes back to the unit that loads it. *)
LEMMA EndResumes ==
  ASSUME IInv, Linked, running, ModuleEnds
  PROVE  callers # <<>> /\ Resumes(pc) /\ Restores(pc)
<1>1. status = "running" /\ TypeOK /\ nest > 0
  BY DEF ModuleEnds, LoopOver, IInv
<1>2. Here \in Mods /\ callers # <<>>
  <2>1. Here \in Mains \cup Mods /\ ~(Here \in Mains)
    BY <1>1, AtItsEnd, KindOfRun DEF ModuleEnds
  <2>2. QED
    BY <1>1, <2>1, KindOfRun
<1>3. chunk_traceback # <<>> /\ sf_traceback # <<>>
  <2>1. Len(callers) \in Nat /\ Len(callers) # 0
    BY <1>1, <1>2 DEF TypeOK
  <2>2. /\ Len(callers) <= Len(chunk_traceback) /\ Len(callers) < Len(sf_traceback)
        /\ Len(chunk_traceback) \in Nat /\ Len(sf_traceback) \in Nat
    BY <1>1, RegsLengths DEF Linked, Suspended, Sourced, TypeOK, Regs
  <2>3. QED
    BY <2>1, <2>2
<1>4. /\ RegsOK(Regs) /\ Regs.chunks = chunks /\ Regs.id = chunk_id /\ Regs.pc = pc
      /\ Regs.tb = chunk_traceback /\ chunk_id # 0
      /\ Regs = [chunks |-> Regs.chunks, id |-> Regs.id, pc |-> Regs.pc, tb |-> Regs.tb]
  BY <1>1 DEF TypeOK, Regs
<1> DEFINE s == back_chunk(Regs)
<1>5. /\ KeepsAllBut(chunk_id, chunks, s.chunks)
      /\ s.chunks[chunk_id].chunk_pc = pc
      /\ s.tb = SubSeq(chunk_traceback, 1, Len(chunk_traceback) - 1)
      /\ s.id = chunk_traceback[Len(chunk_traceback)]
      /\ s.pc = s.chunks[s.id].chunk_pc
  BY <1>3, <1>4, BackResumes
<1>6. /\ SetRegs(s) /\ vm_back_source_info /\ Resume /\ nest' = nest - 1
      /\ call_stack' = call_stack
      /\ prog' = prog /\ func_chunk' = func_chunk /\ result' = "OK"
  BY DEF ModuleEnds, flagVars, Linked
<1> HIDE DEF s
<1>7. /\ sf_traceback' = SubSeq(sf_traceback, 1, Len(sf_traceback) - 1)
      /\ source_filename' = sf_traceback[Len(sf_traceback)]
      /\ callers' = SubSeq(callers, 1, Len(callers) - 1)
  BY <1>2, <1>3, <1>6 DEF vm_back_source_info, Resume
<1>8. Resumes(pc)
  BY <1>5, <1>6, <1>7 DEF Resumes, SetRegs
<1>9. Restores(pc)
  BY <1>2, <1>6 DEF Restores
<1>10. QED
  BY <1>2, <1>8, <1>9

(***************************************************************************)
(* The inductive invariant, action by action.                              *)
(***************************************************************************)

AInv ==
  /\ IInv /\ FuncsKnown /\ InStep
  /\ prog \in Programs
  /\ status = "idle" => nest = 0

(* Function values stay right when chunks keep their units. *)
LEMMA FuncsStay ==
  ASSUME TypeOK, FuncsKnown, NEW c, KeepsAllBut(c, chunks, chunks'), func_chunk' = func_chunk
  PROVE  FuncsKnown'
<1> SUFFICES ASSUME NEW f \in Funcs, func_chunk[f] # 0
             PROVE  chunks'[func_chunk[f]].unit = f
  BY DEF FuncsKnown
<1>1. func_chunk[f] \in 1 .. Len(chunks)
  BY RegsLengths DEF TypeOK, Regs
<1>2. QED
  BY <1>1 DEF FuncsKnown, KeepsAllBut

LEMMA ChunksStay ==
  TypeOK /\ UNCHANGED chunks => KeepsAllBut(chunk_id, chunks, chunks')
<1> SUFFICES ASSUME TypeOK, UNCHANGED chunks PROVE KeepsAllBut(chunk_id, chunks, chunks')
  OBVIOUS
<1>1. Len(chunks) \in Nat
  BY RegsLengths DEF TypeOK, Regs
<1>2. QED
  BY <1>1 DEF KeepsAllBut

(* What the next instruction may be, in a program that descends. *)
LEMMA Descending ==
  ASSUME IInv, Linked, Fetch
  PROVE  /\ Instr.op # "goto"
         /\ Instr.op = "return" => Here \in Funcs
         /\ Instr.op \in {"call", "load"} =>
              Rank[Instr.arg] < Rank[Here] \/ (Instr.op = "call" /\ Instr.arg = Here)
<1>1. Here \in Units /\ pc + 1 \in 1 .. Len(Code) /\ Code \in Seq(Instructions)
  BY Decoding DEF Fetch, IInv, TypeOK, RegsOK, Regs, IsProgram, Code
<1>2. pc + 1 \in DOMAIN prog.code[Here]
  BY <1>1 DEF Code
<1>3. QED
  BY <1>1, <1>2 DEF Linked, Falling, Descends, Instr, Code

(* Instructions that stay in their activation and go to the next one. *)
LEMMA PlainKeeps ==
  ASSUME AInv, Step \/ FallThrough \/ Native
  PROVE  /\ Linked' /\ FuncsKnown' /\ Here' = Here /\ pc' = pc + 1
         /\ UNCHANGED <<prog, callers, status, running, nest>>
<1>1. /\ Fetch /\ SetRegs(Fetched) /\ Instr.op # "return"
      /\ UNCHANGED <<prog, call_stack, func_chunk, sourceVars, running, result, driverVars, callers>>
  BY DEF Step, FallThrough, Native, flagVars
<1>2. IInv /\ TypeOK /\ Linked /\ status = "running" /\ FuncsKnown
  BY <1>1 DEF AInv, IInv, InStep, Fetch
<1>3. /\ pc' = pc + 1 /\ UNCHANGED <<chunk_id, chunk_traceback>>
      /\ KeepsAllBut(chunk_id, chunks, chunks')
  BY <1>1, <1>2, FetchAssigned
<1>4. pc' \in Addresses(prog, Here) /\ result' = "OK"
  BY <1>1, <1>2, <1>3, NextAddress DEF Linked
<1>5. Linked' /\ Here' = Here
  BY <1>1, <1>2, <1>3, <1>4, Staying DEF driverVars
<1>6. FuncsKnown'
  BY <1>1, <1>2, <1>3, FuncsStay
<1>7. QED
  BY <1>1, <1>3, <1>5, <1>6 DEF driverVars

LEMMA JumpKeeps ==
  ASSUME AInv, Jump
  PROVE  /\ Linked' /\ FuncsKnown' /\ Here' = Here /\ pc' = Instr.arg
         /\ UNCHANGED <<prog, callers, status, running, nest>>
<1>1. /\ Fetch /\ SetRegs([Fetched EXCEPT !.pc = Instr.arg]) /\ Instr.op \in {"jump", "branch"}
      /\ UNCHANGED <<prog, call_stack, func_chunk, sourceVars, running, result, driverVars, callers>>
  BY DEF Jump, flagVars
<1>2. IInv /\ TypeOK /\ Linked /\ status = "running" /\ FuncsKnown
  BY <1>1 DEF AInv, IInv, InStep, Fetch
<1>3. /\ pc' = Instr.arg /\ UNCHANGED <<chunk_id, chunk_traceback>>
      /\ KeepsAllBut(chunk_id, chunks, chunks')
  BY <1>1, <1>2, FetchAssigned
<1>4. pc' \in Addresses(prog, Here) /\ result' = "OK"
  BY <1>1, <1>2, <1>3, JumpAddress DEF Linked
<1>5. Linked' /\ Here' = Here
  BY <1>1, <1>2, <1>3, <1>4, Staying DEF driverVars
<1>6. FuncsKnown'
  BY <1>1, <1>2, <1>3, FuncsStay
<1>7. QED
  BY <1>1, <1>3, <1>5, <1>6 DEF driverVars

(* Calls and loads suspend the activation and start another one at 0. *)
LEMMA EnterKeeps ==
  ASSUME AInv, Call \/ LoadModule
  PROVE  /\ Linked' /\ FuncsKnown' /\ Here' = Instr.arg /\ pc' = 0
         /\ callers' = Append(callers, [unit |-> Here, at |-> pc + 1])
         /\ UNCHANGED <<prog, status>> /\ running' /\ Here \in Units /\ pc \in Nat
<1>1. Fetch /\ Instr.op \in {"call", "load"} /\ UNCHANGED <<prog, status>>
  BY DEF Call, LoadModule, driverVars
<1>2. IInv /\ TypeOK /\ Linked /\ status = "running" /\ FuncsKnown /\ result = "OK"
  BY <1>1 DEF AInv, IInv, InStep, Linked, Fetch
<1>3. /\ pc + 1 \in Addresses(prog, Here) /\ Here \in Units /\ pc \in Nat
  BY <1>1, <1>2, NextAddress
<1>4. chunk_id \in 1 .. Len(chunks) /\ chunks \in Seq(Chunk)
  BY <1>2 DEF TypeOK, RegsOK, Regs
<1>5. CASE Call
  <2>1. /\ Instr.arg \in Funcs
        /\ GoesTo(func_chunk[Instr.arg], Instr.arg, pc + 1)
        /\ Records(func_chunk[Instr.arg], Instr.arg, pc + 1)
    BY <1>2, <1>5, CallGoes
  <2>2. Instr.arg = Here => chunk_id <= func_chunk[Instr.arg]
    <3>1. /\ Depth \in 1 .. Depth /\ Chain[Depth] = chunk_id /\ Trail[Depth] = Here
      BY <1>2, ChainTypes DEF Linked
    <3>2. \A k \in 1 .. Depth : Trail[k] \in Funcs => Chain[k] <= func_chunk[Trail[k]]
      BY <1>2 DEF Linked, Falling
    <3>3. QED
      BY <2>1, <3>1, <3>2
  <2>3. 0 \in Addresses(prog, Instr.arg)
    BY <1>2, <2>1, FirstAddress DEF Units
  <2>4. \/ Rank[Instr.arg] < Rank[Here]
        \/ Instr.arg = Here /\ Instr.arg \in Funcs /\ chunk_id <= func_chunk[Instr.arg]
    BY <1>1, <1>2, <2>1, <2>2, Descending
  <2>5. Linked'
    BY <1>2, <1>3, <2>1, <2>3, <2>4, Entering
  <2>6. FuncsKnown'
    BY <1>2, <1>5, <2>1, FuncsStay DEF GoesTo, Call
  <2>7. running'
    BY <1>1, <1>5 DEF Call, flagVars, Fetch
  <2>8. QED
    BY <1>1, <1>3, <2>1, <2>5, <2>6, <2>7 DEF GoesTo, Here
<1>6. CASE LoadModule
  <2>1. /\ Instr.arg \in Mods
        /\ GoesTo(Len(chunks) + 1, Instr.arg, pc + 1)
        /\ Records(Len(chunks) + 1, Instr.arg, pc + 1)
        /\ FuncsKnown'
    BY <1>2, <1>6, LoadGoes
  <2>2. 0 \in Addresses(prog, Instr.arg)
    BY <1>2, <2>1, FirstAddress DEF Units
  <2>3. Rank[Instr.arg] < Rank[Here]
    BY <1>1, <1>2, <1>6, Descending DEF LoadModule
  <2>4. Linked'
    BY <1>2, <1>3, <2>1, <2>2, <2>3, Entering
  <2>5. running'
    BY <1>6 DEF LoadModule, Execute
  <2>6. QED
    BY <1>1, <1>3, <2>1, <2>4, <2>5 DEF GoesTo, Here
<1>7. QED
  BY <1>5, <1>6

(* Returns and ends of modules resume the activation suspended last. *)
LEMMA ResumeKeeps ==
  ASSUME AInv, Return \/ (running /\ ModuleEnds)
  PROVE  /\ Linked' /\ FuncsKnown' /\ callers # <<>>
         /\ Here' = callers[Len(callers)].unit /\ pc' = callers[Len(callers)].at
         /\ callers' = SubSeq(callers, 1, Len(callers) - 1)
         /\ UNCHANGED <<prog, status, running>>
<1>1. /\ IInv /\ TypeOK /\ Linked /\ status = "running" /\ FuncsKnown
      /\ UNCHANGED <<prog, status, running>>
  BY DEF AInv, IInv, InStep, Return, Fetch, ModuleEnds, LoopOver, flagVars, driverVars
<1>2. PICK a : callers # <<>> /\ Resumes(a) /\ Restores(a)
  <2>1. CASE Return
    BY <1>1, <2>1, ReturnResumes DEF Return
  <2>2. CASE running /\ ModuleEnds
    BY <1>1, <2>2, EndResumes
  <2>3. QED
    BY <2>1, <2>2
<1>3. /\ Linked' /\ Here' = callers[Len(callers)].unit /\ pc' = callers[Len(callers)].at
  BY <1>1, <1>2, Leaving
<1>4. FuncsKnown'
  BY <1>1, <1>2, FuncsStay DEF Resumes
<1>5. QED
  BY <1>1, <1>2, <1>3, <1>4 DEF Resumes

(* A run begins with one activation, of a main unit.                       *)
LEMMA StartKeeps ==
  ASSUME AInv, Orderly(Programs), Start
  PROVE  /\ Linked' /\ FuncsKnown' /\ Here' \in Mains /\ pc' = 0 /\ callers' = <<>>
         /\ prog' = prog /\ nest' = nest /\ status' = "running" /\ running'
<1>1. PICK u \in Mains : Execute(Regs, u, source_filename)
  BY DEF Start
<1>2. /\ IInv /\ TypeOK /\ FuncsKnown /\ prog \in Programs
      /\ nest = 0 /\ callers' = <<>> /\ status' = "running"
      /\ UNCHANGED <<prog, call_stack, sourceVars, error_from_native, nest>>
  BY DEF AInv, IInv, Start
<1>3. /\ RegsOK(Regs) /\ Regs.chunks = chunks /\ Regs.id = chunk_id /\ Regs.pc = pc
      /\ Regs.tb = chunk_traceback
      /\ Regs = [chunks |-> Regs.chunks, id |-> Regs.id, pc |-> Regs.pc, tb |-> Regs.tb]
  BY <1>2 DEF TypeOK, Regs
<1>4. KeepsAllBut(chunk_id, chunks, chunks) /\ Len(chunks) \in Nat
  BY <1>2, RegsLengths DEF TypeOK, Regs, KeepsAllBut
<1>5. u \in Loaded /\ u \in Units /\ source_filename \in Files
  BY <1>2 DEF Loaded, Units, IInv, SourceKnown
<1> DEFINE r == Regs
<1>6. /\ RegsOK(r) /\ Len(r.chunks) = Len(chunks) /\ KeepsAllBut(r.id, chunks, r.chunks)
      /\ r = [chunks |-> r.chunks, id |-> r.id, pc |-> r.pc, tb |-> r.tb]
      /\ Execute(r, u, source_filename)
  BY <1>1, <1>3, <1>4
<1> HIDE DEF r
<1>7. /\ pc' = 0 /\ chunk_id' \in 1 .. Len(chunks')
      /\ chunks'[chunk_id'].unit = u /\ chunks'[chunk_id'].file = source_filename
      /\ FuncsKnown'
  BY <1>2, <1>5, <1>6, ExecuteGoes
<1>8. running' /\ result' = "OK"
  BY <1>1 DEF Execute
<1>9. Depth' = 1 /\ Chain' = [k \in 1 .. 1 |-> chunk_id'] /\ Here' = u
  BY <1>2, <1>7 DEF Depth, Chain, Here
<1>10. Trail' = [k \in 1 .. 1 |-> u]
  BY <1>7, <1>9 DEF Trail
<1>11. Suspended'
  <2>1. Len(chunk_traceback') \in Nat
    BY Inductive, RegsLengths, <1>2 DEF Next, IInv, TypeOK, Regs
  <2>2. QED
    BY <1>2, <2>1 DEF Suspended
<1>12. Falling'
  <2>1. Rank' = Rank
    BY <1>2 DEF Rank
  <2>2. Rank \in [Units -> Nat] /\ Descends(prog, Rank)
    BY <1>2 DEF Orderly, Rank
  <2>3. u \notin Funcs
    BY UnitsAssumption
  <2>4. QED
    BY <1>2, <1>9, <1>10, <2>1, <2>2, <2>3 DEF Falling
<1>13. Rooted'
  BY <1>2, <1>5, <1>7, <1>9, <1>10, FirstAddress DEF Rooted, Addresses
<1>14. Framed'
  <2>1. Count(Trail', 1, Mods) = 0 /\ Count(Trail', 1, Funcs) = 0
    BY CountNone
  <2>2. Len(call_stack) \in Nat
    BY <1>2 DEF TypeOK
  <2>3. QED
    BY <1>2, <1>9, <2>1, <2>2 DEF Framed
<1>15. Sourced'
  <2>1. Len(sf_traceback) > 0
    BY <1>2 DEF IInv, SourcesCoverFrames, TypeOK
  <2>2. QED
    BY <1>2, <1>7, <2>1 DEF Sourced, sourceVars
<1>16. QED
  BY <1>2, <1>7, <1>8, <1>9, <1>11, <1>12, <1>13, <1>14, <1>15 DEF Linked

(* The instructions that stop a run at once. *)
Stopping == Raise \/ NativeFails \/ Exit \/ CallUndefined

LEMMA StopKeeps ==
  ASSUME AInv, Stopping
  PROVE  /\ ~running' /\ FuncsKnown' /\ UNCHANGED <<prog, status, nest>>
         /\ Fetch /\ Linked /\ Instr.op \in {"raise", "native", "exit", "call"}
<1>1. /\ Fetch /\ SetRegs(Fetched) /\ running' = FALSE /\ UNCHANGED <<prog, func_chunk, status, nest>>
      /\ Instr.op \in {"raise", "native", "exit", "call"}
  BY DEF Stopping, Raise, NativeFails, Exit, CallUndefined, vm_error, driverVars
<1>2. TypeOK /\ FuncsKnown /\ Linked
  BY <1>1 DEF AInv, IInv, InStep, Fetch
<1>3. KeepsAllBut(chunk_id, chunks, chunks')
  BY <1>1, <1>2, FetchAssigned
<1>4. FuncsKnown'
  BY <1>1, <1>2, <1>3, FuncsStay
<1>5. QED
  BY <1>1, <1>2, <1>4

(* A program that descends neither returns outside a function nor goes to  *)
(* another block.                                                          *)
LEMMA NeverTaken ==
  AInv => ~ReturnAtTop /\ ~Goto /\ ~GotoUndefined
<1> SUFFICES ASSUME AInv, ReturnAtTop \/ Goto \/ GotoUndefined PROVE FALSE
  OBVIOUS
<1>1. /\ Fetch /\ Instr.op \in {"return", "goto"}
      /\ Instr.op = "return" => call_stack = <<>>
  BY DEF ReturnAtTop, Goto, GotoUndefined
<1>2. IInv /\ Linked
  BY <1>1 DEF AInv, InStep, Fetch
<1>3. QED
  BY <1>1, <1>2, Descending, ReturnResumes

(* What a vm_execute does that returns after an error or exit.             *)
LEMMA StoppedKeeps ==
  ASSUME AInv, ModuleFails \/ (~running /\ ModuleEnds)
  PROVE  /\ ~running /\ ~running' /\ FuncsKnown' /\ UNCHANGED <<prog, status>>
         /\ status = "running" /\ nest > 0
<1>1. /\ IInv /\ TypeOK /\ FuncsKnown /\ status = "running" /\ nest > 0
      /\ UNCHANGED <<prog, status, running, func_chunk>>
  BY DEF AInv, IInv, ModuleFails, ModuleEnds, LoopOver, flagVars
<1>2. ~running
  BY <1>1 DEF AInv, InStep, Linked, ModuleFails
<1>3. KeepsAllBut(chunk_id, chunks, chunks')
  <2>1. CASE ModuleFails
    BY <1>1, <2>1, ChunksStay DEF ModuleFails, chunkVars
  <2>2. CASE ModuleEnds
    <3>1. /\ RegsOK(Regs) /\ Regs.chunks = chunks /\ Regs.id = chunk_id
          /\ Regs.tb = chunk_traceback /\ chunk_id # 0
          /\ Regs = [chunks |-> Regs.chunks, id |-> Regs.id, pc |-> Regs.pc, tb |-> Regs.tb]
      BY <1>1 DEF TypeOK, Regs
    <3>2. chunk_traceback # <<>>
      <4>1. Len(chunk_traceback) >= Len(call_stack) + nest /\ Len(call_stack) \in Nat /\ nest \in Nat
        BY <1>1 DEF IInv, TracebackCoversFrames, TypeOK
      <4>2. QED
        BY <1>1, <4>1
    <3>3. KeepsAllBut(chunk_id, chunks, back_chunk(Regs).chunks)
      BY <3>1, <3>2, BackResumes
    <3>4. QED
      BY <2>2, <3>3 DEF ModuleEnds, SetRegs
  <2>3. QED
    BY <2>1, <2>2
<1>4. FuncsKnown'
  BY <1>1, <1>3, FuncsStay
<1>5. QED
  BY <1>1, <1>2, <1>4

LEMMA EndKeeps ==
  ASSUME AInv, End \/ UNCHANGED vars
  PROVE  AInv'
<1>1. /\ UNCHANGED <<prog, chunkVars, call_stack, func_chunk, sourceVars, flagVars,
                     nest, runs, callers>>
      /\ (status' = "idle" /\ nest = 0) \/ status' = status
  BY DEF End, vars, driverVars
<1>2. IInv'
  BY Inductive DEF AInv, Next
<1>3. FuncsKnown'
  BY <1>1, FuncsStay, ChunksStay DEF AInv, IInv, chunkVars
<1>4. Linked => Linked'
  <2>1. /\ Depth' = Depth /\ Chain' = Chain /\ Rank' = Rank /\ Here' = Here
        /\ UNCHANGED <<prog, chunks, chunk_id, pc, chunk_traceback, call_stack, func_chunk,
                      sf_traceback, source_filename, nest, callers, result>>
    BY <1>1 DEF Depth, Chain, Rank, Here, chunkVars, sourceVars, flagVars
  <2>2. Trail' = Trail
    BY <2>1 DEF Trail
  <2>3. (Suspended => Suspended') /\ (Sourced => Sourced')
    BY <2>1, <2>2 DEF Suspended, Sourced, Addresses
  <2>4. (Falling => Falling') /\ (Rooted => Rooted')
    BY <2>1, <2>2 DEF Falling, Descends, Rooted, Addresses
  <2>5. Framed => Framed'
    BY <2>1, <2>2 DEF Framed
  <2>6. QED
    BY <2>1, <2>3, <2>4, <2>5 DEF Linked
<1>5. QED
  BY <1>1, <1>2, <1>3, <1>4 DEF AInv, InStep, flagVars

LEMMA AInitially ==
  Init => AInv
BY Initially DEF Init, AInv, FuncsKnown, InStep

LEMMA AInductive ==
  Orderly(Programs) /\ AInv /\ [Next]_vars => AInv'
<1> SUFFICES ASSUME Orderly(Programs), AInv, [Next]_vars PROVE AInv'
  OBVIOUS
<1>1. IInv'
  BY Inductive DEF AInv
<1>2. CASE Step \/ FallThrough \/ Native
  BY <1>1, <1>2, PlainKeeps DEF AInv, InStep
<1>3. CASE Jump
  BY <1>1, <1>3, JumpKeeps DEF AInv, InStep
<1>4. CASE Stopping
  BY <1>1, <1>4, StopKeeps DEF AInv, InStep
<1>5. CASE Call \/ LoadModule
  BY <1>1, <1>5, EnterKeeps DEF AInv, InStep, Call, LoadModule, Fetch
<1>6. CASE Return \/ (running /\ ModuleEnds)
  BY <1>1, <1>6, ResumeKeeps DEF AInv, InStep, Return, Fetch, ModuleEnds, LoopOver
<1>7. CASE ModuleFails \/ (~running /\ ModuleEnds)
  BY <1>1, <1>7, StoppedKeeps DEF AInv, InStep
<1>8. CASE Start
  BY <1>1, <1>8, StartKeeps DEF AInv, InStep
<1>9. CASE End \/ UNCHANGED vars
  BY <1>9, EndKeeps
<1>10. QED
  BY <1>2, <1>3, <1>4, <1>5, <1>6, <1>7, <1>8, <1>9, NeverTaken DEF Next, Stopping

(* Every activation suspended in a run is linked to where it goes on.      *)
THEOREM ActivationsAreLinked ==
  ASSUME Orderly(Programs)
  PROVE  Spec => []AInv
BY AInitially, AInductive, PTL DEF Spec

(* Error messages and module searches use the file that the running unit   *)
(* was loaded from, through calls, recursion, loads and returns.           *)
THEOREM SourceFollows ==
  ASSUME Orderly(Programs)
  PROVE  Spec => []SourceFollowsChunk
<1>1. AInv => SourceFollowsChunk
  BY DEF AInv, InStep, Linked, Sourced, SourceFollowsChunk
<1>2. QED
  BY <1>1, ActivationsAreLinked, PTL

(***************************************************************************)
(* The refinement of Activations, step by step.                            *)
(***************************************************************************)

(* What Activations calls the top, the rest and the instruction. *)
LEMMA OnTop ==
  ASSUME AInv, status = "running", running
  PROVE  /\ Acts = Append(callers, [unit |-> Here, at |-> pc])
         /\ Acts # <<>> /\ Len(Acts) = Len(callers) + 1 /\ Len(callers) \in Nat
         /\ Promised!Top = [unit |-> Here, at |-> pc] /\ Promised!Rest = callers
         /\ Promised!Code = Code /\ Promised!Instr = Instr
         /\ Promised!Ready <=> pc < Len(Code)
<1>1. /\ Here \in Units /\ pc \in Nat /\ callers \in Seq([unit : Units, at : Nat])
      /\ Acts = Append(callers, [unit |-> Here, at |-> pc])
  <2>1. IInv /\ TypeOK /\ Linked
    BY DEF AInv, IInv, InStep
  <2>2. QED
    BY <2>1, KindOfRun DEF Acts, TypeOK, RegsOK, Regs
<1> DEFINE a == [unit |-> Here, at |-> pc]
<1>2. a \in [unit : Units, at : Nat] /\ a.unit = Here /\ a.at = pc
  BY <1>1
<1> HIDE DEF a
<1>3. /\ Acts # <<>> /\ Len(Acts) = Len(callers) + 1 /\ Acts[Len(Acts)] = a
      /\ SubSeq(Acts, 1, Len(Acts) - 1) = callers
  <2>1. Acts = Append(callers, a)
    BY <1>1 DEF a
  <2>2. QED
    BY <1>1, <1>2, <2>1, TopAndRest
<1>4. Promised!Top = a /\ Promised!Rest = callers
  BY <1>3 DEF Promised!Top, Promised!Rest
<1>5. Promised!Code = Code /\ Promised!Instr = Instr
  BY <1>2, <1>4 DEF Promised!Code, Promised!Instr, Code, Instr
<1>6. Promised!Ready <=> pc < Len(Code)
  BY <1>2, <1>3, <1>4, <1>5 DEF Promised!Ready
<1>7. QED
  BY <1>1, <1>3, <1>4, <1>5, <1>6 DEF a

(* Two elements put at the end one by one or together. *)
LEMMA TwoAppended ==
  ASSUME NEW S, NEW q \in Seq(S), NEW a \in S, NEW b \in S
  PROVE  Append(Append(q, a), b) = q \o <<a, b>>
OBVIOUS

(* Putting the last element back. *)
LEMMA PutBack ==
  ASSUME NEW S, NEW q \in Seq(S), q # <<>>
  PROVE  Append(SubSeq(q, 1, Len(q) - 1), q[Len(q)]) = q
<1> DEFINE r == SubSeq(q, 1, Len(q) - 1)
           e == q[Len(q)]
<1>1. /\ r \in Seq(S) /\ Len(r) = Len(q) - 1 /\ Len(q) \in Nat \ {0}
      /\ \A i \in 1 .. Len(q) - 1 : r[i] = q[i]
  BY FrontOfSeq
<1>2. e \in S
  BY <1>1
<1> HIDE DEF r, e
<1>3. /\ Append(r, e) \in Seq(S) /\ Len(Append(r, e)) = Len(q)
      /\ \A i \in 1 .. Len(q) - 1 : Append(r, e)[i] = q[i]
      /\ Append(r, e)[Len(q)] = e
  BY <1>1, <1>2
<1> DEFINE t == Append(r, e)
<1>4. \A i \in 1 .. Len(q) : t[i] = q[i]
  BY <1>1, <1>3 DEF e
<1> HIDE DEF t
<1>5. t = q
  BY <1>3, <1>4, SeqEqual DEF t
<1>6. QED
  BY <1>5 DEF t, r, e

(* Every step is a step of a stack of activations, or leaves it alone.     *)
LEMMA StepsMap ==
  ASSUME Orderly(Programs), AInv, [Next]_vars
  PROVE  [Promised!Next]_Promised!vars
<1>1. CASE Step \/ FallThrough \/ Native
  <2>1. /\ status = "running" /\ running /\ pc < Len(Code) /\ Instr.op \in {"step", "branch", "native"}
    BY <1>1 DEF Step, FallThrough, Native, Fetch
  <2>2. /\ Here' = Here /\ pc' = pc + 1
        /\ UNCHANGED <<prog, callers, status, running, nest>>
    BY <1>1, PlainKeeps
  <2>3. Acts' = Append(callers, [unit |-> Here, at |-> pc + 1])
    BY <2>1, <2>2 DEF Acts
  <2>4. Promised!Plain
    BY <2>1, <2>3, OnTop DEF Promised!Plain, Promised!At
  <2>5. QED
    BY <2>2, <2>4 DEF Promised!Next
<1>2. CASE Jump
  <2>1. /\ status = "running" /\ running /\ pc < Len(Code) /\ Instr.op \in {"jump", "branch"}
    BY <1>2 DEF Jump, Fetch
  <2>2. /\ Here' = Here /\ pc' = Instr.arg
        /\ UNCHANGED <<prog, callers, status, running, nest>>
    BY <1>2, JumpKeeps
  <2>3. Acts' = Append(callers, [unit |-> Here, at |-> Instr.arg])
    BY <2>1, <2>2 DEF Acts
  <2>4. Promised!Jump
    BY <2>1, <2>3, OnTop DEF Promised!Jump, Promised!At
  <2>5. QED
    BY <2>2, <2>4 DEF Promised!Next
<1>3. CASE Call \/ LoadModule
  <2>1. /\ status = "running" /\ running /\ pc < Len(Code) /\ Instr.op \in {"call", "load"}
        /\ IInv /\ TypeOK
    BY <1>3 DEF Call, LoadModule, Fetch, AInv, IInv
  <2>2. /\ Here' = Instr.arg /\ pc' = 0
        /\ callers' = Append(callers, [unit |-> Here, at |-> pc + 1])
        /\ UNCHANGED <<prog, status>> /\ running' /\ Here \in Units /\ pc \in Nat
    BY <1>3, EnterKeeps
  <2>3. Instr.arg \in Units /\ callers \in Seq([unit : Units, at : Nat])
    <3>1. Instr \in Instructions
      BY <2>1, Decoding DEF Fetch
    <3>2. QED
      BY <2>1, <3>1 DEF Instructions, Units, TypeOK
  <2>4. Acts' = callers \o <<[unit |-> Here, at |-> pc + 1], [unit |-> Instr.arg, at |-> 0]>>
    <3> DEFINE a == [unit |-> Here, at |-> pc + 1]
               b == [unit |-> Instr.arg, at |-> 0]
    <3>1. Acts' = Append(Append(callers, a), b)
      BY <2>1, <2>2 DEF Acts
    <3>2. a \in [unit : Units, at : Nat] /\ b \in [unit : Units, at : Nat]
      BY <2>2, <2>3
    <3> HIDE DEF a, b
    <3>3. Acts' = callers \o <<a, b>>
      BY <2>3, <3>1, <3>2, TwoAppended
    <3>4. QED
      BY <3>3 DEF a, b
  <2>5. Promised!EnterUnit
    <3>1. /\ Promised!Ready /\ Promised!Instr = Instr /\ Promised!Rest = callers
          /\ Promised!Top = [unit |-> Here, at |-> pc]
      BY <2>1, OnTop
    <3>2. [Promised!Top EXCEPT !.at = Promised!Top.at + 1] = [unit |-> Here, at |-> pc + 1]
      BY <3>1
    <3>3. Promised!Enter(Promised!Instr.arg)
      BY <2>4, <3>1, <3>2 DEF Promised!Enter
    <3>4. QED
      BY <2>1, <3>1, <3>3 DEF Promised!EnterUnit
  <2>6. QED
    BY <2>2, <2>5 DEF Promised!Next
<1>4. CASE Return \/ (running /\ ModuleEnds)
  <2>1. status = "running" /\ running /\ IInv /\ Linked
    BY <1>4 DEF Return, ModuleEnds, LoopOver, Fetch, AInv, InStep
  <2>2. /\ callers # <<>> /\ callers \in Seq([unit : Units, at : Nat])
        /\ Here' = callers[Len(callers)].unit /\ pc' = callers[Len(callers)].at
        /\ callers' = SubSeq(callers, 1, Len(callers) - 1)
        /\ UNCHANGED <<prog, status, running>>
    BY <1>4, <2>1, ResumeKeeps, KindOfRun
  <2>3. Acts' = callers
    <3>1. callers[Len(callers)] \in [unit : Units, at : Nat]
      <4> DEFINE S == [unit : Units, at : Nat]
      <4>1. callers \in Seq(S) /\ callers # <<>>
        BY <2>2
      <4> HIDE DEF S
      <4>2. Len(callers) \in 1 .. Len(callers)
        BY <4>1
      <4>3. callers[Len(callers)] \in S
        BY <4>1, <4>2
      <4>4. QED
        BY <4>3 DEF S
    <3>2. [unit |-> Here', at |-> pc'] = callers[Len(callers)]
      BY <2>2, <3>1
    <3>3. Acts' = Append(callers', callers[Len(callers)])
      BY <2>1, <2>2, <3>2 DEF Acts
    <3>4. QED
      BY <2>2, <3>3, PutBack
  <2>4. CASE Return
    <3>1. pc < Len(Code) /\ Instr.op = "return" /\ Len(callers) # 0
      BY <2>2, <2>4 DEF Return, Fetch
    <3>2. Promised!Return
      BY <2>1, <2>3, <3>1, OnTop DEF Promised!Return
    <3>3. QED
      BY <2>2, <3>2 DEF Promised!Next
  <2>5. CASE ModuleEnds
    <3>1. pc = Len(Code)
      BY <2>1, <2>5, AtItsEnd DEF ModuleEnds
    <3>2. Promised!Finish
      BY <2>1, <2>3, <3>1, OnTop DEF Promised!Finish
    <3>3. QED
      BY <2>2, <3>2 DEF Promised!Next
  <2>6. QED
    BY <1>4, <2>4, <2>5
<1>5. CASE Stopping
  <2>1. /\ status = "running" /\ running /\ pc < Len(Code) /\ prog' = prog
        /\ Instr.op \in {"raise", "native", "exit", "call"} /\ Acts' = <<>>
    BY <1>5, StopKeeps DEF Fetch, Acts
  <2>2. Promised!Stop
    BY <2>1, OnTop DEF Promised!Stop
  <2>3. QED
    BY <2>1, <2>2 DEF Promised!Next
<1>6. CASE ModuleFails \/ (~running /\ ModuleEnds)
  <2>1. prog' = prog /\ Acts' = Acts
    BY <1>6, StoppedKeeps DEF Acts
  <2>2. QED
    BY <2>1 DEF Promised!vars
<1>7. CASE Start
  <2>1. /\ Here' \in Mains /\ pc' = 0 /\ callers' = <<>> /\ prog' = prog
        /\ status' = "running" /\ running' /\ status = "idle"
    BY <1>7, StartKeeps DEF Start
  <2>2. Acts = <<>> /\ Acts' = << [unit |-> Here', at |-> 0] >>
    BY <2>1 DEF Acts
  <2>3. Promised!Start
    BY <2>1, <2>2 DEF Promised!Start
  <2>4. QED
    BY <2>1, <2>3 DEF Promised!Next
<1>8. CASE End
  <2>1. /\ LoopOver /\ status = "running" /\ nest = 0 /\ prog' = prog /\ Acts' = <<>> /\ IInv
    BY <1>8 DEF End, LoopOver, Acts, AInv
  <2>2. CASE ~running
    BY <2>1, <2>2 DEF Acts, Promised!vars
  <2>3. CASE running
    <3>1. Linked /\ pc = Len(Code) /\ callers = <<>>
      BY <2>1, <2>3, AtItsEnd, KindOfRun DEF AInv, InStep
    <3>2. Promised!Finish
      BY <2>1, <2>3, <3>1, OnTop DEF Promised!Finish
    <3>3. QED
      BY <2>1, <3>2 DEF Promised!Next
  <2>4. QED
    BY <2>1, <2>2, <2>3 DEF AInv, IInv, TypeOK
<1>9. CASE UNCHANGED vars
  BY <1>9 DEF vars, Promised!vars, Acts, Here, chunkVars, flagVars, driverVars
<1>10. QED
  BY <1>1, <1>2, <1>3, <1>4, <1>5, <1>6, <1>7, <1>8, <1>9, NeverTaken DEF Next, Stopping

(* The virtual machine keeps its promise: whatever its chunks share, every *)
(* call, load and return is that of a stack of activations, each of which  *)
(* goes on exactly where it was suspended.                                 *)
THEOREM Refinement ==
  ASSUME Orderly(Programs)
  PROVE  Spec => ActivationsSpec
<1>1. Init => Promised!Init
  BY DEF Init, Promised!Init, Acts
<1>2. AInv /\ [Next]_vars => [Promised!Next]_Promised!vars
  BY StepsMap
<1>3. QED
  BY <1>1, <1>2, ActivationsAreLinked, PTL DEF Spec, ActivationsSpec, Promised!Spec

(***************************************************************************)
(* What one run leaves behind.                                             *)
(***************************************************************************)

(* Before the first run the machine is empty. *)
Empty ==
  /\ status = "idle" /\ chunk_id = 0 /\ chunk_traceback = <<>> /\ call_stack = <<>>
  /\ sf_traceback = <<NoFile>> /\ source_filename = MainFile

(* During it every suspended chunk, frame and source file is that of a     *)
(* suspended activation, except the file recorded first.                   *)
Balanced ==
  /\ Len(chunk_traceback) = Len(callers)
  /\ Len(call_stack) = Count(Trail, Depth, Funcs)
  /\ Len(sf_traceback) = Len(callers) + 1 /\ sf_traceback[1] = NoFile
  /\ chunks[Chain[1]].file = MainFile

RInv ==
  /\ AInv /\ LeavesNothing
  /\ runs = 0 => Empty
  /\ status = "running" /\ running => Balanced
  /\ status = "running" /\ ~running => stopped_by # "none"

(* An instruction in its place keeps the balance. *)
LEMMA BalancedInPlace ==
  ASSUME IInv, status = "running", Linked, Balanced, KeepsAllBut(chunk_id, chunks, chunks'),
         UNCHANGED <<chunk_id, chunk_traceback, call_stack, sf_traceback, callers>>
  PROVE  Balanced'
<1>1. /\ Len(callers) \in Nat /\ Depth = Len(callers) + 1
      /\ \A k \in 1 .. Depth : Chain[k] \in 1 .. Len(chunks) /\ Trail[k] = chunks[Chain[k]].unit
  BY ChainTypes DEF IInv, Linked
<1>2. Depth' = Depth /\ Chain' = Chain
  BY DEF Depth, Chain
<1>3. Trail' = [k \in 1 .. Depth |-> chunks'[Chain[k]].unit]
  BY <1>2 DEF Trail
<1>4. \A k \in 1 .. Depth : Trail'[k] = Trail[k]
  BY <1>1, <1>3 DEF KeepsAllBut
<1>5. Count(Trail', Depth, Funcs) = Count(Trail, Depth, Funcs)
  <2>1. Depth \in Nat
    BY <1>1
  <2>2. QED
    BY <1>4, <2>1, CountSame
<1>6. chunks'[Chain[1]].file = MainFile
  BY <1>1 DEF KeepsAllBut, Balanced
<1>7. QED
  BY <1>2, <1>5, <1>6 DEF Balanced

(* So does entering a unit, *)
LEMMA BalancedEntering ==
  ASSUME IInv, status = "running", Linked, Balanced, NEW c, NEW v, NEW a,
         GoesTo(c, v, a), Records(c, v, a), c \in Nat
  PROVE  Balanced'
<1>1. /\ Len(callers) \in Nat /\ Depth = Len(callers) + 1 /\ chunk_id \in 1 .. Len(chunks)
      /\ \A k \in 1 .. Depth : Chain[k] \in 1 .. Len(chunks)
  BY ChainTypes DEF IInv, Linked
<1>2. /\ Depth' = Depth + 1 /\ Len(callers') = Len(callers) + 1
      /\ Chain'[Depth + 1] = c /\ Trail'[Depth + 1] = v
      /\ \A k \in 1 .. Depth : Chain'[k] = Chain[k] /\ Trail'[k] = Trail[k]
  BY ChainGrows
<1>3. /\ Len(chunk_traceback) \in Nat /\ Len(chunk_traceback') = Len(chunk_traceback) + 1
      /\ sf_traceback \in Seq(Files \cup {NoFile}) /\ source_filename \in Files \cup {NoFile}
      /\ call_stack \in Seq(Nat)
  BY <1>1 DEF GoesTo, IInv, TypeOK, RegsOK, Regs
<1>4. Len(sf_traceback') = Len(sf_traceback) + 1 /\ sf_traceback'[1] = sf_traceback[1]
  BY <1>1, <1>3, AppendToSeq DEF GoesTo, Balanced
<1>5. Len(call_stack') = Count(Trail', Depth', Funcs)
  <2>1. Count(Trail', Depth, Funcs) = Count(Trail, Depth, Funcs)
    BY <1>1, <1>2, CountSame
  <2>2. /\ Count(Trail', Depth, Funcs) \in Nat
        /\ Count(Trail', Depth + 1, Funcs) = IF Trail'[Depth + 1] \in Funcs
             THEN Count(Trail', Depth, Funcs) + 1 ELSE Count(Trail', Depth, Funcs)
    <3>1. Depth \in Nat \ {0}
      BY <1>1
    <3>2. QED
      BY <3>1, CountOneMore
  <2>3. CASE v \in Funcs /\ call_stack' = Append(call_stack, a)
    <3>1. Len(call_stack') = Len(call_stack) + 1
      BY <1>3, <2>3
    <3>2. QED
      BY <1>2, <2>1, <2>2, <2>3, <3>1 DEF Balanced
  <2>4. CASE v \in Mods /\ call_stack' = call_stack
    BY <1>2, <2>1, <2>2, <2>4, UnitsAssumption DEF Balanced
  <2>5. QED
    BY <2>3, <2>4 DEF Records
<1>6. chunks'[Chain'[1]].file = MainFile
  <2>1. 1 \in 1 .. Depth
    BY <1>1
  <2>2. QED
    BY <1>1, <1>2, <2>1 DEF GoesTo, KeepsAllBut, Balanced
<1>7. QED
  BY <1>1, <1>2, <1>3, <1>4, <1>5, <1>6 DEF Balanced

(* and going back to the one suspended last. *)
LEMMA BalancedLeaving ==
  ASSUME IInv, status = "running", Linked, Balanced, callers # <<>>,
         NEW a, Resumes(a), Restores(a)
  PROVE  Balanced'
<1>1. /\ Depth' = Len(callers) /\ Len(callers') = Len(callers) - 1
      /\ Len(callers) \in Nat \ {0}
      /\ \A k \in 1 .. Len(callers) : Chain'[k] = Chain[k] /\ Trail'[k] = Trail[k]
  BY ChainShrinks
<1>2. /\ Depth = Len(callers) + 1 /\ Trail[Depth] = Here
      /\ \A k \in 1 .. Depth : Chain[k] \in 1 .. Len(chunks)
  BY ChainTypes DEF IInv, Linked
<1>3. /\ chunk_traceback' = SubSeq(chunk_traceback, 1, Len(chunk_traceback) - 1)
      /\ sf_traceback' = SubSeq(sf_traceback, 1, Len(sf_traceback) - 1)
      /\ \A d \in 1 .. Len(chunks) : chunks'[d].file = chunks[d].file
  BY DEF Resumes, KeepsAllBut
<1>4. Len(chunk_traceback') = Len(chunk_traceback) - 1
  <2> DEFINE S == 1 .. Len(chunks)
  <2>1. chunk_traceback \in Seq(S) /\ Len(chunk_traceback) # 0
    BY <1>1 DEF IInv, TypeOK, RegsOK, Regs, Balanced
  <2> HIDE DEF S
  <2>2. chunk_traceback # <<>>
    BY <2>1
  <2>3. QED
    BY <1>3, <2>1, <2>2, FrontOfSeq
<1>5. Len(sf_traceback') = Len(sf_traceback) - 1 /\ sf_traceback'[1] = sf_traceback[1]
  <2> DEFINE S == Files \cup {NoFile}
  <2>1. sf_traceback \in Seq(S) /\ Len(sf_traceback) \in Nat /\ Len(sf_traceback) >= 2
    BY <1>1 DEF IInv, TypeOK, Balanced
  <2> HIDE DEF S
  <2>2. sf_traceback # <<>> /\ 1 \in 1 .. Len(sf_traceback) - 1
    BY <2>1
  <2>3. QED
    BY <1>3, <2>1, <2>2, FrontOfSeq
<1>6. Len(call_stack') = Count(Trail', Depth', Funcs)
  <2> DEFINE n == Len(callers)
  <2>1. n \in Nat \ {0} /\ Depth = n + 1 /\ \A k \in 1 .. n : Trail'[k] = Trail[k]
    BY <1>1, <1>2
  <2> HIDE DEF n
  <2>2. Count(Trail', n, Funcs) = Count(Trail, n, Funcs)
    BY <2>1, CountSame
  <2>3. /\ Count(Trail, n, Funcs) \in Nat
        /\ Count(Trail, n + 1, Funcs) = IF Trail[n + 1] \in Funcs
             THEN Count(Trail, n, Funcs) + 1 ELSE Count(Trail, n, Funcs)
    BY <2>1, CountOneMore
  <2>4. CASE Here \in Funcs /\ call_stack' = SubSeq(call_stack, 1, Len(call_stack) - 1)
    <3>1. call_stack \in Seq(Nat) /\ call_stack # <<>>
      BY <2>4, KindOfRun DEF IInv, TypeOK
    <3>2. Len(call_stack') = Len(call_stack) - 1
      BY <2>4, <3>1, FrontOfSeq
    <3>3. QED
      BY <1>1, <1>2, <2>1, <2>2, <2>3, <2>4, <3>2 DEF Balanced, n
  <2>5. CASE Here \in Mods /\ call_stack' = call_stack
    <3>1. Here \notin Funcs
      BY <2>5, UnitsAssumption
    <3>2. QED
      BY <1>1, <1>2, <2>1, <2>2, <2>3, <2>5, <3>1 DEF Balanced, n
  <2>6. QED
    BY <2>4, <2>5 DEF Restores
<1>7. chunks'[Chain'[1]].file = MainFile
  <2>1. 1 \in 1 .. Len(callers) /\ 1 \in 1 .. Depth
    BY <1>1, <1>2
  <2>2. QED
    BY <1>1, <1>2, <1>3, <2>1 DEF Balanced
<1>8. QED
  BY <1>1, <1>4, <1>5, <1>6, <1>7 DEF Balanced

LEMMA RInductive ==
  ASSUME Orderly(Programs), MaxRuns = 1, RInv, [Next]_vars
  PROVE  RInv'
<1>1. AInv /\ AInv' /\ IInv /\ TypeOK /\ runs \in Nat
  BY AInductive, BoundsAssumption DEF RInv, AInv, IInv, TypeOK
<1>2. runs = 0 => status = "idle"
  BY DEF RInv, Empty
<1>3. ASSUME status = "running", running, status' = "running", running', runs' = runs, Balanced'
      PROVE  RInv'
  BY <1>1, <1>2, <1>3 DEF RInv, LeavesNothing
<1>4. CASE Step \/ FallThrough \/ Native \/ Jump
  <2>1. /\ Fetch /\ status = "running" /\ running /\ status' = status /\ running' = running
        /\ runs' = runs /\ UNCHANGED <<call_stack, sf_traceback, callers>>
        /\ SetRegs(Fetched) \/ SetRegs([Fetched EXCEPT !.pc = Instr.arg])
    BY <1>4 DEF Step, FallThrough, Native, Jump, Fetch, flagVars, driverVars, sourceVars
  <2>2. UNCHANGED <<chunk_id, chunk_traceback>> /\ KeepsAllBut(chunk_id, chunks, chunks')
    <3>1. CASE SetRegs(Fetched)
      BY <1>1, <2>1, <3>1, FetchAssigned
    <3>2. CASE SetRegs([Fetched EXCEPT !.pc = Instr.arg])
      BY <1>1, <2>1, <3>2, FetchAssigned
    <3>3. QED
      BY <2>1, <3>1, <3>2
  <2>3. Linked /\ Balanced
    BY <2>1 DEF RInv, AInv, InStep
  <2>4. Balanced'
    BY <1>1, <2>1, <2>2, <2>3, BalancedInPlace
  <2>5. QED
    BY <1>3, <2>1, <2>4
<1>5. CASE Call \/ LoadModule
  <2>1. /\ status = "running" /\ running /\ status' = "running" /\ runs' = runs
    BY <1>5 DEF Call, LoadModule, Fetch, driverVars
  <2>2. Linked /\ Balanced /\ FuncsKnown
    BY <2>1 DEF RInv, AInv, InStep
  <2>3. running'
    BY <1>1, <1>5, EnterKeeps
  <2>4. PICK c \in Nat : /\ GoesTo(c, Instr.arg, pc + 1)
                         /\ Records(c, Instr.arg, pc + 1)
    <3>1. CASE Call
      <4>1. /\ Instr.arg \in Funcs
            /\ GoesTo(func_chunk[Instr.arg], Instr.arg, pc + 1)
            /\ Records(func_chunk[Instr.arg], Instr.arg, pc + 1)
        BY <1>1, <2>2, <3>1, CallGoes DEF Linked
      <4>2. func_chunk[Instr.arg] \in Nat
        BY <1>1, <4>1 DEF TypeOK
      <4>3. QED
        BY <4>1, <4>2
    <3>2. CASE LoadModule
      <4>1. Len(chunks) + 1 \in Nat
        BY <1>1, RegsLengths DEF TypeOK, Regs
      <4>2. QED
        BY <1>1, <2>2, <3>2, <4>1, LoadGoes
    <3>3. QED
      BY <1>5, <3>1, <3>2
  <2>5. Balanced'
    BY <1>1, <2>1, <2>2, <2>4, BalancedEntering
  <2>6. QED
    BY <1>3, <2>1, <2>3, <2>5
<1>6. CASE Return \/ (running /\ ModuleEnds)
  <2>1. /\ status = "running" /\ running /\ status' = status /\ running' = running
        /\ runs' = runs
    BY <1>6 DEF Return, Fetch, ModuleEnds, LoopOver, flagVars, driverVars
  <2>2. Linked /\ Balanced
    BY <2>1 DEF RInv, AInv, InStep
  <2>3. PICK a : callers # <<>> /\ Resumes(a) /\ Restores(a)
    BY <1>1, <1>6, <2>1, <2>2, ReturnResumes, EndResumes DEF Return
  <2>4. Balanced'
    BY <1>1, <2>1, <2>2, <2>3, BalancedLeaving
  <2>5. QED
    BY <1>3, <2>1, <2>4
<1>7. CASE Stopping
  <2>1. /\ status = "running" /\ status' = "running" /\ ~running' /\ stopped_by' # "none"
        /\ runs' = runs
    BY <1>7 DEF Stopping, Raise, NativeFails, Exit, CallUndefined, vm_error, Fetch, driverVars
  <2>2. QED
    BY <1>1, <1>2, <2>1 DEF RInv, LeavesNothing
<1>8. CASE ModuleFails \/ (~running /\ ModuleEnds)
  <2>1. /\ status = "running" /\ status' = "running" /\ ~running /\ ~running'
        /\ stopped_by' = stopped_by /\ runs' = runs
    BY <1>1, <1>8, StoppedKeeps DEF ModuleFails, ModuleEnds, flagVars
  <2>2. QED
    BY <1>1, <1>2, <2>1 DEF RInv, LeavesNothing
<1>9. CASE Start
  <2>1. /\ runs = 0 /\ runs' = 1 /\ status' = "running" /\ Empty
        /\ UNCHANGED <<call_stack, sf_traceback, source_filename>>
    BY <1>1, <1>9 DEF Start, RInv, sourceVars
  <2>2. running' /\ callers' = <<>>
    BY <1>1, <1>9, StartKeeps
  <2>3. chunk_traceback' = <<>> /\ chunks'[chunk_id'].file = MainFile
    <3>1. PICK u \in Mains : Execute(Regs, u, source_filename)
      BY <1>9 DEF Start
    <3>2. /\ RegsOK(Regs) /\ Regs.chunks = chunks /\ Regs.id = 0 /\ Regs.tb = <<>>
          /\ Regs = [chunks |-> Regs.chunks, id |-> Regs.id, pc |-> Regs.pc, tb |-> Regs.tb]
      BY <1>1, <2>1 DEF TypeOK, Regs, Empty
    <3>3. KeepsAllBut(0, chunks, chunks) /\ Len(chunks) \in Nat
      BY <1>1, RegsLengths DEF TypeOK, Regs, KeepsAllBut
    <3>4. u \in Loaded /\ source_filename \in Files
      BY <1>1 DEF Loaded, IInv, SourceKnown
    <3> DEFINE r == Regs
    <3>5. /\ RegsOK(r) /\ Len(r.chunks) = Len(chunks) /\ KeepsAllBut(r.id, chunks, r.chunks)
          /\ r = [chunks |-> r.chunks, id |-> r.id, pc |-> r.pc, tb |-> r.tb]
          /\ Execute(r, u, source_filename) /\ r.id = 0 /\ r.tb = <<>>
      BY <3>1, <3>2, <3>3
    <3> HIDE DEF r
    <3>6. FuncsKnown
      BY <1>1 DEF AInv
    <3>7. QED
      BY <1>1, <2>1, <3>4, <3>5, <3>6, ExecuteGoes DEF Empty
  <2>4. Balanced'
    <3>1. Depth' = 1 /\ Chain'[1] = chunk_id'
      BY <2>2 DEF Depth, Chain
    <3>2. Count(Trail', 1, Funcs) = 0
      BY CountNone
    <3>3. QED
      BY <2>1, <2>2, <2>3, <3>1, <3>2 DEF Balanced, Empty
  <2>5. QED
    BY <1>1, <2>1, <2>2, <2>4 DEF RInv, LeavesNothing
<1>10. CASE End
  <2>1. /\ LoopOver /\ status = "running" /\ nest = 0 /\ status' = "idle"
        /\ UNCHANGED <<chunk_traceback, call_stack, sf_traceback, source_filename, nest,
                       stopped_by, runs>>
    BY <1>10 DEF End, LoopOver, chunkVars, sourceVars, flagVars
  <2>2. CASE ~running
    BY <1>1, <1>2, <2>1, <2>2 DEF RInv, LeavesNothing
  <2>3. CASE running
    <3>1. Linked /\ Balanced
      BY <2>1, <2>3 DEF RInv, AInv, InStep
    <3>2. callers = <<>>
      BY <1>1, <2>1, <2>3, <3>1, AtItsEnd, KindOfRun
    <3>3. /\ Depth = 1 /\ Chain[1] = chunk_id /\ Count(Trail, 1, Funcs) = 0
      BY <3>2, CountNone DEF Depth, Chain
    <3>4. /\ Len(chunk_traceback) = 0 /\ Len(call_stack) = 0
          /\ Len(sf_traceback) = 1 /\ sf_traceback[1] = NoFile
          /\ source_filename = MainFile
      BY <3>1, <3>2, <3>3 DEF Balanced, Linked, Sourced
    <3>5. chunk_traceback = <<>> /\ call_stack = <<>>
      <4> DEFINE S == 1 .. Len(chunks)
      <4>1. chunk_traceback \in Seq(S) /\ call_stack \in Seq(Nat)
        BY <1>1 DEF TypeOK, RegsOK, Regs
      <4> HIDE DEF S
      <4>2. QED
        BY <3>4, <4>1
    <3>6. sf_traceback = <<NoFile>>
      <4>1. sf_traceback \in Seq(Files \cup {NoFile})
        BY <1>1 DEF TypeOK
      <4>2. QED
        BY <3>4, <4>1
    <3>7. QED
      BY <1>1, <1>2, <2>1, <3>4, <3>5, <3>6 DEF RInv, LeavesNothing
  <2>4. QED
    BY <2>2, <2>3
<1>11. CASE UNCHANGED vars
  <2>1. Balanced => Balanced'
    <3>1. UNCHANGED <<chunks, chunk_id, chunk_traceback, callers, call_stack, sf_traceback>>
      BY <1>11 DEF vars, chunkVars, sourceVars
    <3>2. Depth' = Depth /\ Chain' = Chain
      BY <3>1 DEF Depth, Chain
    <3>3. Trail' = Trail
      BY <3>1, <3>2 DEF Trail
    <3>4. QED
      BY <3>1, <3>2, <3>3 DEF Balanced
  <2>2. QED
    BY <1>1, <1>11, <2>1 DEF RInv, LeavesNothing, Empty, vars, chunkVars, sourceVars, flagVars,
                             driverVars
<1>12. QED
  BY <1>1, <1>4, <1>5, <1>6, <1>7, <1>8, <1>9, <1>10, <1>11, NeverTaken DEF Next, Stopping

(* A file that runs to its end has undone all that it did: no frame, chunk *)
(* or source file stays behind on any of the three stacks.                 *)
THEOREM NothingIsLeft ==
  ASSUME Orderly(Programs), MaxRuns = 1
  PROVE  Spec => []LeavesNothing
<1>1. Init => RInv
  BY AInitially DEF Init, RInv, Empty, LeavesNothing
<1>2. RInv /\ [Next]_vars => RInv'
  BY RInductive
<1>3. RInv => LeavesNothing
  BY DEF RInv
<1>4. QED
  BY <1>1, <1>2, <1>3, PTL DEF Spec
=============================================================================
