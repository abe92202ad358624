--------------------------- MODULE KeyboardProofs ---------------------------
(***************************************************************************)
(* For every number of terminals, buffer size and set of keys: the         *)
(* modifiers agree with the keys that are down, Caps Lock changes once a   *)
(* press, and the buffers implement the abstract line editor.              *)
(***************************************************************************)
EXTENDS Keyboard, SequenceTheorems, TLAPS

-----------------------------------------------------------------------------
(* Modifiers                                                               *)

\* What the handler remembers of Caps Lock is whether its key is down.
MInv ==
  /\ CAPSLOCK_HOLDON \in BOOLEAN
  /\ CAPSLOCK_HOLDON <=> "CAPS" \in held
  /\ ModifiersMatchKeys

\* A step that is no make or break code and no switch of terminals leaves the
\* modifiers alone.
LEMMA ModifierSteps ==
  ASSUME [Next]_vars
  PROVE  \/ UNCHANGED mods
         \/ \E k \in ModKeys : Press(k) \/ Release(k)
         \/ \E t \in Terms : FunctionKey(t)
BY DEF Next, vars, mods, CharKey, ReadBegin, ReadEnd

\* Make and break codes keep Caps Lock and the keys in step.
LEMMA MInvNext == MInv /\ [Next]_vars => MInv'
<1> SUFFICES ASSUME MInv, [Next]_vars PROVE MInv'
  OBVIOUS
<1> USE DEF MInv, ModifiersMatchKeys
<1>1. CASE UNCHANGED mods
  BY <1>1 DEF mods
<1>2. ASSUME NEW k \in ModKeys, Press(k) PROVE MInv'
  <2>1. k \in Modifiers
    BY KeyboardAssumption
  <2>2. CASE k = "CAPS"
    <3>1. held' = held \cup {"CAPS"} /\ CapsPressed
      BY <1>2, <2>2 DEF Press
    <3>2. CAPSLOCK_HOLDON'
      BY <3>1 DEF CapsPressed
    <3>3. SCAC' \subseteq SCAC \cup {"CAPS"} /\ SCAC \ {"CAPS"} \subseteq SCAC'
      BY <3>1 DEF CapsPressed
    <3> QED BY <3>1, <3>2, <3>3
  <2>3. CASE k # "CAPS"
    <3>1. /\ held' = held \cup {k} /\ SCAC' = SCAC \cup {Bit(k)}
          /\ CAPSLOCK_HOLDON' = CAPSLOCK_HOLDON
      BY <1>2, <2>3 DEF Press
    <3> QED BY <2>1, <2>3, <3>1 DEF Bit, Modifiers
  <2> QED BY <2>2, <2>3
<1>3. ASSUME NEW k \in ModKeys, Release(k) PROVE MInv'
  <2>1. k \in Modifiers
    BY KeyboardAssumption
  <2>2. /\ held' = held \ {k}
        /\ SCAC' = IF k = "CAPS" THEN SCAC ELSE SCAC \ {Bit(k)}
        /\ CAPSLOCK_HOLDON' = (CAPSLOCK_HOLDON /\ k # "CAPS")
    BY <1>3 DEF Release
  <2>3. CAPSLOCK_HOLDON' \in BOOLEAN /\ (CAPSLOCK_HOLDON' <=> "CAPS" \in held')
    BY <2>2, Zenon
  <2> QED BY <2>1, <2>2, <2>3 DEF Bit, Modifiers
<1>4. ASSUME NEW t \in Terms, FunctionKey(t) PROVE MInv'
  <2>1. /\ held' = held /\ CAPSLOCK_HOLDON' = CAPSLOCK_HOLDON
        /\ SCAC' \subseteq SCAC \cup {"CAPS"} /\ SCAC \ {"CAPS"} \subseteq SCAC'
    BY <1>4 DEF FunctionKey, term_switch
  <2> QED BY <2>1
<1> QED BY <1>1, <1>2, <1>3, <1>4, ModifierSteps

LEMMA MInvInit == Init => MInv
BY DEF Init, MInv, ModifiersMatchKeys

\* A modifier counts as down only while one of its keys is down, across every
\* change of the visible terminal.
THEOREM ModifiersRight == Spec => []ModifiersMatchKeys
<1>1. MInv => ModifiersMatchKeys
  BY DEF MInv
<1> QED BY MInvInit, MInvNext, <1>1, PTL DEF Spec

\* Caps Lock changes when its key goes down, with Shift down only to clear, and
\* otherwise only at a switch of terminals.
THEOREM CapsRight == Spec => CapsTogglesOncePerPress
<1> DEFINE Good ==
      /\ CapsKeyDown => (CapsChanges <=> ("SHIFT" \in SCAC => "CAPS" \in SCAC))
      /\ CapsChanges /\ ~CapsKeyDown =>
           "ALT" \in held /\ held' = held /\ UNCHANGED <<CAPSLOCK_HOLDON, bufs>>
<1>1. ASSUME MInv, [Next]_vars PROVE [Good]_vars
  <2>1. CASE UNCHANGED mods
    <3>1. SCAC' = SCAC /\ held' = held
      BY <2>1 DEF mods
    <3> QED BY <3>1, Zenon DEF CapsKeyDown, CapsChanges
  <2>2. ASSUME NEW k \in ModKeys, Press(k), k = "CAPS" PROVE Good
    <3>1. held' = held \cup {"CAPS"} /\ CapsPressed
      BY <2>2 DEF Press
    <3>2. CASE CAPSLOCK_HOLDON
      <4>1. SCAC' = SCAC /\ "CAPS" \in held
        BY <3>1, <3>2, <1>1 DEF CapsPressed, MInv
      <4> QED BY <4>1 DEF CapsKeyDown, CapsChanges
    <3>3. CASE ~CAPSLOCK_HOLDON
      <4>1. /\ "CAPS" \notin held
            /\ SCAC' = IF SCAC \cap {"CAPS", "SHIFT"} # {}
                       THEN SCAC \ {"CAPS"} ELSE SCAC \cup {"CAPS"}
        BY <3>1, <3>3, <1>1 DEF CapsPressed, MInv
      <4> QED BY <3>1, <4>1 DEF CapsKeyDown, CapsChanges
    <3> QED BY <3>2, <3>3
  <2>3. ASSUME NEW k \in ModKeys, (k # "CAPS" /\ Press(k)) \/ Release(k) PROVE Good
    <3>1. Bit(k) # "CAPS" \/ k = "CAPS"
      BY DEF Bit
    <3>2. /\ ("CAPS" \in SCAC) <=> ("CAPS" \in SCAC')
          /\ ~("CAPS" \notin held /\ "CAPS" \in held')
      BY <2>3, <3>1 DEF Press, Release
    <3> QED BY <3>2 DEF CapsKeyDown, CapsChanges
  <2>4. ASSUME NEW t \in Terms, FunctionKey(t) PROVE Good
    <3>1. "ALT" \in held
      BY <1>1, <2>4 DEF FunctionKey, MInv, ModifiersMatchKeys
    <3>2. held' = held /\ UNCHANGED <<CAPSLOCK_HOLDON, bufs>>
      BY <2>4 DEF FunctionKey, bufs
    <3> QED BY <3>1, <3>2 DEF CapsKeyDown
  <2> QED BY <1>1, <2>1, <2>2, <2>3, <2>4, ModifierSteps
<1> HIDE DEF Good
<1>2. CapsTogglesOncePerPress <=> [][Good]_vars
  BY DEF CapsTogglesOncePerPress, Good
<1> QED BY <1>1, <1>2, MInvInit, MInvNext, PTL DEF Spec

-----------------------------------------------------------------------------
(* Buffers                                                                 *)

\* Newlines stand in entered lines only, and every line that is ready has one.
BInv ==
  /\ cur_vis_term \in Terms
  /\ key_buf \in [Terms -> [Index -> Chars \cup {Zero}]]
  /\ curr_idx \in [Terms -> Index]
  /\ line_buf \in [Terms -> [Index -> Chars \cup {Newline, Zero}]]
  /\ read_flag \in [Terms -> BOOLEAN]
  /\ terminal_enabled \in [Terms -> BOOLEAN]
  /\ LineEnds

\* No key types a newline, a backspace or the filler.
LEMMA NoSpecialChars ==
  Newline \notin Chars \cup {Zero} /\ Backspace \notin Chars /\ Newline # Backspace
BY KeyboardAssumption DEF Chars, Newline, Backspace, Zero

LEMMA BInvInit == Init => BInv
<1>1. 0 \in Terms /\ 0 \in Index
  BY KeyboardAssumption DEF Terms, Index
<1> QED BY <1>1 DEF Init, BInv, LineEnds

\* The three things a character does, with the buffers they leave.
LEMMA EnterLineKeeps ==
  ASSUME BInv, NEW t \in Terms, EnterLine(t),
         UNCHANGED <<cur_vis_term, terminal_enabled>>
  PROVE  BInv'
<1>1. curr_idx[t] \in Index /\ 0 \in Index
  BY KeyboardAssumption DEF BInv, Index
<1>2. line_buf' = [line_buf EXCEPT ![t] = [key_buf[t] EXCEPT ![curr_idx[t]] = Newline]]
  BY DEF EnterLine
<1>3. line_buf' \in [Terms -> [Index -> Chars \cup {Newline, Zero}]]
  BY <1>1, <1>2 DEF BInv
<1>4. line_buf'[t][curr_idx[t]] = Newline
  BY <1>1, <1>2 DEF BInv
<1>5. \A u \in Terms \ {t} : line_buf'[u] = line_buf[u] /\ read_flag'[u] = read_flag[u]
  BY DEF EnterLine, BInv
<1>6. LineEnds'
  BY <1>1, <1>4, <1>5 DEF LineEnds, BInv
<1>7. /\ key_buf' \in [Terms -> [Index -> Chars \cup {Zero}]]
      /\ curr_idx' \in [Terms -> Index]
      /\ read_flag' \in [Terms -> BOOLEAN]
  BY <1>1 DEF EnterLine, BInv
<1> QED BY <1>3, <1>6, <1>7 DEF BInv

LEMMA EraseLastKeeps ==
  ASSUME BInv, NEW t \in Terms, EraseLast(t),
         UNCHANGED <<cur_vis_term, terminal_enabled>>
  PROVE  BInv'
<1>1. curr_idx[t] \in Index /\ curr_idx[t] # 0
  BY DEF EraseLast, BInv
<1>2. curr_idx[t] - 1 \in Index
  BY <1>1, KeyboardAssumption DEF Index
<1> QED BY <1>2 DEF EraseLast, BInv, LineEnds

LEMMA StoreKeeps ==
  ASSUME BInv, NEW t \in Terms, NEW c \in Chars, Store(t, c),
         UNCHANGED <<cur_vis_term, terminal_enabled>>
  PROVE  BInv'
<1>1. curr_idx[t] \in Index /\ curr_idx[t] # BUF_SIZE - 1
  BY DEF Store, IsFull, BInv
<1>2. curr_idx[t] + 1 \in Index
  BY <1>1, KeyboardAssumption DEF Index
<1>3. key_buf' \in [Terms -> [Index -> Chars \cup {Zero}]]
  BY DEF Store, BInv
<1>4. curr_idx' \in [Terms -> Index]
  BY <1>2 DEF Store, BInv
<1> QED BY <1>3, <1>4 DEF Store, BInv, LineEnds

\* A key that stands for a character does one of the three.
LEMMA CharKeyCases ==
  ASSUME BInv, NEW k \in CharKeys, CharKey(k)
  PROVE  /\ UNCHANGED <<cur_vis_term, terminal_enabled>>
         /\ terminal_enabled[cur_vis_term]
         /\ \/ EnterLine(cur_vis_term)
            \/ EraseLast(cur_vis_term)
            \/ \E c \in Chars : Store(cur_vis_term, c)
BY DEF CharKey

LEMMA BInvNext == BInv /\ [Next]_vars => BInv'
<1> SUFFICES ASSUME BInv, [Next]_vars PROVE BInv'
  OBVIOUS
<1>1. ASSUME UNCHANGED bufs, UNCHANGED <<cur_vis_term, terminal_enabled>> PROVE BInv'
  BY <1>1 DEF bufs, BInv, LineEnds
<1>2. CASE UNCHANGED vars
  BY <1>1, <1>2 DEF vars, bufs
<1>3. ASSUME NEW k \in ModKeys, Press(k) \/ Release(k) PROVE BInv'
  BY <1>1, <1>3 DEF Press, Release
<1>4. ASSUME NEW k \in CharKeys, CharKey(k) PROVE BInv'
  <2>1. cur_vis_term \in Terms
    BY DEF BInv
  <2> QED BY <1>4, <2>1, CharKeyCases, EnterLineKeeps, EraseLastKeeps, StoreKeeps
<1>5. ASSUME NEW t \in Terms, FunctionKey(t) PROVE BInv'
  BY <1>5 DEF FunctionKey, term_switch, bufs, BInv, LineEnds
<1>6. ASSUME NEW t \in Terms, ReadBegin(t) PROVE BInv'
  BY <1>6 DEF ReadBegin, bufs, BInv, LineEnds
<1>7. ASSUME NEW t \in Terms, ReadEnd(t) PROVE BInv'
  BY <1>7 DEF ReadEnd, BInv, LineEnds
<1> QED BY <1>2, <1>3, <1>4, <1>5, <1>6, <1>7 DEF Next

\* Whatever is typed and erased, a line that is ready ends within its buffer.
THEOREM LinesEnd == Spec => []LineEnds
<1>1. BInv => LineEnds
  BY DEF BInv
<1> QED BY BInvInit, BInvNext, <1>1, PTL DEF Spec

\* The modifier bits and the keys that are down stay within theirs.
LEMMA KeysNext ==
  LET Keys == SCAC \subseteq {"SHIFT", "CAPS", "ALT", "CTRL"} /\ held \subseteq ModKeys
  IN  Keys /\ [Next]_vars => Keys'
<1> DEFINE Bits == {"SHIFT", "CAPS", "ALT", "CTRL"}
<1> SUFFICES ASSUME SCAC \subseteq Bits, held \subseteq ModKeys, [Next]_vars
             PROVE  SCAC' \subseteq Bits /\ held' \subseteq ModKeys
  OBVIOUS
<1>1. CASE UNCHANGED mods
  BY <1>1 DEF mods
<1>2. ASSUME NEW k \in ModKeys
      PROVE  Bit(k) \in Bits
  BY KeyboardAssumption DEF Bit, Modifiers
<1>3. ASSUME NEW k \in ModKeys, Press(k) PROVE SCAC' \subseteq Bits /\ held' \subseteq ModKeys
  <2>1. held' \subseteq ModKeys
    BY <1>3 DEF Press
  <2>2. CASE k = "CAPS"
    BY <1>3, <2>1, <2>2 DEF Press, CapsPressed
  <2>3. CASE k # "CAPS"
    BY <1>2, <1>3, <2>1, <2>3 DEF Press
  <2> QED BY <2>2, <2>3
<1>4. ASSUME NEW k \in ModKeys, Release(k)
      PROVE  SCAC' \subseteq Bits /\ held' \subseteq ModKeys
  BY <1>4 DEF Release
<1>5. ASSUME NEW t \in Terms, FunctionKey(t)
      PROVE  SCAC' \subseteq Bits /\ held' \subseteq ModKeys
  BY <1>5 DEF FunctionKey
<1> QED BY <1>1, <1>3, <1>4, <1>5, ModifierSteps

\* The index of a line always points into its buffer, whatever is typed and on
\* whatever terminal, so Enter writes its newline inside; every byte in the
\* buffers came from a table of characters.
THEOREM TypeCorrect == Spec => []TypeOK
<1> DEFINE Keys == SCAC \subseteq {"SHIFT", "CAPS", "ALT", "CTRL"} /\ held \subseteq ModKeys
<1>1. Init => Keys
  BY DEF Init
<1>2. Keys /\ [Next]_vars => Keys'
  BY KeysNext
<1>3. MInv /\ BInv /\ Keys => TypeOK
  BY DEF MInv, BInv, TypeOK
<1> QED BY <1>1, <1>2, <1>3, MInvInit, MInvNext, BInvInit, BInvNext, PTL DEF Spec

-----------------------------------------------------------------------------
(* Refinement                                                              *)

Text == Chars \cup {Zero}

\* The line being typed, as a sequence.
LEMMA TypedIsSeq ==
  ASSUME BInv, NEW t \in Terms
  PROVE  /\ Typed(t) \in Seq(Text)
         /\ Len(Typed(t)) = curr_idx[t]
         /\ \A i \in 1..curr_idx[t] : Typed(t)[i] = key_buf[t][i - 1]
<1>1. curr_idx[t] \in Nat /\ curr_idx[t] < BUF_SIZE
  BY KeyboardAssumption DEF BInv, Index
<1>2. \A i \in 1..curr_idx[t] : i - 1 \in Index
  BY <1>1, KeyboardAssumption DEF Index
<1>3. \A i \in 1..curr_idx[t] : key_buf[t][i - 1] \in Text
  BY <1>2 DEF BInv, Text
<1>4. Typed(t) \in [1..curr_idx[t] -> Text]
  BY <1>3 DEF Typed
<1>5. Typed(t) \in Seq(Text)
  BY <1>1, <1>4, SeqDef
<1>6. DOMAIN Typed(t) = 1..curr_idx[t]
  BY DEF Typed
<1>7. Len(Typed(t)) = curr_idx[t]
  BY <1>1, <1>5, <1>6, LenProperties
<1> QED BY <1>5, <1>7 DEF Typed

\* A stored character is appended to the line.
LEMMA StoreAppends ==
  ASSUME BInv, BInv', NEW t \in Terms, NEW c \in Chars, Store(t, c)
  PROVE  /\ Typed(t)' = Append(Typed(t), c)
         /\ Len(Typed(t)) < BUF_SIZE - 1
<1>1. /\ curr_idx[t] \in Nat /\ curr_idx[t] \in Index /\ curr_idx[t] < BUF_SIZE - 1
  BY KeyboardAssumption DEF BInv, Index, Store, IsFull
<1>2. /\ curr_idx'[t] = curr_idx[t] + 1
      /\ key_buf'[t] = [key_buf[t] EXCEPT ![curr_idx[t]] = c]
  BY DEF Store, BInv
<1>3. /\ Typed(t)' \in Seq(Text) /\ Len(Typed(t)') = curr_idx'[t]
      /\ \A i \in 1..curr_idx'[t] : Typed(t)'[i] = key_buf'[t][i - 1]
  <2>1. (Typed(t) \in Seq(Text) /\ Len(Typed(t)) = curr_idx[t]
         /\ \A i \in 1..curr_idx[t] : Typed(t)[i] = key_buf[t][i - 1])'
    BY TypedIsSeq, PTL
  <2> QED BY <2>1 DEF Text
<1>4. /\ Append(Typed(t), c) \in Seq(Text)
      /\ Len(Append(Typed(t), c)) = curr_idx[t] + 1
      /\ \A i \in 1..curr_idx[t] : Append(Typed(t), c)[i] = Typed(t)[i]
      /\ Append(Typed(t), c)[curr_idx[t] + 1] = c
  BY TypedIsSeq, AppendProperties DEF Text
<1>5. \A i \in 1..curr_idx[t] : key_buf'[t][i - 1] = key_buf[t][i - 1]
  <2>1. key_buf[t] \in [Index -> Chars \cup {Zero}]
    BY DEF BInv
  <2> SUFFICES ASSUME NEW i \in 1..curr_idx[t]
               PROVE  key_buf'[t][i - 1] = key_buf[t][i - 1]
    OBVIOUS
  <2>2. i - 1 \in Index /\ i - 1 # curr_idx[t]
    BY <1>1, KeyboardAssumption DEF Index
  <2> QED BY <1>2, <2>1, <2>2
<1>6. key_buf'[t][curr_idx[t]] = c
  BY <1>1, <1>2 DEF BInv
<1>7. \A i \in 1..(curr_idx[t] + 1) : Typed(t)'[i] = Append(Typed(t), c)[i]
  <2> SUFFICES ASSUME NEW i \in 1..(curr_idx[t] + 1)
               PROVE  Typed(t)'[i] = Append(Typed(t), c)[i]
    OBVIOUS
  <2>1. Typed(t)'[i] = key_buf'[t][i - 1]
    BY <1>2, <1>3
  <2>2. CASE i = curr_idx[t] + 1
    <3>1. i - 1 = curr_idx[t]
      BY <1>1, <2>2
    <3> QED BY <1>4, <1>6, <2>1, <2>2, <3>1
  <2>3. CASE i \in 1..curr_idx[t]
    BY <1>4, <1>5, <2>1, <2>3, TypedIsSeq
  <2>4. i = curr_idx[t] + 1 \/ i \in 1..curr_idx[t]
    BY <1>1
  <2> QED BY <2>2, <2>3, <2>4
<1>8. Typed(t)' = Append(Typed(t), c)
  BY <1>2, <1>3, <1>4, <1>7, SeqEqual
<1>9. Len(Typed(t)) < BUF_SIZE - 1
  BY <1>1, TypedIsSeq
<1> QED BY <1>8, <1>9

\* Backspace takes the last character off the line.
LEMMA EraseShortens ==
  ASSUME BInv, BInv', NEW t \in Terms, EraseLast(t)
  PROVE  /\ Typed(t) # <<>>
         /\ Typed(t)' = SubSeq(Typed(t), 1, Len(Typed(t)) - 1)
<1>1. curr_idx[t] \in Nat /\ curr_idx[t] # 0
  BY KeyboardAssumption DEF BInv, Index, EraseLast
<1>2. curr_idx'[t] = curr_idx[t] - 1 /\ key_buf'[t] = key_buf[t]
  BY DEF EraseLast, BInv
<1>3. /\ Typed(t)' \in Seq(Text) /\ Len(Typed(t)') = curr_idx'[t]
      /\ \A i \in 1..curr_idx'[t] : Typed(t)'[i] = key_buf'[t][i - 1]
  <2>1. (Typed(t) \in Seq(Text) /\ Len(Typed(t)) = curr_idx[t]
         /\ \A i \in 1..curr_idx[t] : Typed(t)[i] = key_buf[t][i - 1])'
    BY TypedIsSeq, PTL
  <2> QED BY <2>1 DEF Text
<1> DEFINE short == SubSeq(Typed(t), 1, Len(Typed(t)) - 1)
<1>4. Len(Typed(t)) = curr_idx[t] /\ \A i \in 1..curr_idx[t] : Typed(t)[i] \in Text
  BY TypedIsSeq, ElementOfSeq
<1>5. /\ short \in Seq(Text)
      /\ Len(short) = curr_idx[t] - 1
      /\ \A i \in 1..(curr_idx[t] - 1) : short[i] = Typed(t)[i]
  <2>1. \A i \in 1..(Len(Typed(t)) - 1) : Typed(t)[i] \in Text
    BY <1>1, <1>4
  <2>2. /\ SubSeq(Typed(t), 1, Len(Typed(t)) - 1) \in Seq(Text)
        /\ Len(SubSeq(Typed(t), 1, Len(Typed(t)) - 1))
             = IF 1 <= Len(Typed(t)) - 1 THEN Len(Typed(t)) - 1 - 1 + 1 ELSE 0
        /\ \A i \in 1..(Len(Typed(t)) - 1 - 1 + 1) :
             SubSeq(Typed(t), 1, Len(Typed(t)) - 1)[i] = Typed(t)[1 + i - 1]
    BY <1>1, <1>4, <2>1, SubSeqProperties
  <2> QED BY <1>1, <1>4, <2>2
<1>6. \A i \in 1..(curr_idx[t] - 1) : Typed(t)'[i] = short[i]
  BY <1>1, <1>2, <1>3, <1>5, TypedIsSeq
<1>7. Typed(t)' = short
  <2> HIDE DEF short
  <2> QED BY <1>2, <1>3, <1>5, <1>6, SeqEqual
<1>8. Typed(t) # <<>>
  BY <1>1, <1>4, EmptySeq
<1> QED BY <1>7, <1>8

\* Enter empties the line being typed and publishes it.
LEMMA EnterPublishes ==
  ASSUME BInv, BInv', NEW t \in Terms, EnterLine(t)
  PROVE  Typed(t)' = <<>> /\ Entered(t)' = Typed(t)
<1>1. curr_idx[t] \in Index /\ curr_idx[t] \in Nat
  BY KeyboardAssumption DEF BInv, Index
<1>2. /\ curr_idx'[t] = 0
      /\ line_buf'[t] = [key_buf[t] EXCEPT ![curr_idx[t]] = Newline]
  BY DEF EnterLine, BInv
<1>3. Typed(t)' = <<>>
  <2>1. (Typed(t) \in Seq(Text) /\ Len(Typed(t)) = curr_idx[t])'
    BY TypedIsSeq, PTL
  <2>2. Typed(t)' \in Seq(Text) /\ Len(Typed(t)') = 0
    BY <1>2, <2>1 DEF Text
  <2> QED BY <2>2, EmptySeq
<1>4. \A i \in Index : line_buf'[t][i] = Newline <=> i = curr_idx[t]
  <2>1. \A i \in Index : key_buf[t][i] # Newline
    BY NoSpecialChars DEF BInv
  <2> QED BY <1>1, <1>2, <2>1 DEF BInv
<1>5. Entered(t)' = [i \in 1..curr_idx[t] |-> line_buf'[t][i - 1]]
  <2> DEFINE ends == {i \in Index : line_buf'[t][i] = Newline}
             n == curr_idx[t]
  <2>1. ends = {n}
    BY <1>1, <1>4
  <2>2. n <= n /\ ends # {}
    BY <1>1, <2>1
  <2>3. (CHOOSE i \in ends : \A j \in ends : i <= j) = n
    <3> HIDE DEF ends, n
    <3> QED BY <2>1, <2>2
  <2> QED BY <2>2, <2>3 DEF Entered
<1>6. \A i \in 1..curr_idx[t] : line_buf'[t][i - 1] = key_buf[t][i - 1]
  <2> SUFFICES ASSUME NEW i \in 1..curr_idx[t]
               PROVE  line_buf'[t][i - 1] = key_buf[t][i - 1]
    OBVIOUS
  <2>1. i - 1 \in Index /\ i - 1 # curr_idx[t]
    BY <1>1, KeyboardAssumption DEF Index
  <2> QED BY <1>2, <2>1 DEF BInv
<1>7. Entered(t)' = Typed(t)
  BY <1>5, <1>6 DEF Typed
<1> QED BY <1>3, <1>7

\* The lines of all terminals, as the abstract editor sees them.
typingMap == [t \in Terms |-> Typed(t)]
lineMap == [t \in Terms |-> Entered(t)]

\* A terminal whose buffers stay keeps its lines.
LEMMA LinesStay ==
  ASSUME NEW t \in Terms
  PROVE  /\ key_buf'[t] = key_buf[t] /\ curr_idx'[t] = curr_idx[t] => Typed(t)' = Typed(t)
         /\ line_buf'[t] = line_buf[t] => Entered(t)' = Entered(t)
<1>1. ASSUME key_buf'[t] = key_buf[t], curr_idx'[t] = curr_idx[t]
      PROVE  Typed(t)' = Typed(t)
  BY <1>1 DEF Typed
<1>2. ASSUME line_buf'[t] = line_buf[t]
      PROVE  Entered(t)' = Entered(t)
  BY <1>2, Zenon DEF Entered
<1> QED BY <1>1, <1>2

\* A step that leaves the buffers alone leaves the lines alone.
LEMMA MapsStay ==
  ASSUME UNCHANGED <<key_buf, curr_idx, line_buf>>
  PROVE  typingMap' = typingMap /\ lineMap' = lineMap
<1>1. \A t \in Terms : Typed(t)' = Typed(t) /\ Entered(t)' = Entered(t)
  BY LinesStay
<1>2. typingMap' = [t \in Terms |-> Typed(t)'] /\ lineMap' = [t \in Terms |-> Entered(t)']
  BY DEF typingMap, lineMap
<1> QED BY <1>1, <1>2 DEF typingMap, lineMap

\* One terminal's lines change: the maps change there only.
LEMMA MapsChangeAt ==
  ASSUME NEW t \in Terms,
         \A u \in Terms \ {t} : /\ key_buf'[u] = key_buf[u]
                                 /\ curr_idx'[u] = curr_idx[u]
                                 /\ line_buf'[u] = line_buf[u]
  PROVE  /\ typingMap' = [typingMap EXCEPT ![t] = Typed(t)']
         /\ lineMap' = [lineMap EXCEPT ![t] = Entered(t)']
<1>1. \A u \in Terms \ {t} : Typed(u)' = Typed(u) /\ Entered(u)' = Entered(u)
  BY LinesStay
<1>2. typingMap' = [u \in Terms |-> Typed(u)'] /\ lineMap' = [u \in Terms |-> Entered(u)']
  BY DEF typingMap, lineMap
<1> QED BY <1>1, <1>2 DEF typingMap, lineMap

\* Nothing is typed and nothing was entered at the start.
LEMMA EditorInit == Init => Editor!Init
<1> SUFFICES ASSUME Init PROVE Editor!Init
  OBVIOUS
<1>1. cur_vis_term \in Terms /\ BInv
  BY BInvInit DEF BInv
<1>2. ASSUME NEW t \in Terms PROVE Typed(t) = <<>> /\ Entered(t) = <<>>
  <2>1. Typed(t) = <<>>
    <3>1. curr_idx[t] = 0
      BY DEF Init
    <3>2. Typed(t) \in Seq(Text) /\ Len(Typed(t)) = 0
      BY <1>1, <3>1, TypedIsSeq
    <3> QED BY <3>2, EmptySeq
  <2>2. \A i \in Index : line_buf[t][i] # Newline
    BY DEF Init, Zero, Newline
  <2>3. {i \in Index : line_buf[t][i] = Newline} = {}
    BY <2>2
  <2>4. Entered(t) = <<>>
    BY <2>3, Zenon DEF Entered
  <2> QED BY <2>1, <2>4
<1>3. /\ [t \in Terms |-> Typed(t)] = [t \in Terms |-> <<>>]
      /\ [t \in Terms |-> Entered(t)] = [t \in Terms |-> <<>>]
  BY <1>2, Zenon
<1> QED BY <1>1, <1>3 DEF Init, Editor!Init

\* Every step of the handler is a step of the editor or changes none of its lines.
LEMMA EditorNext == BInv /\ BInv' /\ [Next]_vars => [Editor!Next]_(Editor!vars)
<1> SUFFICES ASSUME BInv, BInv', [Next]_vars PROVE [Editor!Next]_(Editor!vars)
  OBVIOUS
<1>1. ASSUME UNCHANGED <<bufs, cur_vis_term, terminal_enabled>>
      PROVE  UNCHANGED Editor!vars
  BY <1>1, MapsStay DEF bufs, Editor!vars, typingMap, lineMap
<1>2. CASE UNCHANGED vars
  BY <1>1, <1>2 DEF vars, bufs
<1>3. ASSUME NEW k \in ModKeys, Press(k) \/ Release(k) PROVE UNCHANGED Editor!vars
  BY <1>1, <1>3 DEF Press, Release
<1>4. ASSUME NEW k \in CharKeys, CharKey(k) PROVE Editor!Next
  <2> DEFINE t == cur_vis_term
  <2>1. /\ t \in Terms /\ terminal_enabled[t]
        /\ UNCHANGED <<cur_vis_term, terminal_enabled>>
    BY <1>4, CharKeyCases DEF BInv
  <2>2. CASE EnterLine(t)
    <3>1. /\ typingMap' = [typingMap EXCEPT ![t] = <<>>]
          /\ lineMap' = [lineMap EXCEPT ![t] = Typed(t)]
      <4>1. \A u \in Terms \ {t} : /\ key_buf'[u] = key_buf[u]
                                    /\ curr_idx'[u] = curr_idx[u]
                                    /\ line_buf'[u] = line_buf[u]
        BY <2>1, <2>2 DEF EnterLine, BInv
      <4>2. Typed(t)' = <<>> /\ Entered(t)' = Typed(t)
        BY <2>1, <2>2, EnterPublishes
      <4> QED BY <2>1, <4>1, <4>2, MapsChangeAt
    <3>2. read_flag' = [read_flag EXCEPT ![t] = TRUE]
      BY <2>2 DEF EnterLine
    <3>3. Editor!Enter(t)
      BY <2>1, <3>1, <3>2 DEF Editor!Enter, typingMap, lineMap
    <3> QED BY <2>1, <3>3 DEF Editor!Next
  <2>3. CASE EraseLast(t)
    <3>1. /\ typingMap' = [typingMap EXCEPT ![t] = SubSeq(@, 1, Len(@) - 1)]
          /\ typingMap[t] # <<>>
      <4>1. /\ Typed(t) # <<>>
            /\ Typed(t)' = SubSeq(Typed(t), 1, Len(Typed(t)) - 1)
        BY <2>1, <2>3, EraseShortens
      <4>2. \A u \in Terms \ {t} : /\ key_buf'[u] = key_buf[u]
                                    /\ curr_idx'[u] = curr_idx[u]
                                    /\ line_buf'[u] = line_buf[u]
        BY <2>1, <2>3 DEF EraseLast, BInv
      <4>3. typingMap' = [typingMap EXCEPT ![t] = Typed(t)']
        BY <2>1, <4>2, MapsChangeAt
      <4>4. typingMap[t] = Typed(t)
        BY <2>1 DEF typingMap
      <4> QED BY <4>1, <4>3, <4>4
    <3>2. lineMap' = lineMap
      <4>1. \A u \in Terms : Entered(u)' = Entered(u)
        BY <2>3, LinesStay DEF EraseLast
      <4> QED BY <4>1 DEF lineMap
    <3>3. read_flag' = read_flag
      BY <2>3 DEF EraseLast
    <3>4. Editor!Erase(t)
      BY <2>1, <3>1, <3>2, <3>3 DEF Editor!Erase, typingMap, lineMap
    <3> QED BY <2>1, <3>4 DEF Editor!Next
  <2>4. ASSUME NEW c \in Chars, Store(t, c) PROVE Editor!Next
    <3>1. /\ typingMap' = [typingMap EXCEPT ![t] = Append(@, c)]
          /\ Len(typingMap[t]) < BUF_SIZE - 1
      <4>1. /\ Typed(t)' = Append(Typed(t), c)
            /\ Len(Typed(t)) < BUF_SIZE - 1
        BY <2>1, <2>4, StoreAppends
      <4>2. \A u \in Terms \ {t} : /\ key_buf'[u] = key_buf[u]
                                    /\ curr_idx'[u] = curr_idx[u]
                                    /\ line_buf'[u] = line_buf[u]
        BY <2>1, <2>4 DEF Store, BInv
      <4>3. typingMap' = [typingMap EXCEPT ![t] = Typed(t)']
        BY <2>1, <4>2, MapsChangeAt
      <4>4. typingMap[t] = Typed(t)
        BY <2>1 DEF typingMap
      <4> QED BY <4>1, <4>3, <4>4
    <3>2. lineMap' = lineMap
      <4>1. \A u \in Terms : Entered(u)' = Entered(u)
        BY <2>4, LinesStay DEF Store
      <4> QED BY <4>1 DEF lineMap
    <3>3. read_flag' = read_flag
      BY <2>4 DEF Store
    <3>4. Editor!Type(t, c)
      BY <2>1, <3>1, <3>2, <3>3 DEF Editor!Type, typingMap, lineMap
    <3> QED BY <2>1, <3>4 DEF Editor!Next
  <2> QED BY <1>4, <2>2, <2>3, <2>4, CharKeyCases
<1>5. ASSUME NEW t \in Terms, FunctionKey(t) PROVE Editor!Next
  <2>1. Editor!Show(t)
    BY <1>5, MapsStay DEF FunctionKey, term_switch, bufs, Editor!Show, typingMap, lineMap
  <2> QED BY <2>1 DEF Editor!Next
<1>6. ASSUME NEW t \in Terms, ReadBegin(t) PROVE Editor!Next
  <2>1. Editor!Ask(t)
    BY <1>6, MapsStay DEF ReadBegin, bufs, Editor!Ask, typingMap, lineMap
  <2> QED BY <2>1 DEF Editor!Next
<1>7. ASSUME NEW t \in Terms, ReadEnd(t) PROVE Editor!Next
  <2>1. Editor!Take(t)
    BY <1>7, MapsStay DEF ReadEnd, Editor!Take, typingMap, lineMap
  <2> QED BY <2>1 DEF Editor!Next
<1> QED BY <1>2, <1>1, <1>3, <1>4, <1>5, <1>6, <1>7 DEF Next

\* The handler, with its buffers of a fixed size in which erased characters
\* stay, implements the editing of a line per terminal.
THEOREM Refines == Spec => ImplementsLineEditor
<1>1. Init /\ [][Next]_vars => []BInv
  BY BInvInit, BInvNext, PTL
<1> QED BY <1>1, EditorInit, EditorNext, PTL DEF Spec, ImplementsLineEditor, Editor!Spec
=============================================================================
