---------------------------- MODULE KeypadProofs ----------------------------
(***************************************************************************)
(* Theorems about Keypad, for every length of the buffer, every factory    *)
(* passcode and all arguments of changePasscode.                           *)
(***************************************************************************)
EXTENDS Keypad, TLAPS

\* The buffer holds what was typed since the last verdict.
BufferHoldsEntry ==
    /\ Len(entry) = passwordCurrentLength
    /\ \A i \in 1 .. Len(entry) : passwordBuffer[i] = entry[i]

\* An entry has no zeros: the key 0 submits.
NoZeros == \A i \in DOMAIN entry : entry[i] # 0

\* What setPasscode has written so far is the new passcode (with
\* nothing left to write, all of it).
WrittenSoFar ==
    /\ 0 \notin todo => currentPasscodeLen = Len(passcode)
    /\ \A i \in DOMAIN passcode : i \notin todo => currentPasscode[i] = passcode[i]

\* Where the contents of currentPasscode and its length come from: passcodes
\* that were set, or the zeros of the start.
Origins ==
    /\ passcode \in codes
    /\ \E c \in codes : Len(c) = currentPasscodeLen
    /\ \A i \in 1 .. MaxLen :
          \/ currentPasscode[i] = 0
          \/ \E c \in codes : i \in DOMAIN c /\ c[i] = currentPasscode[i]

KeypadInv == BufferHoldsEntry /\ NoZeros /\ WrittenSoFar /\ Origins /\ OpensForPasscodes

Inv == TypeOK /\ KeypadInv

-----------------------------------------------------------------------------
\* The codes a key may have (the table of keypadInterruptHandler).
LEMMA KeyCodes ==
    ASSUME NEW r \in Rows, NEW c \in Columns, NEW read \in ScanResults(c)
    PROVE  KeyVal(r, read) \in 1 .. 11 \cup {20}
  BY RowsAssumption DEF KeyVal, ScanResults, Columns

\* Facts about the passcodes that can be set.
LEMMA CodeShape ==
    ASSUME NEW c \in Codes
    PROVE  /\ c \in Seq(Digits) /\ Len(c) \in 0 .. MaxLen
           /\ DOMAIN c = 1 .. Len(c)
           /\ \A i \in DOMAIN c : c[i] \in Digits
  BY MaxLenAssumption DEF Codes

\* Arguments that changePasscode accepts are passcodes.
LEMMA AcceptedCodes ==
    ASSUME NEW args \in Arguments, Accepted(args)
    PROVE  args \in Codes
<1>1. args \in Seq(Nat)
  BY ArgumentsAssumption
<1>2. \A i \in 1 .. Len(args) : args[i] \in Digits
  BY <1>1 DEF Accepted
<1>3. args \in Seq(Digits)
  BY <1>1, <1>2
<1> QED
  BY <1>3 DEF Accepted, Codes

\* What is left in the array when a passcode is written over it.
LEMMA OverType ==
    ASSUME NEW c \in Codes
    PROVE  Over(c, NoDigits) \in [1 .. MaxLen -> Digits]
  BY CodeShape DEF Over, NoDigits, Digits

\* After a boot the array begins with the factory passcode.
LEMMA FactoryWritten ==
    \A i \in DOMAIN Factory : Over(Factory, NoDigits)[i] = Factory[i]
<1> SUFFICES ASSUME NEW i \in DOMAIN Factory
             PROVE  Over(Factory, NoDigits)[i] = Factory[i]
  OBVIOUS
<1>1. Len(Factory) \in 0 .. MaxLen /\ i \in 1 .. Len(Factory)
  BY FactoryAssumption, CodeShape
<1>2. i \in 1 .. MaxLen /\ i <= Len(Factory)
  BY <1>1, MaxLenAssumption
<1> QED
  BY <1>2 DEF Over

-----------------------------------------------------------------------------
\* The state after initKeypad and loadInNodeSettings, with the variables primed
\* or not, satisfies the invariant.
LEMMA InitInv == Init => Inv
<1> SUFFICES ASSUME Init PROVE Inv
  OBVIOUS
<1> USE DEF Init
<1>1. Factory \in Codes /\ <<>> \in Codes
  BY FactoryAssumption, MaxLenAssumption DEF Codes
<1>2. Len(Factory) \in 0 .. MaxLen /\ DOMAIN Factory = 1 .. Len(Factory)
  BY <1>1, CodeShape
<1>3. TypeOK
  BY <1>1, <1>2, OverType, MaxLenAssumption
  DEF TypeOK, Digits, NoDigits, NoVerdict, Columns
<1>4. BufferHoldsEntry /\ NoZeros
  BY DEF BufferHoldsEntry, NoZeros
<1>5. WrittenSoFar
  BY FactoryWritten DEF WrittenSoFar
<1>6. Origins
  BY <1>2 DEF Origins, Over, NoDigits
<1>7. OpensForPasscodes
  BY DEF OpensForPasscodes, NoVerdict
<1> QED
  BY <1>3, <1>4, <1>5, <1>6, <1>7 DEF Inv, KeypadInv

\* A boot leads to the state of Init.
LEMMA PowerCycleInv == PowerCycle => Inv'
<1> SUFFICES ASSUME PowerCycle PROVE Inv'
  OBVIOUS
<1> USE DEF PowerCycle
<1>1. Factory \in Codes /\ <<>> \in Codes
  BY FactoryAssumption, MaxLenAssumption DEF Codes
<1>2. Len(Factory) \in 0 .. MaxLen /\ DOMAIN Factory = 1 .. Len(Factory)
  BY <1>1, CodeShape
<1>3. TypeOK'
  BY <1>1, <1>2, OverType, MaxLenAssumption
  DEF TypeOK, Digits, NoDigits, NoVerdict, Columns
<1>4. BufferHoldsEntry' /\ NoZeros'
  BY DEF BufferHoldsEntry, NoZeros
<1>5. WrittenSoFar'
  BY FactoryWritten DEF WrittenSoFar
<1>6. Origins'
  BY <1>2 DEF Origins, Over, NoDigits
<1>7. OpensForPasscodes'
  BY DEF OpensForPasscodes, NoVerdict
<1> QED
  BY <1>3, <1>4, <1>5, <1>6, <1>7 DEF Inv, KeypadInv

-----------------------------------------------------------------------------
\* The part of the state the keypad's interrupt leaves alone keeps its invariant.
LEMMA CodeVarsKept ==
    ASSUME Inv, UNCHANGED codeVars
    PROVE  WrittenSoFar' /\ Origins'
  BY DEF Inv, KeypadInv, WrittenSoFar, Origins, codeVars

\* The verdict of passcodeEntered, for the entry in the buffer.
LEMMA VerdictOpens ==
    ASSUME Inv, Right
    PROVE  /\ \E c \in codes : Len(c) = Len(entry)
           /\ \A i \in DOMAIN entry : \E c \in codes : i \in DOMAIN c /\ c[i] = entry[i]
           /\ todo = {} => entry = passcode
<1> USE DEF Inv, KeypadInv
<1>1. /\ entry \in Codes /\ passcode \in Codes
      /\ Len(entry) = currentPasscodeLen
      /\ \A i \in 1 .. Len(entry) : currentPasscode[i] = entry[i]
  <2>1. entry \in Codes /\ passcode \in Codes
    BY DEF TypeOK
  <2>2. Len(entry) = passwordCurrentLength
    BY DEF BufferHoldsEntry
  <2>3. Len(entry) = currentPasscodeLen
    BY <2>2 DEF Right
  <2>4. \A i \in 1 .. Len(entry) : currentPasscode[i] = entry[i]
    BY <2>2 DEF Right, BufferHoldsEntry
  <2> QED
    BY <2>1, <2>3, <2>4
<1>2. \E c \in codes : Len(c) = Len(entry)
  BY <1>1 DEF Origins
<1>3. ASSUME NEW i \in DOMAIN entry
      PROVE  \E c \in codes : i \in DOMAIN c /\ c[i] = entry[i]
  <2>1. i \in 1 .. Len(entry) /\ i \in 1 .. MaxLen
    BY <1>1, CodeShape, MaxLenAssumption
  <2>2. currentPasscode[i] = entry[i] /\ entry[i] # 0
    BY <1>1, <2>1 DEF NoZeros
  <2> QED
    BY <2>1, <2>2 DEF Origins
<1>4. ASSUME todo = {}
      PROVE  entry = passcode
  <2>1. Len(entry) = Len(passcode)
    BY <1>1, <1>4 DEF WrittenSoFar
  <2>2. \A i \in 1 .. Len(entry) : entry[i] = passcode[i]
    BY <1>1, <1>4, <2>1, CodeShape DEF WrittenSoFar
  <2> QED
    BY <1>1, <2>1, <2>2 DEF Codes
<1> QED
  BY <1>2, <1>3, <1>4

\* Submit: the verdict is given and the buffer emptied.
LEMMA SubmitInv ==
    ASSUME Inv, Submit, UNCHANGED codeVars, column' \in [Columns -> {0, 1}]
    PROVE  Inv'
<1> USE DEF Submit, codeVars
<1>1. TypeOK'
  BY MaxLenAssumption DEF Inv, TypeOK, Codes, Right
<1>2. BufferHoldsEntry' /\ NoZeros'
  BY DEF BufferHoldsEntry, NoZeros
<1>3. OpensForPasscodes'
  <2>1. CASE Right
    BY <2>1, VerdictOpens DEF OpensForPasscodes, Inv, KeypadInv, Origins
  <2>2. CASE ~Right
    BY <2>2 DEF OpensForPasscodes
  <2> QED
    BY <2>1, <2>2
<1> QED
  BY <1>1, <1>2, <1>3, CodeVarsKept DEF Inv, KeypadInv

\* Delete: the last digit goes, if there is one.
LEMMA DeleteInv ==
    ASSUME Inv, Delete, UNCHANGED codeVars, column' \in [Columns -> {0, 1}]
    PROVE  Inv'
<1> USE DEF codeVars
<1>1. entry \in Seq(Digits) /\ Len(entry) = passwordCurrentLength
      /\ passwordCurrentLength \in 0 .. MaxLen /\ Len(entry) \in Nat
  BY DEF Inv, KeypadInv, TypeOK, BufferHoldsEntry, Codes
<1>2. \/ /\ passwordCurrentLength > 0
         /\ entry' \in Seq(Digits) /\ Len(entry') = Len(entry) - 1
         /\ \A i \in 1 .. Len(entry') : entry'[i] = entry[i]
         /\ passwordCurrentLength' = passwordCurrentLength - 1
      \/ UNCHANGED <<entry, passwordCurrentLength>>
  BY <1>1, MaxLenAssumption DEF Delete
<1>3. entry' \in Codes /\ passwordCurrentLength' \in 0 .. MaxLen
  BY <1>1, <1>2, MaxLenAssumption DEF Codes
<1>4. TypeOK'
  BY <1>3 DEF Inv, TypeOK, Delete
<1>5. BufferHoldsEntry' /\ NoZeros'
  <2>1. passwordBuffer' = passwordBuffer
    BY DEF Delete
  <2>2. DOMAIN entry = 1 .. Len(entry) /\ DOMAIN entry' = 1 .. Len(entry')
    BY <1>1, <1>3, CodeShape
  <2>3. Len(entry') = passwordCurrentLength'
    BY <1>1, <1>2
  <2>4. \A i \in 1 .. Len(entry') : i \in 1 .. Len(entry) /\ entry'[i] = entry[i]
    BY <1>1, <1>2, MaxLenAssumption
  <2> QED
    BY <2>1, <2>2, <2>3, <2>4 DEF Inv, KeypadInv, BufferHoldsEntry, NoZeros
<1>6. OpensForPasscodes'
  BY DEF Inv, KeypadInv, OpensForPasscodes, Delete
<1> QED
  BY <1>4, <1>5, <1>6, CodeVarsKept DEF Inv, KeypadInv

\* Type: a digit that fits is added, another one submits.
LEMMA TypeInv ==
    ASSUME NEW d \in 1 .. 9, Inv, Type(d), UNCHANGED codeVars,
           column' \in [Columns -> {0, 1}]
    PROVE  Inv'
<1>1. CASE ~(passwordCurrentLength < MaxLen)
  BY <1>1, SubmitInv DEF Type
<1>2. CASE passwordCurrentLength < MaxLen
  <2> USE <1>2 DEF Type, codeVars
  <2>1. entry \in Seq(Digits) /\ Len(entry) = passwordCurrentLength
        /\ passwordCurrentLength \in 0 .. MaxLen /\ d \in Digits
    BY DEF Inv, KeypadInv, TypeOK, BufferHoldsEntry, Codes, Digits
  <2>2. /\ entry' \in Seq(Digits) /\ Len(entry') = Len(entry) + 1
        /\ \A i \in 1 .. Len(entry) : entry'[i] = entry[i]
        /\ entry'[Len(entry) + 1] = d
    <3>1. entry' = Append(entry, d)
      OBVIOUS
    <3> QED
      BY <2>1, <3>1
  <2>3. passwordCurrentLength' = passwordCurrentLength + 1
        /\ passwordCurrentLength + 1 \in 1 .. MaxLen
    BY <2>1, MaxLenAssumption
  <2>4. passwordBuffer' \in [1 .. MaxLen -> Digits]
        /\ passwordBuffer' = [passwordBuffer EXCEPT ![passwordCurrentLength + 1] = d]
    BY <2>1, <2>3 DEF Inv, TypeOK
  <2>5. entry' \in Codes
    BY <2>1, <2>2, <2>3, MaxLenAssumption DEF Codes
  <2>6. TypeOK'
    BY <2>3, <2>4, <2>5, MaxLenAssumption DEF Inv, TypeOK
  <2>7. BufferHoldsEntry'
    <3>1. Len(entry') = passwordCurrentLength'
      BY <2>1, <2>2, <2>3
    <3>2. ASSUME NEW i \in 1 .. Len(entry')
          PROVE  passwordBuffer'[i] = entry'[i]
      <4>0. i \in 1 .. MaxLen /\ passwordBuffer \in [1 .. MaxLen -> Digits]
        BY <2>1, <2>2, <2>3, MaxLenAssumption DEF Inv, TypeOK
      <4>1. CASE i = Len(entry) + 1
        BY <2>1, <2>2, <2>4, <4>0, <4>1
      <4>2. CASE i # Len(entry) + 1
        <5>1. i \in 1 .. Len(entry)
          BY <2>1, <2>2, <4>2
        <5> QED
          BY <2>1, <2>2, <2>4, <4>0, <4>2, <5>1 DEF Inv, KeypadInv, BufferHoldsEntry
      <4> QED
        BY <4>1, <4>2
    <3> QED
      BY <3>1, <3>2 DEF BufferHoldsEntry
  <2>8. NoZeros'
    <3>1. DOMAIN entry = 1 .. Len(entry) /\ DOMAIN entry' = 1 .. Len(entry')
      BY <2>1, <2>5, CodeShape
    <3>2. ASSUME NEW i \in 1 .. Len(entry')
          PROVE  entry'[i] # 0
      <4>1. i \in 1 .. Len(entry) \/ i = Len(entry) + 1
        BY <2>1, <2>2
      <4> QED
        BY <2>2, <3>1, <4>1 DEF Inv, KeypadInv, NoZeros
    <3> QED
      BY <3>1, <3>2 DEF NoZeros
  <2>9. OpensForPasscodes'
    BY DEF Inv, KeypadInv, OpensForPasscodes
  <2> QED
    BY <2>6, <2>7, <2>8, <2>9, CodeVarsKept DEF Inv, KeypadInv
<1> QED
  BY <1>1, <1>2

\* Every key the scan may find, or none, keeps the invariant.
LEMMA KeypadInterruptInv ==
    ASSUME Inv, NEW r \in Rows, NEW c \in Columns, KeypadInterrupt(r, c)
    PROVE  Inv'
<1>1. UNCHANGED codeVars /\ column' \in [Columns -> {0, 1}]
  BY DEF KeypadInterrupt, Inv, TypeOK, Columns
<1>2. PICK read \in ScanResults(c) :
         LET keyVal == KeyVal(r, read)
         IN  CASE keyVal = 20 -> UNCHANGED <<passwordBuffer, passwordCurrentLength,
                                             entry, verdict>>
               [] keyVal = 10 -> Delete
               [] keyVal = 11 -> Submit
               [] OTHER       -> Type(keyVal)
  BY DEF KeypadInterrupt
<1>3. KeyVal(r, read) \in 1 .. 11 \cup {20}
  BY KeyCodes
<1>4. CASE KeyVal(r, read) = 20
  <2>1. UNCHANGED <<passwordBuffer, passwordCurrentLength, entry, verdict>>
    BY <1>2, <1>4
  <2> QED
    BY <1>1, <2>1, CodeVarsKept
    DEF Inv, KeypadInv, TypeOK, BufferHoldsEntry, NoZeros, OpensForPasscodes, codeVars
<1>5. CASE KeyVal(r, read) = 10
  BY <1>1, <1>2, <1>5, DeleteInv
<1>6. CASE KeyVal(r, read) = 11
  BY <1>1, <1>2, <1>6, SubmitInv
<1>7. CASE KeyVal(r, read) \in 1 .. 9
  <2>1. Type(KeyVal(r, read))
    BY <1>2, <1>7
  <2> QED
    BY <1>1, <1>7, <2>1, TypeInv
<1> QED
  BY <1>3, <1>4, <1>5, <1>6, <1>7

-----------------------------------------------------------------------------
\* changePasscode begins: nothing has been written yet.
LEMMA ChangePasscodeInv ==
    ASSUME Inv, NEW args \in Arguments, ChangePasscode(args)
    PROVE  Inv'
<1> USE DEF ChangePasscode, entryVars
<1>1. args \in Codes
  BY AcceptedCodes
<1>2. Len(args) \in 0 .. MaxLen /\ DOMAIN args = 1 .. Len(args)
  BY <1>1, CodeShape
<1>3. TypeOK'
  BY <1>1, <1>2 DEF Inv, TypeOK
<1>4. BufferHoldsEntry' /\ NoZeros'
  BY DEF Inv, KeypadInv, BufferHoldsEntry, NoZeros
<1>5. WrittenSoFar'
  BY <1>2, MaxLenAssumption DEF WrittenSoFar
<1>6. Origins'
  BY DEF Inv, KeypadInv, Origins
<1>7. OpensForPasscodes'
  BY DEF Inv, KeypadInv, OpensForPasscodes
<1> QED
  BY <1>3, <1>4, <1>5, <1>6, <1>7 DEF Inv, KeypadInv

\* setPasscode writes one element, or the length.
LEMMA SetPasscodeInv ==
    ASSUME Inv, NEW i \in 0 .. MaxLen, SetPasscode(i)
    PROVE  Inv'
<1> USE DEF SetPasscode, entryVars
<1>1. passcode \in Codes /\ todo \subseteq 0 .. Len(passcode) /\ i \in todo
      /\ currentPasscode \in [1 .. MaxLen -> Digits]
  BY DEF Inv, TypeOK
<1>2. Len(passcode) \in 0 .. MaxLen /\ DOMAIN passcode = 1 .. Len(passcode)
      /\ \A k \in DOMAIN passcode : passcode[k] \in Digits
  BY <1>1, CodeShape
<1>3. TypeOK'
  <2>1. currentPasscode' \in [1 .. MaxLen -> Digits] /\ currentPasscodeLen' \in 0 .. MaxLen
    <3>1. CASE i = 0
      BY <1>1, <1>2, <3>1 DEF Inv, TypeOK
    <3>2. CASE i # 0
      <4>1. passcode[i] \in Digits
        BY <1>1, <1>2, <3>2, MaxLenAssumption
      <4>2. currentPasscode' = [currentPasscode EXCEPT ![i] = passcode[i]]
            /\ currentPasscodeLen' = currentPasscodeLen
        BY <3>2
      <4> QED
        BY <1>1, <4>1, <4>2 DEF Inv, TypeOK
    <3> QED
      BY <3>1, <3>2
  <2> QED
    BY <1>1, <2>1 DEF Inv, TypeOK
<1>4. BufferHoldsEntry' /\ NoZeros'
  BY DEF Inv, KeypadInv, BufferHoldsEntry, NoZeros
<1>5. WrittenSoFar'
  BY <1>1, <1>2, MaxLenAssumption DEF Inv, KeypadInv, WrittenSoFar
<1>6. Origins'
  <2>1. CASE i = 0
    BY <2>1 DEF Inv, KeypadInv, Origins
  <2>2. CASE i # 0
    <3>1. i \in DOMAIN passcode /\ passcode \in codes
      BY <1>1, <1>2, <2>2, MaxLenAssumption DEF Inv, KeypadInv, Origins
    <3> QED
      BY <1>1, <1>2, <2>2, <3>1 DEF Inv, KeypadInv, Origins
  <2> QED
    BY <2>1, <2>2
<1>7. OpensForPasscodes'
  BY DEF Inv, KeypadInv, OpensForPasscodes
<1> QED
  BY <1>3, <1>4, <1>5, <1>6, <1>7 DEF Inv, KeypadInv

-----------------------------------------------------------------------------
\* The invariant is inductive.
LEMMA NextInv == Inv /\ [Next]_vars => Inv'
<1> SUFFICES ASSUME Inv, [Next]_vars PROVE Inv'
  OBVIOUS
<1>1. ASSUME NEW r \in Rows, NEW c \in Columns, KeypadInterrupt(r, c) PROVE Inv'
  BY <1>1, KeypadInterruptInv
<1>2. ASSUME NEW args \in Arguments, ChangePasscode(args) PROVE Inv'
  BY <1>2, ChangePasscodeInv
<1>3. ASSUME NEW i \in 0 .. MaxLen, SetPasscode(i) PROVE Inv'
  BY <1>3, SetPasscodeInv
<1>4. CASE PowerCycle
  BY <1>4, PowerCycleInv
<1>5. CASE UNCHANGED vars
  BY <1>5 DEF vars, entryVars, codeVars, Inv, KeypadInv, TypeOK, BufferHoldsEntry, NoZeros,
     WrittenSoFar, Origins, OpensForPasscodes
<1> QED
  BY <1>1, <1>2, <1>3, <1>4, <1>5 DEF Next

\* The inductive invariant: the buffer holds what was typed, what setPasscode has
\* written so far is the new passcode, and each digit of the array comes from a
\* passcode that was set (keypadInterruptHandler, setPasscode).
THEOREM KeypadInvHolds == Spec => []Inv
  BY InitInv, NextInv, PTL DEF Spec

\* Type correctness; no length leaves its array (keypadInterruptHandler,
\* setPasscode).
THEOREM KeypadTypes == Spec => []TypeOK
<1>1. Inv => TypeOK
  BY DEF Inv
<1> QED
  BY <1>1, KeypadInvHolds, PTL

\* The lock opens only for passcodes that were set, or, while one is being
\* changed, for mixtures of them (passcodeEntered against setPasscode).
THEOREM OpensOnly == Spec => []OpensForPasscodes
<1>1. Inv => OpensForPasscodes
  BY DEF Inv, KeypadInv
<1> QED
  BY <1>1, KeypadInvHolds, PTL

-----------------------------------------------------------------------------
\* With no change under way passcodeEntered accepts the passcode set last.
LEMMA AcceptsPasscode ==
    ASSUME Inv, todo = {}, entry = passcode
    PROVE  Right
<1>1. /\ entry \in Codes /\ passcode = entry /\ todo = {}
      /\ BufferHoldsEntry /\ WrittenSoFar
  BY DEF Inv, KeypadInv, TypeOK
<1>2. Len(entry) \in Nat /\ DOMAIN entry = 1 .. Len(entry)
  BY <1>1 DEF Codes
<1>3. passwordCurrentLength = Len(entry) /\ currentPasscodeLen = Len(entry)
  BY <1>1 DEF BufferHoldsEntry, WrittenSoFar
<1>4. \A i \in 1 .. Len(entry) : currentPasscode[i] = entry[i] /\ passwordBuffer[i] = entry[i]
  BY <1>1, <1>2 DEF BufferHoldsEntry, WrittenSoFar
<1> QED
  BY <1>3, <1>4 DEF Right

\* Only Submit gives a verdict, so one with no change under way is right exactly
\* for the passcode.
LEMMA VerdictStep ==
    ASSUME Inv, Next, verdict' # verdict, verdict'.settled
    PROVE  verdict'.right <=> verdict'.entry = passcode
<1>1. verdict' = [entry |-> entry, right |-> Right, settled |-> (todo = {})]
  <2>1. ASSUME NEW r \in Rows, NEW c \in Columns, KeypadInterrupt(r, c)
        PROVE  Submit
    BY <2>1 DEF KeypadInterrupt, Delete, Type
  <2>2. ~(\E args \in Arguments : ChangePasscode(args))
    BY DEF ChangePasscode, entryVars
  <2>3. ~(\E i \in 0 .. MaxLen : SetPasscode(i))
    BY DEF SetPasscode, entryVars
  <2>4. ~PowerCycle
    BY DEF PowerCycle, NoVerdict
  <2>5. Submit
    BY <2>1, <2>2, <2>3, <2>4 DEF Next
  <2> QED
    BY <2>5 DEF Submit
<1>2. todo = {}
  BY <1>1
<1>3. Right <=> entry = passcode
  BY <1>2, VerdictOpens, AcceptsPasscode
<1> QED
  BY <1>1, <1>3 DEF Right

\* A verdict with no change under way is right exactly for the passcode set
\* last (passcodeEntered).
THEOREM VerdictsCorrect == Spec => VerdictsRight
<1>1. Inv /\ [Next]_vars => [verdict' # verdict /\ verdict'.settled =>
          (verdict'.right <=> verdict'.entry = passcode)]_vars
  BY VerdictStep
<1> QED
  BY <1>1, KeypadInvHolds, PTL DEF Spec, VerdictsRight
=============================================================================
