------------------------------- MODULE Keypad -------------------------------
(***************************************************************************)
(* The keypad and the passcode of the smart lock: matrixKeyboard.c,        *)
(* passcodeEntered and setPasscode of smartLockCore.c, and the command     *)
(* changePasscode (commands/smartLock/commands.c).                         *)
(*                                                                         *)
(* The interrupt handler of the keypad collects digits and compares them   *)
(* with the passcode; the socket thread, on either core, overwrites the    *)
(* passcode when the server asks for it, with neither a lock nor a memory  *)
(* barrier.  Each array element and the length of the passcode is          *)
(* therefore written in a step of its own, in any order.                   *)
(*                                                                         *)
(* Abstractions.  Only edges that reach the handler's scan are steps: one  *)
(* during a debounce returns at once (see SmartLock), as do the edges the  *)
(* scan itself causes.  What the verdict does to lights and motor is in    *)
(* SmartLock.  The copy of the passcode in flash is left out: every boot   *)
(* erases it before it is read.                                            *)
(***************************************************************************)
EXTENDS Naturals, Sequences

CONSTANTS
    Rows,       \* rows of keys that are used, of 1 .. 4
    MaxLen,     \* MAX_PASSWORD_LEN
    Factory,    \* factoryPasscode
    Arguments   \* arguments of changePasscode: sequences of characters, of which
                \* 0 .. 9 stand for the digits and greater numbers for others

Columns == 1 .. 3
Digits  == 0 .. 9
Codes   == {c \in Seq(Digits) : Len(c) <= MaxLen}

ASSUME RowsAssumption == Rows \subseteq 1 .. 4
ASSUME MaxLenAssumption == MaxLen \in Nat \ {0}
ASSUME FactoryAssumption == Factory \in Codes
ASSUME ArgumentsAssumption == Arguments \subseteq Seq(Nat)

VARIABLES
    column,                \* level of the column pins
    passwordBuffer, passwordCurrentLength,
    currentPasscode, currentPasscodeLen,
    passcode,              \* argument of setPasscode
    todo,                  \* what setPasscode has still to write: indices of
                           \* currentPasscode, and 0 for currentPasscodeLen
    \* History, read by no action.
    entry,                 \* the digits typed since the last verdict
    codes,                 \* passcodes set since the lock was switched on
    verdict                \* the last call of passcodeEntered: what had been
                           \* typed, whether it was right and whether no
                           \* change of the passcode was under way

entryVars == <<column, passwordBuffer, passwordCurrentLength, entry, verdict>>
codeVars  == <<currentPasscode, currentPasscodeLen, passcode, todo, codes>>
vars == <<entryVars, codeVars>>

\* The array a passcode leaves behind when it is written over array a.
Over(c, a) == [i \in 1 .. MaxLen |-> IF i <= Len(c) THEN c[i] ELSE a[i]]
NoDigits  == [i \in 1 .. MaxLen |-> 0]
NoVerdict == [entry |-> <<>>, right |-> FALSE, settled |-> FALSE]

\* initKeypad, and loadInNodeSettings, which ends in setting the factory
\* passcode since the flash has been erased.
Init ==
    /\ column = [c \in Columns |-> 0]
    /\ passwordBuffer = NoDigits
    /\ passwordCurrentLength = 0
    /\ currentPasscode = Over(Factory, NoDigits)
    /\ currentPasscodeLen = Len(Factory)
    /\ passcode = Factory
    /\ todo = {}
    /\ entry = <<>>
    /\ codes = {Factory}
    /\ verdict = NoVerdict

-----------------------------------------------------------------------------
(***************************************************************************)
(* keypadInterruptHandler.                                                 *)
(***************************************************************************)

\* The code of the key in row r and column c: digits, 10 to delete and 11 to
\* submit; 20 if the scan found no column.
KeyVal(r, c) == IF c = 0 THEN 20
                ELSE IF r < 4 THEN 3 * (r - 1) + c
                ELSE IF c = 1 THEN 10 ELSE 11

\* The columns the scan may find for a key in column c: the rows are pulled up,
\* so a contact that is open for a moment reads like column 1 (or like 2, if
\* open later), and with two keys of the row held down no column may read high.
ScanResults(c) == 0 .. c

\* passcodeEntered.  (The wrong version compares only what was typed.)
RightIgnoresLength ==
    \A i \in 1 .. passwordCurrentLength : currentPasscode[i] = passwordBuffer[i]
Right ==
    /\ passwordCurrentLength = currentPasscodeLen
    /\ \A i \in 1 .. passwordCurrentLength : currentPasscode[i] = passwordBuffer[i]

\* (The wrong version does not empty the buffer.)
SubmitKeepsBuffer ==
    /\ verdict' = [entry |-> entry, right |-> Right, settled |-> (todo = {})]
    /\ entry' = <<>>
    /\ UNCHANGED <<passwordBuffer, passwordCurrentLength>>
Submit ==
    /\ verdict' = [entry |-> entry, right |-> Right, settled |-> (todo = {})]
    /\ passwordCurrentLength' = 0
    /\ entry' = <<>>
    /\ UNCHANGED passwordBuffer

\* The wrong version of Delete can go below zero, as a subtraction of unsigned
\* numbers does.
DeleteAlways ==
    /\ passwordCurrentLength' = (passwordCurrentLength + 255) % 256
    /\ entry' = IF entry = <<>> THEN <<>> ELSE SubSeq(entry, 1, Len(entry) - 1)
    /\ UNCHANGED <<passwordBuffer, verdict>>
Delete ==
    /\ IF passwordCurrentLength > 0
       THEN /\ passwordCurrentLength' = passwordCurrentLength - 1
            /\ entry' = SubSeq(entry, 1, Len(entry) - 1)
       ELSE UNCHANGED <<passwordCurrentLength, entry>>
    /\ UNCHANGED <<passwordBuffer, verdict>>

\* A digit that does not fit any more submits the others and is dropped.
Type(d) ==
    IF passwordCurrentLength < MaxLen
    THEN /\ passwordBuffer' = [passwordBuffer EXCEPT ![passwordCurrentLength + 1] = d]
         /\ passwordCurrentLength' = passwordCurrentLength + 1
         /\ entry' = Append(entry, d)
         /\ UNCHANGED verdict
    ELSE Submit

\* A falling edge in row r from the contact of column c, whose pin must be low:
\* a key is pressed, or bounces when it is released.  The scan leaves the pin
\* of the last column high.
KeypadInterrupt(r, c) ==
    /\ column[c] = 0
    /\ column' = [column EXCEPT ![1] = 0, ![2] = 0, ![3] = 1]
    /\ \E read \in ScanResults(c) :
         LET keyVal == KeyVal(r, read)
         IN  CASE keyVal = 20 -> UNCHANGED <<passwordBuffer, passwordCurrentLength,
                                             entry, verdict>>
               [] keyVal = 10 -> Delete
               [] keyVal = 11 -> Submit
               [] OTHER       -> Type(keyVal)
    /\ UNCHANGED codeVars

-----------------------------------------------------------------------------
(***************************************************************************)
(* changePasscode and setPasscode in the socket thread; commands are       *)
(* executed one after the other.                                           *)
(***************************************************************************)

\* The arguments are accepted if they are digits and not too many.
Accepted(args) ==
    /\ Len(args) <= MaxLen
    /\ \A i \in DOMAIN args : args[i] \in Digits

ChangePasscode(args) ==
    /\ todo = {}
    /\ Accepted(args)
    /\ passcode' = args
    /\ todo' = 0 .. Len(args)
    /\ codes' = codes \cup {args}
    /\ UNCHANGED <<currentPasscode, currentPasscodeLen, entryVars>>

SetPasscode(i) ==
    /\ i \in todo
    /\ todo' = todo \ {i}
    /\ IF i = 0
       THEN /\ currentPasscodeLen' = Len(passcode)
            /\ UNCHANGED currentPasscode
       ELSE /\ currentPasscode' = [currentPasscode EXCEPT ![i] = passcode[i]]
            /\ UNCHANGED currentPasscodeLen
    /\ UNCHANGED <<passcode, codes, entryVars>>

\* The lock loses power or reboots: everything starts again.
PowerCycle ==
    /\ column' = [c \in Columns |-> 0]
    /\ passwordBuffer' = NoDigits
    /\ passwordCurrentLength' = 0
    /\ currentPasscode' = Over(Factory, NoDigits)
    /\ currentPasscodeLen' = Len(Factory)
    /\ passcode' = Factory
    /\ todo' = {}
    /\ entry' = <<>>
    /\ codes' = {Factory}
    /\ verdict' = NoVerdict

Next ==
    \/ \E r \in Rows, c \in Columns : KeypadInterrupt(r, c)
    \/ \E args \in Arguments : ChangePasscode(args)
    \/ \E i \in 0 .. MaxLen : SetPasscode(i)
    \/ PowerCycle

Spec == Init /\ [][Next]_vars

-----------------------------------------------------------------------------
(***************************************************************************)
(* Properties.                                                             *)
(***************************************************************************)

\* Type correctness; neither length leaves the array it belongs to.
TypeOK ==
    /\ column \in [Columns -> {0, 1}]
    /\ passwordBuffer \in [1 .. MaxLen -> Digits]
    /\ passwordCurrentLength \in 0 .. MaxLen
    /\ currentPasscode \in [1 .. MaxLen -> Digits]
    /\ currentPasscodeLen \in 0 .. MaxLen
    /\ passcode \in Codes
    /\ todo \subseteq 0 .. Len(passcode)
    /\ entry \in Codes
    /\ codes \subseteq Codes
    /\ verdict.entry \in Codes
    /\ verdict.right \in BOOLEAN /\ verdict.settled \in BOOLEAN

\* The lock opens only for an entry made of passcodes that were set: as long as
\* one of them, and with each digit at the place it has in one of them.  If no
\* change was under way, it opens only for one of them.  (With a change under
\* way a mixture of the old and the new passcode can open the lock.)
OpensForPasscodes ==
    verdict.right =>
        /\ \E c \in codes : Len(c) = Len(verdict.entry)
        /\ \A i \in DOMAIN verdict.entry :
              \E c \in codes : i \in DOMAIN c /\ c[i] = verdict.entry[i]
        /\ verdict.settled => verdict.entry \in codes

\* A verdict with no change of the passcode under way is right exactly if the
\* digits typed are the passcode set last (passcodeEntered).
VerdictsRight ==
    [][verdict' # verdict /\ verdict'.settled =>
          (verdict'.right <=> verdict'.entry = passcode)]_vars
=============================================================================
