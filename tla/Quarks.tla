-------------------------------- MODULE Quarks --------------------------------
(***************************************************************************)
(* The quark table of the resource manager (xlib/Resource.cpp).  Like      *)
(* XInternAtom, XrmStringToQuark looks a string up under the read lock,    *)
(* lets go of it, and inserts under the write lock; unlike XInternAtom it  *)
(* takes the number under one hold of the write lock and inserts under     *)
(* another, and does not look again.                                       *)
(*                                                                         *)
(* No thread takes the lock while it holds it, so each hold of the lock is *)
(* one action and the lock itself is left out.                             *)
(***************************************************************************)
EXTENDS Integers

CONSTANTS
  Threads,     \* threads of the application
  Strings,     \* the strings they make quarks of
  MaxQuark     \* bound: sLastQuark stops here

NullQuark == 0     \* in place of a quark: the string has none

ASSUME StringsAssumption == NullQuark \notin Strings
ASSUME BoundAssumption == MaxQuark \in Nat

VARIABLES
  quarkOf,     \* sStringsToQuarks, or NullQuark
  strings,     \* sQuarksToStrings, as a set of pairs
  lastQuark,   \* sLastQuark: the next quark
  pc,          \* what each thread is about to do
  string,      \* the argument of its call
  quark,       \* its local of that name
  told         \* history: the strings and quarks callers were told go together

quarkVars == <<quarkOf, strings, lastQuark, pc, string, quark, told>>

Pair == [string : Strings, quark : Nat]

QuarksTypeOK ==
  /\ quarkOf \in [Strings -> Nat]
  /\ strings \subseteq Pair
  /\ lastQuark \in Nat
  /\ pc \in [Threads -> {"idle", "find", "unique", "insert"}]
  /\ string \in [Threads -> Strings \cup {NullQuark}]
  /\ \A t \in Threads : pc[t] # "idle" => string[t] \in Strings
  /\ quark \in [Threads -> Nat]
  /\ told \subseteq Pair

QuarksInit ==
  /\ quarkOf = [s \in Strings |-> NullQuark]
  /\ strings = {}
  /\ lastQuark = 1
  /\ pc = [t \in Threads |-> "idle"]
  /\ string = [t \in Threads |-> NullQuark]
  /\ quark = [t \in Threads |-> NullQuark]
  /\ told = {}

-----------------------------------------------------------------------------

(* XrmStringToQuark, XrmPermStringToQuark.  (A null name is answered 0 at  *)
(* once.)                                                                  *)
XrmStringToQuark(t) ==
  /\ pc[t] = "idle"
  /\ \E s \in Strings : string' = [string EXCEPT ![t] = s]
  /\ pc' = [pc EXCEPT ![t] = "find"]
  /\ UNCHANGED <<quarkOf, strings, lastQuark, quark, told>>

Return(t, q) ==
  /\ told' = told \cup {[string |-> string[t], quark |-> q]}
  /\ pc' = [pc EXCEPT ![t] = "idle"]

Find(t) ==
  /\ pc[t] = "find"
  /\ quarkOf[string[t]] # NullQuark
  /\ Return(t, quarkOf[string[t]])
  /\ UNCHANGED <<quarkOf, strings, lastQuark, string, quark>>

FindNone(t) ==
  /\ pc[t] = "find"
  /\ quarkOf[string[t]] = NullQuark
  /\ pc' = [pc EXCEPT ![t] = "unique"]
  /\ UNCHANGED <<quarkOf, strings, lastQuark, string, quark, told>>

(* Mutant: the counter is read and advanced without the lock, so that      *)
(* another thread may read the same value.                                 *)
UniqueUnlocked(t) ==
  /\ pc[t] = "unique"
  /\ lastQuark < MaxQuark
  /\ quark' = [quark EXCEPT ![t] = lastQuark]
  /\ lastQuark' \in {lastQuark, lastQuark + 1}
  /\ pc' = [pc EXCEPT ![t] = "insert"]
  /\ UNCHANGED <<quarkOf, strings, string, told>>

(* XrmUniqueQuark, called by the above...                                  *)
Unique(t) ==
  /\ pc[t] = "unique"
  /\ lastQuark < MaxQuark
  /\ quark' = [quark EXCEPT ![t] = lastQuark]
  /\ lastQuark' = lastQuark + 1
  /\ pc' = [pc EXCEPT ![t] = "insert"]
  /\ UNCHANGED <<quarkOf, strings, string, told>>

(* ...or by the application, for a quark that stands for no string.        *)
XrmUniqueQuark(t) ==
  /\ pc[t] = "idle"
  /\ lastQuark < MaxQuark
  /\ lastQuark' = lastQuark + 1
  /\ UNCHANGED <<quarkOf, strings, pc, string, quark, told>>

(* Both maps' insert() leaves an entry that is already there.              *)
Insert(t) ==
  /\ pc[t] = "insert"
  /\ strings' = IF \E p \in strings : p.quark = quark[t] THEN strings
                ELSE strings \cup {[string |-> string[t], quark |-> quark[t]]}
  /\ quarkOf' = IF quarkOf[string[t]] # NullQuark THEN quarkOf
                ELSE [quarkOf EXCEPT ![string[t]] = quark[t]]
  /\ Return(t, quark[t])
  /\ UNCHANGED <<lastQuark, string, quark>>

(* The string XrmQuarkToString returns.                                    *)
XrmQuarkToString(q) ==
  IF \E p \in strings : p.quark = q THEN (CHOOSE p \in strings : p.quark = q).string
                                    ELSE NullQuark

Step(t) == Find(t) \/ FindNone(t) \/ Unique(t) \/ Insert(t)

QuarksNext == \E t \in Threads : XrmStringToQuark(t) \/ XrmUniqueQuark(t) \/ Step(t)

QuarksSpec == QuarksInit /\ [][QuarksNext]_quarkVars

-----------------------------------------------------------------------------
(* No two strings are given the same quark, even by threads that take      *)
(* their numbers at the same time, and XrmQuarkToString gives back for a   *)
(* quark the string it was made of.                                        *)
QuarkHasOneString ==
  /\ \A a, b \in told : a.quark = b.quark => a.string = b.string
  /\ \A a \in told : XrmQuarkToString(a.quark) = a.string

(* "find quark for string, create new quark if none already exists"        *)
(* (X11/Xresource.h): a string has one quark.                              *)
StringHasOneQuark ==
  \A a, b \in told : a.string = b.string => a.quark = b.quark
=============================================================================
