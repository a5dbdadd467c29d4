---------------------------- MODULE DisplaysProofs ----------------------------
(***************************************************************************)
(* What is proved of the displays, for any number of displays, windows and *)
(* extensions: what they keep has its types, a display that nothing        *)
(* disturbed keeps what is its own, and what is left after the last one.   *)
(*                                                                         *)
(* The invariant says which stage of a call the state of the process       *)
(* belongs to: the one call that opens, closes or changes something        *)
(* (CallOK), the application's thread (AppOK), and what is left when no    *)
(* display is open (LeftOK).  The count of displays is a number of         *)
(* displays (CountOK), so that the last one is known when it is closed.    *)
(***************************************************************************)
EXTENDS Displays, FiniteSetTheorems, TLAPS

(* The displays that are open; sOpenDisplays counts them.                  *)
OpenOnes == {d \in Displays : display[d] = "open"}

CountOK == openDisplays = Cardinality(OpenOnes)

(* The call that opens or closes a display knows which, and no display is  *)
(* at these stages without it.                                             *)
CallOK ==
  /\ \A d \in Displays : display[d] = "opening" <=>
       call.display = d /\ call.at \in {"wait", "init"}
  /\ \A d \in Displays : display[d] = "closing" <=>
       /\ call.display = d
       /\ call.at \in {"notify", "delete", "destroy", "quit", "join", "finalize"}
  /\ call.at = "idle" => call = Idle
  /\ call.at \in {"lock", "put"} => call.display = None
  /\ call.at \in {"wait", "init", "destroy", "quit", "join", "finalize"} => call.display # None
  /\ call.at \in {"lock", "put", "notify", "delete"} =>
       /\ call.window \in live
       /\ call.display = None =>
            call.window \notin orphans /\ display[DisplayOf[call.window]] = "open"
  /\ \A w \in live \ orphans : display[DisplayOf[w]] \in {"open", "closing"}

(* The application is there from the first display's opening to the last   *)
(* one's end, or is the program's own; its byte is the first in the pipe.  *)
AppOK ==
  /\ OpenOnes # {} => app \in {"running", "own"}
  /\ app = "started" => call.at = "wait" /\ appDisplay = call.display /\ pipe[call.display] = 0
  /\ app = "asked" => call.at \in {"quit", "join"}
  /\ call.at = "wait" => app \in {"started", "running"}
  /\ call.at \in {"init", "notify", "delete"} => app \in {"running", "own"}
  /\ call.at = "destroy" => app = "running"
  /\ call.at \in {"notify", "delete"} /\ call.display # None => app = "running"
  /\ call.at \in {"quit", "join"} => app \in {"asked", "none"}
  /\ call.at \in {"idle", "finalize"} /\ OpenOnes = {} => app \in {"none", "own"}
  /\ \A d \in Displays : display[d] = "none" => pipe[d] = 0

(* What is left when no display is open, at each stage of a call: windows  *)
(* only with the program's own application.                                *)
LeftOK ==
  /\ registry => call.at \in {"destroy", "notify", "delete"} /\ call.display # None
  /\ OpenOnes = {} /\ call.at \notin {"destroy", "notify", "delete"} /\ app # "own" => live = {}
  /\ OpenOnes = {} /\ call.at \in {"idle", "wait", "init"} => extensions = {} /\ ~fonts
  /\ call.at \in {"destroy", "quit", "join"} => OpenOnes = {}
  /\ call.at \in {"notify", "delete"} /\ call.display # None => OpenOnes = {}

(* A display that is being closed has disturbed the others already.        *)
KeepOK ==
  /\ \A c, d \in Displays : display[c] = "closing" /\ display[d] = "open" => d \in disturbed
  /\ \A d \in Displays \ disturbed : display[d] = "open" => screen \in Displays /\ IsUndisturbed(d)

(* The invariant, and below what each of its parts needs to be kept: one   *)
(* step for each action.                                                   *)
DisplaysInv == TypeOK /\ CountOK /\ CallOK /\ AppOK /\ LeftOK /\ KeepOK

(* The count says whether the display that is closed is the last one.      *)
LEMMA LastOne ==
  ASSUME DisplaysInv, NEW d \in Displays, display[d] = "open"
  PROVE  openDisplays - 1 = 0 <=> OpenOnes = {d}
<1>1. IsFiniteSet(OpenOnes)
  BY DisplaysAssumption, FS_Subset DEF OpenOnes
<1>2. IsFiniteSet(OpenOnes \ {d}) /\ Cardinality(OpenOnes \ {d}) = Cardinality(OpenOnes) - 1
  BY <1>1, FS_RemoveElement DEF OpenOnes
<1>3. Cardinality(OpenOnes \ {d}) = 0 <=> OpenOnes \ {d} = {}
  BY <1>2, FS_EmptySet
<1> QED
  BY <1>2, <1>3 DEF DisplaysInv, CountOK, OpenOnes

(* An event that is put keeps the pipes as they are meant to be: those of  *)
(* displays that are not there stay empty.                                 *)
LEMMA PutKeeps ==
  ASSUME DisplaysInv, NEW w \in live, PutEvent(w)
  PROVE  /\ pipe' \in [Displays -> 0 .. Capacity] /\ ub' \in BOOLEAN
         /\ \A d \in Displays : display[d] \notin {"open", "closing"} => pipe'[d] = pipe[d]
<1> DEFINE o == DisplayOf[w]
<1>1. o \in Displays /\ pipe \in [Displays -> 0 .. Capacity] /\ ub \in BOOLEAN
  BY DisplayOfAssumption DEF DisplaysInv, TypeOK
<1>2. CASE w \in orphans
  BY <1>1, <1>2 DEF PutEvent
<1>3. CASE w \notin orphans
  <2>1. display[o] \in {"open", "closing"}
    BY <1>3 DEF DisplaysInv, CallOK
  <2>2. pipe[o] < Capacity /\ pipe' = [pipe EXCEPT ![o] = @ + 1] /\ UNCHANGED ub
    BY <1>3 DEF PutEvent
  <2>3. pipe[o] + 1 \in 0 .. Capacity
    BY <1>1, <2>2, CapacityAssumption
  <2> HIDE DEF o
  <2> QED
    BY <1>1, <2>1, <2>2, <2>3
<1> QED
  BY <1>2, <1>3

LEMMA CountStep == DisplaysInv /\ [Next]_vars => CountOK'
<1> SUFFICES ASSUME DisplaysInv, [Next]_vars
             PROVE  CountOK'
  OBVIOUS
<1> USE DEF CountOK
<1>1. IsFiniteSet(OpenOnes)
  BY DisplaysAssumption, FS_Subset DEF OpenOnes
<1>2. ASSUME NEW d \in Displays, XCloseDisplay(d)
      PROVE  CountOK'
  <2>1. OpenOnes' = OpenOnes \ {d} /\ d \in OpenOnes
    BY <1>2 DEF XCloseDisplay, OpenOnes, DisplaysInv, TypeOK
  <2> QED
    BY <1>1, <1>2, <2>1, FS_RemoveElement DEF XCloseDisplay, DisplaysInv
<1>3. CASE InitDisplay
  <2> DEFINE d == call.display
  <2>1. d \in Displays /\ display[d] = "opening"
    BY <1>3, NoneAssumption DEF InitDisplay, DisplaysInv, TypeOK, CallOK
  <2>2. OpenOnes' = OpenOnes \cup {d} /\ d \notin OpenOnes
    BY <1>3, <2>1 DEF InitDisplay, OpenOnes, DisplaysInv, TypeOK
  <2> QED
    BY <1>1, <1>3, <2>2, FS_AddElement DEF InitDisplay, DisplaysInv
<1>4. ASSUME openDisplays' = openDisplays, OpenOnes' = OpenOnes
      PROVE  CountOK'
  BY <1>4 DEF DisplaysInv
<1>5. ASSUME NEW d \in Displays, XOpenDisplay(d)
      PROVE  CountOK'
  BY <1>4, <1>5 DEF XOpenDisplay, OpenOnes, DisplaysInv, TypeOK
<1>6. CASE Finalize
  BY <1>4, <1>6, NoneAssumption DEF Finalize, OpenOnes, DisplaysInv, TypeOK, CallOK
<1>7. CASE UNCHANGED <<display, openDisplays>>
  BY <1>4, <1>7 DEF OpenOnes
<1> QED
  BY <1>2, <1>3, <1>5, <1>6, <1>7
  DEF Next, Begin, Continue, Application, vars, process, locks, history, XNextEvent, XAddExtension,
      XCreateWindow, XConfigureWindow, XDestroyWindow, WaitForApplication, LockLooper, PutConfigure,
      PutDestroyNotify, DeleteWindow, DestroyNext, Destroyed, ReadThread, WaitForThread, ReadyToRun,
      QuitRequested, HookStarts, HookPuts

LEMMA TypeStep == DisplaysInv /\ [Next]_vars => TypeOK'
<1> SUFFICES ASSUME DisplaysInv, [Next]_vars
             PROVE  TypeOK'
  OBVIOUS
<1> USE NoneAssumption, DisplayOfAssumption, CapacityAssumption
    DEF DisplaysInv, TypeOK, CallOK, AppOK, process, locks, history, At, Idle, Stages
<1>1. ASSUME NEW d \in Displays, XOpenDisplay(d)
      PROVE  TypeOK'
  BY <1>1 DEF XOpenDisplay
<1>2. ASSUME NEW d \in Displays, XCloseDisplay(d)
      PROVE  TypeOK'
  <2>1. /\ openDisplays' \in Int /\ disturbed' \subseteq Displays
        /\ display' \in [Displays -> {"none", "opening", "open", "closing"}]
    BY <1>2 DEF XCloseDisplay, Others
  <2>2. call' \in [at : Stages, display : Displays \cup {None}, window : Windows \cup {None}]
    BY <1>2 DEF XCloseDisplay
  <2>3. appDisplay' \in Displays \cup {None} /\ registry' \in BOOLEAN
    <3>1. appDisplay' = appDisplay \/ appDisplay' = None
      BY <1>2 DEF XCloseDisplay
    <3>2. registry' \in BOOLEAN
      BY <1>2 DEF XCloseDisplay
    <3> QED
      BY <3>1, <3>2
  <2> QED
    BY <1>2, <2>1, <2>2, <2>3 DEF XCloseDisplay
<1>3. ASSUME NEW d \in Displays, XNextEvent(d)
      PROVE  TypeOK'
  BY <1>3 DEF XNextEvent
<1>4. ASSUME NEW e \in Extensions, XAddExtension(e)
      PROVE  TypeOK'
  BY <1>4 DEF XAddExtension
<1>5. ASSUME NEW w \in Windows, XCreateWindow(w)
      PROVE  TypeOK'
  BY <1>5 DEF XCreateWindow
<1>6. ASSUME NEW w \in Windows, XConfigureWindow(w)
      PROVE  TypeOK'
  BY <1>6 DEF XConfigureWindow
<1>7. ASSUME NEW w \in Windows, XDestroyWindow(w)
      PROVE  TypeOK'
  BY <1>7 DEF XDestroyWindow
<1>8. CASE WaitForApplication
  BY <1>8 DEF WaitForApplication
<1>9. CASE InitDisplay
  BY <1>9 DEF InitDisplay
<1>10. CASE LockLooper
  BY <1>10 DEF LockLooper
<1>11. CASE PutConfigure
  BY <1>11, PutKeeps DEF PutConfigure
<1>12. CASE PutDestroyNotify
  BY <1>12, PutKeeps DEF PutDestroyNotify
<1>13. CASE DeleteWindow
  BY <1>13 DEF DeleteWindow
<1>14. CASE DestroyNext
  BY <1>14 DEF DestroyNext
<1>15. CASE Destroyed
  BY <1>15 DEF Destroyed
<1>16. CASE ReadThread
  BY <1>16 DEF ReadThread
<1>17. CASE WaitForThread
  BY <1>17 DEF WaitForThread
<1>18. CASE Finalize
  <2>1. call.display \in Displays /\ pipe' \in [Displays -> 0 .. Capacity]
    BY <1>18 DEF Finalize
  <2>2. closedWith' \subseteq Extensions \X Displays
    BY <1>18, <2>1 DEF Finalize
  <2> QED
    BY <1>18, <2>1, <2>2 DEF Finalize
<1>19. CASE ReadyToRun
  BY <1>19 DEF ReadyToRun
<1>20. CASE QuitRequested
  BY <1>20 DEF QuitRequested
<1>21. ASSUME NEW w \in Windows, HookStarts(w)
      PROVE  TypeOK'
  BY <1>21 DEF HookStarts
<1>22. ASSUME NEW w \in Windows, HookPuts(w)
      PROVE  TypeOK'
  <2>1. w \in live
    BY <1>22 DEF HookPuts
  <2> QED
    BY <1>22, <2>1, PutKeeps DEF HookPuts
<1>23. CASE UNCHANGED vars
  BY <1>23 DEF vars, process, locks, history
<1> QED
  BY <1>1, <1>2, <1>3, <1>4, <1>5, <1>6, <1>7, <1>8, <1>9, <1>10, <1>11, <1>12, <1>13, <1>14, <1>15,
     <1>16, <1>17, <1>18, <1>19, <1>20, <1>21, <1>22, <1>23
  DEF Next, Begin, Continue, Application

LEMMA CallStep == DisplaysInv /\ [Next]_vars => CallOK'
<1> SUFFICES ASSUME DisplaysInv, [Next]_vars
             PROVE  CallOK'
  OBVIOUS
<1> USE NoneAssumption, DisplayOfAssumption
    DEF DisplaysInv, TypeOK, CallOK, LeftOK, OpenOnes, process, locks, history, At, Idle, Stages
<1>1. ASSUME NEW d \in Displays, XOpenDisplay(d)
      PROVE  CallOK'
  BY <1>1 DEF XOpenDisplay
<1>2. ASSUME NEW d \in Displays, XCloseDisplay(d)
      PROVE  CallOK'
  BY <1>2 DEF XCloseDisplay, Others
<1>3. ASSUME NEW d \in Displays, XNextEvent(d)
      PROVE  CallOK'
  BY <1>3 DEF XNextEvent
<1>4. ASSUME NEW e \in Extensions, XAddExtension(e)
      PROVE  CallOK'
  BY <1>4 DEF XAddExtension
<1>5. ASSUME NEW w \in Windows, XCreateWindow(w)
      PROVE  CallOK'
  BY <1>5 DEF XCreateWindow
<1>6. ASSUME NEW w \in Windows, XConfigureWindow(w)
      PROVE  CallOK'
  BY <1>6 DEF XConfigureWindow
<1>7. ASSUME NEW w \in Windows, XDestroyWindow(w)
      PROVE  CallOK'
  BY <1>7 DEF XDestroyWindow
<1>8. CASE WaitForApplication
  BY <1>8 DEF WaitForApplication
<1>9. CASE InitDisplay
  BY <1>9 DEF InitDisplay
<1>10. CASE LockLooper
  BY <1>10 DEF LockLooper
<1>11. CASE PutConfigure
  BY <1>11 DEF PutConfigure, PutEvent
<1>12. CASE PutDestroyNotify
  BY <1>12 DEF PutDestroyNotify, PutEvent
<1>13. CASE DeleteWindow
  BY <1>13 DEF DeleteWindow
<1>14. CASE DestroyNext
  BY <1>14 DEF DestroyNext
<1>15. CASE Destroyed
  BY <1>15 DEF Destroyed
<1>16. CASE ReadThread
  BY <1>16 DEF ReadThread
<1>17. CASE WaitForThread
  BY <1>17 DEF WaitForThread
<1>18. CASE Finalize
  BY <1>18 DEF Finalize
<1>19. CASE ReadyToRun
  BY <1>19 DEF ReadyToRun
<1>20. CASE QuitRequested
  BY <1>20 DEF QuitRequested
<1>21. ASSUME NEW w \in Windows, HookStarts(w)
      PROVE  CallOK'
  BY <1>21 DEF HookStarts
<1>22. ASSUME NEW w \in Windows, HookPuts(w)
      PROVE  CallOK'
  BY <1>22 DEF HookPuts, PutEvent
<1>23. CASE UNCHANGED vars
  BY <1>23 DEF vars, process, locks, history
<1> QED
  BY <1>1, <1>2, <1>3, <1>4, <1>5, <1>6, <1>7, <1>8, <1>9, <1>10, <1>11, <1>12, <1>13, <1>14, <1>15,
     <1>16, <1>17, <1>18, <1>19, <1>20, <1>21, <1>22, <1>23
  DEF Next, Begin, Continue, Application

LEMMA AppStep == DisplaysInv /\ [Next]_vars => AppOK'
<1> SUFFICES ASSUME DisplaysInv, [Next]_vars
             PROVE  AppOK'
  OBVIOUS
<1> USE NoneAssumption, DisplayOfAssumption
    DEF DisplaysInv, TypeOK, CallOK, AppOK, LeftOK, OpenOnes, process, locks, history, At, Idle, Stages
<1>1. ASSUME NEW d \in Displays, XOpenDisplay(d)
      PROVE  AppOK'
  BY <1>1 DEF XOpenDisplay
<1>2. ASSUME NEW d \in Displays, XCloseDisplay(d)
      PROVE  AppOK'
  BY <1>2, LastOne DEF XCloseDisplay, Others
<1>3. ASSUME NEW d \in Displays, XNextEvent(d)
      PROVE  AppOK'
  BY <1>3 DEF XNextEvent
<1>4. ASSUME NEW e \in Extensions, XAddExtension(e)
      PROVE  AppOK'
  BY <1>4 DEF XAddExtension
<1>5. ASSUME NEW w \in Windows, XCreateWindow(w)
      PROVE  AppOK'
  BY <1>5 DEF XCreateWindow
<1>6. ASSUME NEW w \in Windows, XConfigureWindow(w)
      PROVE  AppOK'
  BY <1>6 DEF XConfigureWindow
<1>7. ASSUME NEW w \in Windows, XDestroyWindow(w)
      PROVE  AppOK'
  BY <1>7 DEF XDestroyWindow
<1>8. CASE WaitForApplication
  BY <1>8 DEF WaitForApplication
<1>9. CASE InitDisplay
  BY <1>9 DEF InitDisplay
<1>10. CASE LockLooper
  BY <1>10 DEF LockLooper
<1>11. CASE PutConfigure
  BY <1>11, PutKeeps DEF PutConfigure
<1>12. CASE PutDestroyNotify
  BY <1>12, PutKeeps DEF PutDestroyNotify
<1>13. CASE DeleteWindow
  BY <1>13 DEF DeleteWindow
<1>14. CASE DestroyNext
  BY <1>14 DEF DestroyNext
<1>15. CASE Destroyed
  BY <1>15 DEF Destroyed
<1>16. CASE ReadThread
  BY <1>16 DEF ReadThread
<1>17. CASE WaitForThread
  BY <1>17 DEF WaitForThread
<1>18. CASE Finalize
  BY <1>18 DEF Finalize
<1>19. CASE ReadyToRun
  BY <1>19 DEF ReadyToRun
<1>20. CASE QuitRequested
  BY <1>20 DEF QuitRequested
<1>21. ASSUME NEW w \in Windows, HookStarts(w)
      PROVE  AppOK'
  BY <1>21 DEF HookStarts
<1>22. ASSUME NEW w \in Windows, HookPuts(w)
      PROVE  AppOK'
  <2>1. w \in live
    BY <1>22 DEF HookPuts
  <2> QED
    BY <1>22, <2>1, PutKeeps DEF HookPuts
<1>23. CASE UNCHANGED vars
  BY <1>23 DEF vars, process, locks, history
<1> QED
  BY <1>1, <1>2, <1>3, <1>4, <1>5, <1>6, <1>7, <1>8, <1>9, <1>10, <1>11, <1>12, <1>13, <1>14, <1>15,
     <1>16, <1>17, <1>18, <1>19, <1>20, <1>21, <1>22, <1>23
  DEF Next, Begin, Continue, Application

LEMMA LeftStep == DisplaysInv /\ [Next]_vars => LeftOK'
<1> SUFFICES ASSUME DisplaysInv, [Next]_vars
             PROVE  LeftOK'
  OBVIOUS
<1> USE NoneAssumption, DisplayOfAssumption
    DEF DisplaysInv, TypeOK, CallOK, AppOK, LeftOK, OpenOnes, process, locks, history, At, Idle, Stages
<1>1. ASSUME NEW d \in Displays, XOpenDisplay(d)
      PROVE  LeftOK'
  BY <1>1 DEF XOpenDisplay
<1>2. ASSUME NEW d \in Displays, XCloseDisplay(d)
      PROVE  LeftOK'
  BY <1>2, LastOne DEF XCloseDisplay, Others
<1>3. ASSUME NEW d \in Displays, XNextEvent(d)
      PROVE  LeftOK'
  BY <1>3 DEF XNextEvent
<1>4. ASSUME NEW e \in Extensions, XAddExtension(e)
      PROVE  LeftOK'
  BY <1>4 DEF XAddExtension
<1>5. ASSUME NEW w \in Windows, XCreateWindow(w)
      PROVE  LeftOK'
  BY <1>5 DEF XCreateWindow
<1>6. ASSUME NEW w \in Windows, XConfigureWindow(w)
      PROVE  LeftOK'
  BY <1>6 DEF XConfigureWindow
<1>7. ASSUME NEW w \in Windows, XDestroyWindow(w)
      PROVE  LeftOK'
  BY <1>7 DEF XDestroyWindow
<1>8. CASE WaitForApplication
  BY <1>8 DEF WaitForApplication
<1>9. CASE InitDisplay
  BY <1>9 DEF InitDisplay
<1>10. CASE LockLooper
  BY <1>10 DEF LockLooper
<1>11. CASE PutConfigure
  BY <1>11 DEF PutConfigure, PutEvent
<1>12. CASE PutDestroyNotify
  BY <1>12 DEF PutDestroyNotify, PutEvent
<1>13. CASE DeleteWindow
  BY <1>13 DEF DeleteWindow
<1>14. CASE DestroyNext
  BY <1>14 DEF DestroyNext
<1>15. CASE Destroyed
  BY <1>15 DEF Destroyed
<1>16. CASE ReadThread
  BY <1>16 DEF ReadThread
<1>17. CASE WaitForThread
  BY <1>17 DEF WaitForThread
<1>18. CASE Finalize
  BY <1>18 DEF Finalize
<1>19. CASE ReadyToRun
  BY <1>19 DEF ReadyToRun
<1>20. CASE QuitRequested
  BY <1>20 DEF QuitRequested
<1>21. ASSUME NEW w \in Windows, HookStarts(w)
      PROVE  LeftOK'
  BY <1>21 DEF HookStarts
<1>22. ASSUME NEW w \in Windows, HookPuts(w)
      PROVE  LeftOK'
  BY <1>22 DEF HookPuts, PutEvent
<1>23. CASE UNCHANGED vars
  BY <1>23 DEF vars, process, locks, history
<1> QED
  BY <1>1, <1>2, <1>3, <1>4, <1>5, <1>6, <1>7, <1>8, <1>9, <1>10, <1>11, <1>12, <1>13, <1>14, <1>15,
     <1>16, <1>17, <1>18, <1>19, <1>20, <1>21, <1>22, <1>23
  DEF Next, Begin, Continue, Application

LEMMA KeepStep == DisplaysInv /\ [Next]_vars => KeepOK'
<1> SUFFICES ASSUME DisplaysInv, [Next]_vars
             PROVE  KeepOK'
  OBVIOUS
<1> USE NoneAssumption, DisplayOfAssumption
    DEF DisplaysInv, TypeOK, CallOK, AppOK, LeftOK, KeepOK, IsUndisturbed, OpenOnes, process, locks,
        history, At, Idle, Stages
<1>1. ASSUME NEW d \in Displays, XOpenDisplay(d)
      PROVE  KeepOK'
  BY <1>1 DEF XOpenDisplay
<1>2. ASSUME NEW d \in Displays, XCloseDisplay(d)
      PROVE  KeepOK'
  BY <1>2 DEF XCloseDisplay, Others
<1>3. ASSUME NEW d \in Displays, XNextEvent(d)
      PROVE  KeepOK'
  BY <1>3 DEF XNextEvent
<1>4. ASSUME NEW e \in Extensions, XAddExtension(e)
      PROVE  KeepOK'
  BY <1>4 DEF XAddExtension
<1>5. ASSUME NEW w \in Windows, XCreateWindow(w)
      PROVE  KeepOK'
  BY <1>5 DEF XCreateWindow
<1>6. ASSUME NEW w \in Windows, XConfigureWindow(w)
      PROVE  KeepOK'
  BY <1>6 DEF XConfigureWindow
<1>7. ASSUME NEW w \in Windows, XDestroyWindow(w)
      PROVE  KeepOK'
  BY <1>7 DEF XDestroyWindow
<1>8. CASE WaitForApplication
  BY <1>8 DEF WaitForApplication
<1>9. CASE InitDisplay
  BY <1>9 DEF InitDisplay
<1>10. CASE LockLooper
  BY <1>10 DEF LockLooper
<1>11. CASE PutConfigure
  BY <1>11 DEF PutConfigure, PutEvent
<1>12. CASE PutDestroyNotify
  BY <1>12 DEF PutDestroyNotify, PutEvent
<1>13. CASE DeleteWindow
  BY <1>13 DEF DeleteWindow
<1>14. CASE DestroyNext
  BY <1>14 DEF DestroyNext
<1>15. CASE Destroyed
  BY <1>15 DEF Destroyed
<1>16. CASE ReadThread
  BY <1>16 DEF ReadThread
<1>17. CASE WaitForThread
  BY <1>17 DEF WaitForThread
<1>18. CASE Finalize
  BY <1>18 DEF Finalize
<1>19. CASE ReadyToRun
  BY <1>19 DEF ReadyToRun
<1>20. CASE QuitRequested
  BY <1>20 DEF QuitRequested
<1>21. ASSUME NEW w \in Windows, HookStarts(w)
      PROVE  KeepOK'
  BY <1>21 DEF HookStarts
<1>22. ASSUME NEW w \in Windows, HookPuts(w)
      PROVE  KeepOK'
  BY <1>22 DEF HookPuts, PutEvent
<1>23. CASE UNCHANGED vars
  BY <1>23 DEF vars, process, locks, history
<1> QED
  BY <1>1, <1>2, <1>3, <1>4, <1>5, <1>6, <1>7, <1>8, <1>9, <1>10, <1>11, <1>12, <1>13, <1>14, <1>15,
     <1>16, <1>17, <1>18, <1>19, <1>20, <1>21, <1>22, <1>23
  DEF Next, Begin, Continue, Application

(* It holds of the process as it starts, and in all that follows.          *)
LEMMA DisplaysInvariant == Spec => []DisplaysInv
<1>1. Init => DisplaysInv
  <2> SUFFICES ASSUME Init
               PROVE  DisplaysInv
    OBVIOUS
  <2>1. OpenOnes = {} /\ Cardinality(OpenOnes) = 0
    BY FS_EmptySet DEF Init, OpenOnes
  <2>2. TypeOK
    <3>1. Idle \in [at : Stages, display : Displays \cup {None}, window : Windows \cup {None}]
      BY DEF Idle, Stages
    <3>2. call \in [at : Stages, display : Displays \cup {None}, window : Windows \cup {None}]
      BY <3>1, Zenon DEF Init
    <3>3. /\ display \in [Displays -> {"none", "opening", "open", "closing"}]
          /\ looper \in [Windows -> {None, "hook", "client"}] /\ \A w \in Windows : looper[w] = None
      BY DEF Init
    <3>4. pipe \in [Displays -> 0 .. Capacity] /\ openDisplays \in Int
      BY CapacityAssumption DEF Init
    <3> QED
      BY <3>2, <3>3, <3>4 DEF Init, TypeOK
  <2>3. CountOK
    BY <2>1 DEF Init, CountOK
  <2>4. CallOK
    BY NoneAssumption DEF Init, CallOK, Idle
  <2>5. AppOK /\ LeftOK
    BY <2>1 DEF Init, AppOK, LeftOK, Idle
  <2>6. KeepOK
    BY DEF Init, KeepOK, IsUndisturbed
  <2> QED
    BY <2>2, <2>3, <2>4, <2>5, <2>6 DEF DisplaysInv
<1>2. DisplaysInv /\ [Next]_vars => DisplaysInv'
  BY TypeStep, CountStep, CallStep, AppStep, LeftStep, KeepStep DEF DisplaysInv
<1> QED
  BY <1>1, <1>2, PTL DEF Spec

(* What the process, its calls and its history keep has its types, and the *)
(* pipe of a display is never fuller than it can be (Display.cpp:40-249).  *)
THEOREM TypeCorrect == Spec => []TypeOK
BY DisplaysInvariant, PTL DEF DisplaysInv

(* A display that is open has the application's thread behind it; and, if  *)
(* no other display was closed while it was open, fonts, a screen of an    *)
(* open display, and extensions that are told of no other display          *)
(* (Display.cpp:91-161, 186-249).                                          *)
THEOREM UndisturbedDisplaysKeepTheirs == Spec => []UndisturbedKeepTheirs
<1>1. DisplaysInv => UndisturbedKeepTheirs
  BY DEF DisplaysInv, TypeOK, AppOK, KeepOK, OpenOnes, UndisturbedKeepTheirs, HasApplication,
         IsUndisturbed
<1> QED
  BY <1>1, DisplaysInvariant, PTL

(* When no call is under way and no display is open, the extensions and    *)
(* the fonts are gone; the library's application and the windows are gone  *)
(* too, or the application is the program's, and each window left points   *)
(* to a display that is gone (Display.cpp:217-249, Drawables.cpp:50-56).   *)
THEOREM LastLeavesThis == Spec => []WhatIsLeft
<1>1. ASSUME DisplaysInv, call = Idle, openDisplays = 0
      PROVE  /\ extensions = {} /\ ~fonts /\ ~registry
             /\ \/ app = "none" /\ live = {}
                \/ app = "own" /\ live = orphans
  <2>1. IsFiniteSet(OpenOnes)
    BY DisplaysAssumption, FS_Subset DEF OpenOnes
  <2>2. OpenOnes = {}
    BY <1>1, <2>1, FS_EmptySet DEF DisplaysInv, CountOK
  <2>3. \A d \in Displays : display[d] \notin {"open", "closing"}
    BY <1>1, <2>2 DEF DisplaysInv, CallOK, OpenOnes, Idle
  <2>4. live = orphans
    BY <1>1, <2>3, DisplayOfAssumption DEF DisplaysInv, TypeOK, CallOK
  <2> QED
    BY <1>1, <2>2, <2>4 DEF DisplaysInv, AppOK, LeftOK, Idle
<1>2. DisplaysInv => WhatIsLeft
  BY <1>1 DEF WhatIsLeft
<1> QED
  BY <1>2, DisplaysInvariant, PTL
=============================================================================
