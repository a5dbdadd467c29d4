---------------------------- MODULE DrawStateProofs ----------------------------
(***************************************************************************)
(* Proofs about DrawState, for any sets of graphics contexts, drawables,   *)
(* attributes and regions: its types, that last_gc never dangles, that     *)
(* every drawing call is clipped to its own region, and that with a single *)
(* graphics context its colours are the ones drawn with.                   *)
(***************************************************************************)
EXTENDS DrawState, TLAPS

USE DEF Attributes, Masks, Defaults

-----------------------------------------------------------------------------
LEMMA TypeInit == Init => TypeOK
BY ValuesAssumption DEF Init, TypeOK

(* The values after XChangeGC and XCopyGC are values.                      *)
LEMMA OverlayType ==
  ASSUME NEW old \in [Fields -> Values], NEW new \in [Fields -> Values], NEW F
  PROVE  Overlay(old, F, new) \in [Fields -> Values]
BY DEF Overlay

LEMMA ClipMasksType ==
  ASSUME NEW m \in Masks, NEW F
  PROVE  ClipMasks(m, F) \subseteq Masks
BY DEF ClipMasks

LEMMA DefaultsType == Defaults \in [Fields -> Values]
BY ValuesAssumption

LEMMA ForgetType ==
  ASSUME TypeOK, NEW g \in GCs
  PROVE  Forget(g) \in [Drawables -> GCs \cup {NoGC}]
BY DEF TypeOK, Forget

LEMMA TypeStep == TypeOK /\ [Next]_vars => TypeOK'
<1> SUFFICES ASSUME TypeOK, [Next]_vars
             PROVE  TypeOK'
  OBVIOUS
<1> USE DEF TypeOK, views, gcs
<1>1. ASSUME NEW g \in GCs, XCreateGC(g)
      PROVE  TypeOK'
  <2>1. PICK F \in SUBSET Attributes, new \in [Fields -> Values], id \in GarbageIds, m \in Masks :
          /\ m \in ClipMasks("null", F)
          /\ val' = [val EXCEPT ![g] = Overlay(Defaults, F, new)]
          /\ mask' = [mask EXCEPT ![g] = m]
          /\ dirty' = [dirty EXCEPT ![g] = F]
          /\ gid' = [gid EXCEPT ![g] = id]
    BY <1>1, ClipMasksType DEF XCreateGC
  <2>2. Overlay(Defaults, F, new) \in [Fields -> Values] /\ m \in Masks
    BY DefaultsType, OverlayType, ClipMasksType
  <2>3. id \in Drawables \cup {NoDrawable}
    BY GarbageAssumption
  <2> QED
    BY <1>1, <2>1, <2>2, <2>3 DEF XCreateGC
<1>2. ASSUME NEW g \in GCs, XFreeGC(g)
      PROVE  TypeOK'
  BY <1>2, ForgetType, DefaultsType DEF XFreeGC
<1>3. ASSUME NEW g \in GCs, XChangeGC(g)
      PROVE  TypeOK'
  <2>1. PICK F \in SUBSET Attributes, new \in [Fields -> Values], m \in Masks :
          /\ m \in ClipMasks(mask[g], F)
          /\ val' = [val EXCEPT ![g] = Overlay(val[g], F, new)]
          /\ mask' = [mask EXCEPT ![g] = m]
          /\ dirty' = [dirty EXCEPT ![g] = dirty[g] \cup F]
    BY <1>3, ClipMasksType DEF XChangeGC
  <2>2. Overlay(val[g], F, new) \in [Fields -> Values] /\ m \in Masks
    BY OverlayType, ClipMasksType
  <2> QED
    BY <1>3, <2>1, <2>2 DEF XChangeGC
<1>4. ASSUME NEW g \in GCs, Set(g)
      PROVE  TypeOK'
  BY <1>4 DEF Set
<1>5. ASSUME NEW g \in GCs, SetClip(g)
      PROVE  TypeOK'
  BY <1>5 DEF SetClip
<1>6. ASSUME NEW g \in GCs, XSetClipMaskNone(g)
      PROVE  TypeOK'
  BY <1>6 DEF XSetClipMaskNone
<1>7. ASSUME NEW g \in GCs, NEW d \in Drawables, Draw(g, d)
      PROVE  TypeOK'
  <2>1. Pushed(g, d) \in [Fields -> Values]
    BY DEF Pushed
  <2>2. PushedClip(g, d) \in {"null"} \cup Regions
    BY DEF PushedClip, ClipOf
  <2>3. lastGC' \in [Drawables -> GCs \cup {NoGC}]
    BY <1>7, ForgetType DEF Draw
  <2>4. viewClip' \in [Drawables -> {"null"} \cup Regions] /\ dirty' \in [GCs -> SUBSET Attributes]
    BY <1>7, <2>2 DEF Draw
  <2>5. \A h \in GCs \ live : dirty'[h] = {}
    BY <1>7 DEF Draw
  <2> QED
    BY <1>7, <2>1, <2>3, <2>4, <2>5 DEF Draw
<1>8. ASSUME NEW g \in GCs, NEW src \in GCs, XCopyGC(src, g)
      PROVE  TypeOK'
  <2>1. PICK F \in SUBSET Fields : /\ val' = [val EXCEPT ![g] = Overlay(val[g], F, val[src])]
                                   /\ dirty' = [dirty EXCEPT ![g] = dirty[g] \cup F]
    BY <1>8 DEF XCopyGC
  <2>2. Overlay(val[g], F, val[src]) \in [Fields -> Values]
    BY OverlayType
  <2> QED
    BY <1>8, <2>1, <2>2 DEF XCopyGC
<1>9. ASSUME NEW d \in Drawables, XClearArea(d)
      PROVE  TypeOK'
  BY <1>9, ValuesAssumption DEF XClearArea
<1>10. ASSUME NEW d \in Drawables, Destroy(d)
       PROVE  TypeOK'
  BY <1>10 DEF Destroy
<1>11. CASE UNCHANGED vars
  BY <1>11 DEF vars
<1> QED
  BY <1>1, <1>2, <1>3, <1>4, <1>5, <1>6, <1>7, <1>8, <1>9, <1>10, <1>11 DEF Next

(* Graphics contexts and views keep their types; a freed context keeps     *)
(* nothing.                                                                *)
THEOREM TypeCorrect == Spec => []TypeOK
BY TypeInit, TypeStep, PTL DEF Spec

-----------------------------------------------------------------------------
LEMMA OwnedStep == ASSUME TypeOK, LastGCIsOwned, [Next]_vars
                   PROVE  LastGCIsOwned'
<1> USE DEF TypeOK, LastGCIsOwned, views, gcs
<1>1. ASSUME NEW g \in GCs, XCreateGC(g)
      PROVE  LastGCIsOwned'
  BY <1>1 DEF XCreateGC
<1>2. ASSUME NEW g \in GCs, XFreeGC(g)
      PROVE  LastGCIsOwned'
  BY <1>2 DEF XFreeGC, Forget
<1>3. ASSUME NEW g \in GCs, NEW d \in Drawables, Draw(g, d)
      PROVE  LastGCIsOwned'
  <2>1. \A e \in exists \ {d} :
          /\ lastGC'[e] \in {lastGC[e], NoGC}
          /\ lastGC'[e] = g => NoGC = g
    BY <1>3 DEF Draw, Forget
  <2>2. lastGC'[d] \in {g, lastGC[d], NoGC}
    BY <1>3 DEF Draw, Forget
  <2>3. g # NoGC /\ exists' = exists /\ live' = live /\ gid' = [gid EXCEPT ![g] = d] /\ g \in live
    BY <1>3, DrawablesAssumption DEF Draw
  <2> QED
    BY <2>1, <2>2, <2>3
<1>4. ASSUME NEW d \in Drawables, XClearArea(d)
      PROVE  LastGCIsOwned'
  BY <1>4 DEF XClearArea
<1>5. ASSUME NEW d \in Drawables, Destroy(d)
      PROVE  LastGCIsOwned'
  BY <1>5 DEF Destroy
<1>6. ASSUME UNCHANGED <<live, gid, exists, lastGC>>
      PROVE  LastGCIsOwned'
  BY <1>6
<1> QED
  BY <1>1, <1>2, <1>3, <1>4, <1>5, <1>6
     DEF Next, vars, XChangeGC, Set, SetClip, XSetClipMaskNone, XCopyGC

(* No drawable ever remembers a freed graphics context, or one that has    *)
(* moved to another drawable, whatever the garbage in a new one's gid.     *)
THEOREM LastGCNeverDangles == Spec => []LastGCIsOwned
<1>1. Init => LastGCIsOwned
  BY DEF Init, LastGCIsOwned
<1>2. TypeOK /\ LastGCIsOwned /\ [Next]_vars => LastGCIsOwned'
  BY OwnedStep
<1> QED
  BY <1>1, <1>2, TypeCorrect, PTL DEF Spec

-----------------------------------------------------------------------------
(* Between drawing calls no view is clipped, and a graphics context with a *)
(* region has it marked dirty: the next call pushes it.                    *)
ClipInv ==
  /\ \A d \in Drawables : viewClip[d] = "null"
  /\ \A g \in GCs : mask[g] \in Regions => "clip" \in dirty[g]
  /\ ClipIsTheGCs

(* A graphics context that is clipped finds its clip dirty wherever it     *)
(* draws.                                                                  *)
LEMMA ClipIsPushed ==
  ASSUME TypeOK, ClipInv, NEW g \in GCs, NEW d \in Drawables
  PROVE  PushedClip(g, d) = ClipOf(g)
<1>1. ASSUME mask[g] \in Regions
      PROVE  "clip" \in DirtyIn(g, d)
  <2>1. mask[g] # "null"
    BY <1>1, RegionsAssumption
  <2>2. "clip" \in dirty[g]
    BY <1>1 DEF ClipInv
  <2>3. lastGC[d] # g => "clip" \in Compare(g, lastGC[d])
    BY <2>1 DEF Compare
  <2> QED
    BY <2>2, <2>3 DEF DirtyIn
<1> QED
  BY <1>1 DEF PushedClip, ClipOf, ClipInv

LEMMA ClipStep == ASSUME TypeOK, ClipInv, [Next]_vars
                  PROVE  ClipInv'
<1> USE DEF TypeOK, ClipInv, ClipIsTheGCs, views, gcs
<1>1. ASSUME NEW g \in GCs, XCreateGC(g)
      PROVE  ClipInv'
  <2>1. PICK F \in SUBSET Attributes, new \in [Fields -> Values], m \in Masks :
          /\ m \in ClipMasks("null", F)
          /\ mask' = [mask EXCEPT ![g] = m]
          /\ dirty' = [dirty EXCEPT ![g] = F]
    BY <1>1, ClipMasksType DEF XCreateGC
  <2>2. m \in Regions => "clip" \in F
    BY <2>1, RegionsAssumption DEF ClipMasks
  <2> QED
    BY <1>1, <2>1, <2>2 DEF XCreateGC
<1>2. ASSUME NEW g \in GCs, XFreeGC(g)
      PROVE  ClipInv'
  BY <1>2, RegionsAssumption DEF XFreeGC
<1>3. ASSUME NEW g \in GCs, XChangeGC(g)
      PROVE  ClipInv'
  <2>1. PICK F \in SUBSET Attributes, new \in [Fields -> Values], m \in Masks :
          /\ m \in ClipMasks(mask[g], F)
          /\ mask' = [mask EXCEPT ![g] = m]
          /\ dirty' = [dirty EXCEPT ![g] = dirty[g] \cup F]
    BY <1>3, ClipMasksType DEF XChangeGC
  <2>2. m \in Regions => "clip" \in dirty[g] \cup F
    BY <2>1 DEF ClipMasks
  <2> QED
    BY <1>3, <2>1, <2>2 DEF XChangeGC
<1>4. ASSUME NEW g \in GCs, Set(g)
      PROVE  ClipInv'
  BY <1>4 DEF Set
<1>5. ASSUME NEW g \in GCs, SetClip(g)
      PROVE  ClipInv'
  BY <1>5 DEF SetClip
<1>6. ASSUME NEW g \in GCs, XSetClipMaskNone(g)
      PROVE  ClipInv'
  BY <1>6 DEF XSetClipMaskNone
<1>7. ASSUME NEW g \in GCs, NEW d \in Drawables, Draw(g, d)
      PROVE  ClipInv'
  <2>1. PushedClip(g, d) = ClipOf(g)
    BY ClipIsPushed
  <2>2. "clip" \notin wrong'
    BY <1>7, <2>1, FieldsAssumption DEF Draw
  <2>3. \A e \in Drawables : viewClip'[e] = "null"
    BY <1>7, <2>1 DEF Draw, ClipOf
  <2>4. \A h \in GCs : mask'[h] \in Regions => "clip" \in dirty'[h]
    BY <1>7 DEF Draw
  <2> QED
    BY <2>2, <2>3, <2>4
<1>8. ASSUME NEW g \in GCs, NEW src \in GCs, XCopyGC(src, g)
      PROVE  ClipInv'
  BY <1>8 DEF XCopyGC
<1>9. ASSUME NEW d \in Drawables, XClearArea(d) \/ Destroy(d)
      PROVE  ClipInv'
  BY <1>9 DEF XClearArea, Destroy
<1>10. CASE UNCHANGED vars
  BY <1>10 DEF vars
<1> QED
  BY <1>1, <1>2, <1>3, <1>4, <1>5, <1>6, <1>7, <1>8, <1>9, <1>10 DEF Next

(* Every drawing call is clipped to its own graphics context's region.     *)
THEOREM ClipsAreRight == Spec => []ClipIsTheGCs
<1>1. Init => ClipInv
  BY RegionsAssumption DEF Init, ClipInv, ClipIsTheGCs
<1>2. TypeOK /\ ClipInv /\ [Next]_vars => ClipInv'
  BY ClipStep
<1>3. ClipInv => ClipIsTheGCs
  BY DEF ClipInv
<1> QED
  BY <1>1, <1>2, <1>3, TypeCorrect, PTL DEF Spec

-----------------------------------------------------------------------------
(* With a single graphics context, pixmaps only and a gid that is nobody's *)
(* by chance, what the context has not marked dirty is what the view it    *)
(* last drew in has.                                                       *)
OneGC == /\ \A g, h \in GCs : g = h
         /\ Windows = {}
         /\ GarbageIds = {NoDrawable}

ColourInv ==
  /\ ColoursAreTheGCs
  /\ \A g \in live : gid[g] \in exists =>
       \A f \in Fields \ (dirty[g] \cup {"font"}) : view[gid[g]][f] = val[g][f]

LEMMA DrawPushes ==
  ASSUME OneGC, TypeOK, LastGCIsOwned, ColourInv,
         NEW g \in live, NEW d \in exists, NEW f \in Fields \ {"font"}
  PROVE  Pushed(g, d)[f] = val[g][f]
<1> USE DEF TypeOK
<1>1. CASE gid[g] = d
  BY <1>1 DEF Pushed, DirtyIn, ColourInv
<1>2. CASE gid[g] # d
  <2>1. lastGC[d] # g
    BY <1>2, DrawablesAssumption DEF LastGCIsOwned
  <2>2. lastGC[d] = NoGC
    BY <2>1, DrawablesAssumption DEF OneGC
  <2>3. DirtyIn(g, d) = Attributes
    BY <1>2, <2>1, <2>2 DEF DirtyIn, Compare
  <2> QED
    BY <2>3 DEF Pushed
<1> QED
  BY <1>1, <1>2

LEMMA ColourStep ==
  ASSUME OneGC, TypeOK, LastGCIsOwned, ColourInv, [Next]_vars
  PROVE  ColourInv'
<1> USE DEF TypeOK, ColourInv, ColoursAreTheGCs, views, gcs
<1>1. ASSUME NEW g \in GCs, XCreateGC(g)
      PROVE  ColourInv'
  <2>1. gid' = [gid EXCEPT ![g] = NoDrawable] /\ NoDrawable \notin exists
    BY <1>1, DrawablesAssumption DEF XCreateGC, OneGC
  <2>2. live' = {g}
    BY <1>1 DEF XCreateGC, OneGC
  <2> QED
    BY <1>1, <2>1, <2>2 DEF XCreateGC
<1>2. ASSUME NEW g \in GCs, XFreeGC(g)
      PROVE  ColourInv'
  BY <1>2 DEF XFreeGC
<1>3. ASSUME NEW g \in GCs, XChangeGC(g)
      PROVE  ColourInv'
  <2>1. PICK F \in SUBSET Attributes, new \in [Fields -> Values] :
          /\ val' = [val EXCEPT ![g] = Overlay(val[g], F, new)]
          /\ dirty' = [dirty EXCEPT ![g] = dirty[g] \cup F]
    BY <1>3 DEF XChangeGC
  <2>2. \A f \in Fields \ F : Overlay(val[g], F, new)[f] = val[g][f]
    BY DEF Overlay
  <2> QED
    BY <1>3, <2>1, <2>2 DEF XChangeGC
<1>4. ASSUME NEW g \in GCs, Set(g)
      PROVE  ColourInv'
  BY <1>4 DEF Set
<1>5. ASSUME NEW g \in GCs, SetClip(g) \/ XSetClipMaskNone(g)
      PROVE  ColourInv'
  <2>1. /\ live' = live /\ val' = val /\ gid' = gid /\ view' = view /\ exists' = exists
        /\ wrong' = wrong
        /\ dirty' = [dirty EXCEPT ![g] = dirty[g] \cup {"clip"}]
    BY <1>5 DEF SetClip, XSetClipMaskNone
  <2> QED
    BY <2>1
<1>6. ASSUME NEW g \in GCs, NEW d \in Drawables, Draw(g, d)
      PROVE  ColourInv'
  <2>1. \A f \in Fields \ {"font"} : Pushed(g, d)[f] = val[g][f]
    BY <1>6, DrawPushes DEF Draw
  <2>2. ColoursAreTheGCs'
    BY <1>6, <2>1, FieldsAssumption DEF Draw
  <2>3. gid'[g] = d /\ view'[d] = Pushed(g, d) /\ val' = val /\ live' = live /\ live \subseteq {g}
    BY <1>6 DEF Draw, OneGC
  <2> QED
    BY <2>1, <2>2, <2>3
<1>7. ASSUME NEW g \in GCs, NEW src \in GCs, XCopyGC(src, g)
      PROVE  ColourInv'
  <2>1. PICK F \in SUBSET Fields : /\ val' = [val EXCEPT ![g] = Overlay(val[g], F, val[src])]
                                   /\ dirty' = [dirty EXCEPT ![g] = dirty[g] \cup F]
    BY <1>7 DEF XCopyGC
  <2>2. \A f \in Fields \ F : Overlay(val[g], F, val[src])[f] = val[g][f]
    BY DEF Overlay
  <2> QED
    BY <1>7, <2>1, <2>2 DEF XCopyGC
<1>8. ASSUME NEW d \in Drawables, XClearArea(d)
      PROVE  ColourInv'
  BY <1>8 DEF XClearArea, OneGC
<1>9. ASSUME NEW d \in Drawables, Destroy(d)
      PROVE  ColourInv'
  BY <1>9 DEF Destroy
<1>10. CASE UNCHANGED vars
  BY <1>10 DEF vars
<1> QED
  BY <1>1, <1>2, <1>3, <1>4, <1>5, <1>6, <1>7, <1>8, <1>9, <1>10 DEF Next

(* With a single graphics context, drawing in any number of pixmaps, each  *)
(* call draws with the context's own colours.                              *)
THEOREM OneGCDrawsRight == ASSUME OneGC
                           PROVE  Spec => []ColoursAreTheGCs
<1>1. Init => ColourInv
  BY DEF Init, ColourInv, ColoursAreTheGCs
<1>2. TypeOK /\ LastGCIsOwned /\ ColourInv /\ [Next]_vars => ColourInv'
  BY OneGC, ColourStep
<1>3. ColourInv => ColoursAreTheGCs
  BY DEF ColourInv
<1> QED
  BY <1>1, <1>2, <1>3, TypeCorrect, LastGCNeverDangles, PTL DEF Spec
=============================================================================
