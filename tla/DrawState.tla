------------------------------ MODULE DrawState ------------------------------
(***************************************************************************)
(* Graphics contexts and the drawing state of the views they draw in       *)
(* (xlib/GC.cpp, DrawStateManager in xlib/Drawing.cpp).                    *)
(*                                                                         *)
(* An X drawing call names the GC whose values it uses.  A Haiku view      *)
(* keeps such values itself, so xlibe pushes into the view what changed:   *)
(* each GC has a set of dirty attributes and the id of the drawable it was *)
(* last used on, and each drawable remembers a GC to compare the next with.*)
(*                                                                         *)
(* A drawing call holds the looper lock of the view from _x_check_gc to    *)
(* the end, and is one action.                                             *)
(***************************************************************************)
EXTENDS Integers

CONSTANTS
  GCs,           \* addresses of graphics contexts
  Drawables,     \* ids of windows and pixmaps
  Windows,       \* those that XClearArea may be called on
  Fields,        \* the attributes told apart, of "foreground", "background", "font"
  Values,        \* what they may be set to, besides 0
  Regions,       \* the non-empty clip regions
  NoGC, NoDrawable,
  GarbageIds     \* what the gid of a new _XGC may be: XCreateGC does not set it

ASSUME FieldsAssumption == Fields \subseteq {"foreground", "background", "font"}
ASSUME ValuesAssumption == 0 \in Values
ASSUME DrawablesAssumption ==
  Windows \subseteq Drawables /\ NoDrawable \notin Drawables /\ NoGC \notin GCs
ASSUME GarbageAssumption == GarbageIds # {} /\ GarbageIds \subseteq Drawables \cup {NoDrawable}
ASSUME RegionsAssumption == Regions \cap {"null", "empty"} = {}

VARIABLES
  live,          \* the GCs that are allocated
  val,           \* gc->values, the Fields of it
  mask,          \* gc->values.clip_mask: null, or the region it points to
  dirty,         \* gc->dirty
  gid,           \* gc->gid
  exists,        \* the drawables in the registry
  lastGC,        \* drawable->last_gc
  view,          \* the values the drawable's view draws with
  viewClip,      \* the region it is clipped to, "null" if none
  wrong          \* history: what the last drawing call took from the view
                 \* that is not its GC's

vars == <<live, val, mask, dirty, gid, exists, lastGC, view, viewClip, wrong>>
gcs == <<live, val, mask, dirty, gid>>
views == <<lastGC, view, viewClip>>

-----------------------------------------------------------------------------
Attributes == Fields \cup {"clip"}
Masks == {"null", "empty"} \cup Regions

Defaults == [f \in Fields |-> 0]

TypeOK ==
  /\ live \subseteq GCs
  /\ val \in [GCs -> [Fields -> Values]]
  /\ mask \in [GCs -> Masks]
  /\ dirty \in [GCs -> SUBSET Attributes]
  /\ gid \in [GCs -> Drawables \cup {NoDrawable}]
  /\ \A g \in GCs \ live : val[g] = Defaults /\ mask[g] = "null" /\ dirty[g] = {}
  /\ exists \subseteq Drawables
  /\ lastGC \in [Drawables -> GCs \cup {NoGC}]
  /\ view \in [Drawables -> [Fields -> Values]]
  /\ viewClip \in [Drawables -> {"null"} \cup Regions]
  /\ wrong \subseteq Attributes

Init ==
  /\ live = {}
  /\ val = [g \in GCs |-> Defaults]
  /\ mask = [g \in GCs |-> "null"]
  /\ dirty = [g \in GCs |-> {}]
  /\ gid = [g \in GCs |-> NoDrawable]
  /\ exists = Drawables
  /\ lastGC = [d \in Drawables |-> NoGC]
  /\ view = [d \in Drawables |-> Defaults]
  /\ viewClip = [d \in Drawables |-> "null"]
  /\ wrong = {}

-----------------------------------------------------------------------------
(* The values after those in F are taken from new.                         *)
Overlay(old, F, new) == [f \in Fields |-> IF f \in F THEN new[f] ELSE old[f]]

(* What XChangeGC may make of a clip mask m.  If F has "clip", it calls    *)
(* XSetClipMask: a pixmap is a region, None empties the one there is.      *)
ClipMasks(m, F) ==
  IF "clip" \in F THEN {IF m = "null" THEN "null" ELSE "empty"} \cup Regions ELSE {m}

(* XCreateGC: the defaults, changed by XChangeGC with the caller's mask.   *)
XCreateGC(g) ==
  /\ g \notin live
  /\ live' = live \cup {g}
  /\ \E F \in SUBSET Attributes, new \in [Fields -> Values] :
       /\ val' = [val EXCEPT ![g] = Overlay(Defaults, F, new)]
       /\ \E m \in ClipMasks("null", F) : mask' = [mask EXCEPT ![g] = m]
       /\ dirty' = [dirty EXCEPT ![g] = F]
  /\ \E id \in GarbageIds : gid' = [gid EXCEPT ![g] = id]
  /\ UNCHANGED <<exists, views, wrong>>

(* The drawable that remembers g, if the registry still has it, forgets it.*)
Forget(g) == [d \in Drawables |-> IF d \in exists /\ d = gid[g] /\ lastGC[d] = g
                                  THEN NoGC ELSE lastGC[d]]

(* Mutant: the drawable keeps pointing to the freed GC.                    *)
XFreeGCRemembered(g) ==
  /\ g \in live
  /\ live' = live \ {g}
  /\ val' = [val EXCEPT ![g] = Defaults]
  /\ mask' = [mask EXCEPT ![g] = "null"]
  /\ dirty' = [dirty EXCEPT ![g] = {}]
  /\ UNCHANGED <<gid, exists, views, wrong>>

(* XFreeGC.  Freed memory keeps no value that is looked at again.          *)
XFreeGC(g) ==
  /\ g \in live
  /\ lastGC' = Forget(g)
  /\ live' = live \ {g}
  /\ val' = [val EXCEPT ![g] = Defaults]
  /\ mask' = [mask EXCEPT ![g] = "null"]
  /\ dirty' = [dirty EXCEPT ![g] = {}]
  /\ UNCHANGED <<gid, exists, view, viewClip, wrong>>

(* XChangeGC.                                                              *)
XChangeGC(g) ==
  /\ g \in live
  /\ \E F \in SUBSET Attributes, new \in [Fields -> Values] :
       /\ val' = [val EXCEPT ![g] = Overlay(@, F, new)]
       /\ \E m \in ClipMasks(mask[g], F) : mask' = [mask EXCEPT ![g] = m]
       /\ dirty' = [dirty EXCEPT ![g] = @ \cup F]
  /\ UNCHANGED <<live, gid, exists, views, wrong>>

(* XSetForeground, XSetBackground, XSetFont and the setters like them.     *)
Set(g) ==
  /\ g \in live
  /\ \E f \in Fields, v \in Values :
       /\ val' = [val EXCEPT ![g][f] = v]
       /\ dirty' = [dirty EXCEPT ![g] = @ \cup {f}]
  /\ UNCHANGED <<live, mask, gid, exists, views, wrong>>

(* XCopyGC.  XChangeGC returns 0, which XCopyGC takes for a failure, so it *)
(* returns before it would copy the clip mask.                             *)
XCopyGC(src, dest) ==
  /\ {src, dest} \subseteq live
  /\ \E F \in SUBSET Fields :
       /\ val' = [val EXCEPT ![dest] = Overlay(@, F, val[src])]
       /\ dirty' = [dirty EXCEPT ![dest] = @ \cup F]
  /\ UNCHANGED <<live, mask, gid, exists, views, wrong>>

(* XSetRegion, XSetClipRectangles, XSetClipMask with a pixmap: some        *)
(* region, which may have no rectangles.                                   *)
SetClip(g) ==
  /\ g \in live
  /\ \E region \in {"empty"} \cup Regions : mask' = [mask EXCEPT ![g] = region]
  /\ dirty' = [dirty EXCEPT ![g] = @ \cup {"clip"}]
  /\ UNCHANGED <<live, val, gid, exists, views, wrong>>

(* XSetClipMask(None): nothing to do unless there is a mask to empty.      *)
XSetClipMaskNone(g) ==
  /\ g \in live
  /\ mask[g] # "null"
  /\ mask' = [mask EXCEPT ![g] = "empty"]
  /\ dirty' = [dirty EXCEPT ![g] = @ \cup {"clip"}]
  /\ UNCHANGED <<live, val, gid, exists, views, wrong>>

-----------------------------------------------------------------------------
(* _x_compare_gcs.  Two clip masks are compared as pointers, and no two    *)
(* GCs share one.                                                          *)
Compare(g, h) ==
  CASE g = h -> {}
    [] h = NoGC -> Attributes
    [] OTHER -> {f \in Fields : val[g][f] # val[h][f]}
                  \cup IF mask[g] = "null" /\ mask[h] = "null" THEN {} ELSE {"clip"}

(* What _x_check_gc finds dirty when g is about to draw in d.              *)
DirtyIn(g, d) ==
  IF gid[g] # d /\ lastGC[d] # g THEN Compare(g, lastGC[d]) ELSE dirty[g]

(* _x_check_gc pushes the dirty values, but never the null font...         *)
Pushed(g, d) ==
  [f \in Fields |->
     IF f \in DirtyIn(g, d) /\ ~(f = "font" /\ val[g][f] = 0) THEN val[g][f] ELSE view[d][f]]

(* ...and the clip region, if it has rectangles.                           *)
ClipOf(g) == IF mask[g] \in Regions THEN mask[g] ELSE "null"
PushedClip(g, d) == IF "clip" \in DirtyIn(g, d) THEN ClipOf(g) ELSE viewClip[d]

(* Mutant: the clip is undone after drawing but not marked dirty again.    *)
DrawUnclipsOnce(g, d) ==
  /\ g \in live /\ d \in exists
  /\ gid' = [gid EXCEPT ![g] = d]
  /\ lastGC' = IF DirtyIn(g, d) = {} THEN [Forget(g) EXCEPT ![d] = lastGC[d]]
                                     ELSE [Forget(g) EXCEPT ![d] = g]
  /\ view' = [view EXCEPT ![d] = Pushed(g, d)]
  /\ viewClip' = [viewClip EXCEPT ![d] = "null"]
  /\ dirty' = [dirty EXCEPT ![g] = {}]
  /\ wrong' = {f \in Fields : Pushed(g, d)[f] # val[g][f]}
                \cup IF PushedClip(g, d) # ClipOf(g) THEN {"clip"} ELSE {}
  /\ UNCHANGED <<live, val, mask, exists>>

(* A drawing call: the DrawStateManager locks the looper and calls         *)
(* _x_check_gc, the call draws, and the destructor undoes the clip.  A GC  *)
(* that stays on its drawable is not compared with the one that drew there *)
(* last, and one that is not dirty does not become the drawable's last.    *)
Draw(g, d) ==
  /\ g \in live /\ d \in exists
  /\ gid' = [gid EXCEPT ![g] = d]
  /\ lastGC' = LET forgotten == IF gid[g] = d THEN lastGC ELSE Forget(g)
               IN IF DirtyIn(g, d) = {} THEN forgotten ELSE [forgotten EXCEPT ![d] = g]
  /\ view' = [view EXCEPT ![d] = Pushed(g, d)]
  /\ IF mask[g] \in Regions
       THEN /\ viewClip' = [viewClip EXCEPT ![d] = "null"]
            /\ dirty' = [dirty EXCEPT ![g] = {"clip"}]
       ELSE /\ viewClip' = [viewClip EXCEPT ![d] = PushedClip(g, d)]
            /\ dirty' = [dirty EXCEPT ![g] = {}]
  /\ wrong' = {f \in Fields : Pushed(g, d)[f] # val[g][f]}
                \cup IF PushedClip(g, d) # ClipOf(g) THEN {"clip"} ELSE {}
  /\ UNCHANGED <<live, val, mask, exists>>

(* XClearArea without exposures: the background (0 here) is put into the   *)
(* view, and the drawable forgets its GC.                                  *)
XClearArea(d) ==
  /\ d \in exists \cap Windows
  /\ "background" \in Fields
  /\ view[d]["background"] # 0
  /\ view' = [view EXCEPT ![d]["background"] = 0]
  /\ lastGC' = [lastGC EXCEPT ![d] = NoGC]
  /\ UNCHANGED <<gcs, exists, viewClip, wrong>>

(* ~XDrawable: the id leaves the registry and is not used again.           *)
Destroy(d) ==
  /\ d \in exists
  /\ exists' = exists \ {d}
  /\ UNCHANGED <<gcs, views, wrong>>

-----------------------------------------------------------------------------
Next ==
  \/ \E g \in GCs :
       \/ XCreateGC(g) \/ XFreeGC(g) \/ XChangeGC(g) \/ Set(g)
       \/ SetClip(g) \/ XSetClipMaskNone(g)
       \/ \E d \in Drawables : Draw(g, d)
       \/ \E src \in GCs : XCopyGC(src, g)
  \/ \E d \in Drawables : XClearArea(d) \/ Destroy(d)

Spec == Init /\ [][Next]_vars

-----------------------------------------------------------------------------
(* Every drawing call is clipped to its own GC's region and to nothing     *)
(* else, however GCs with and without a clip take turns on a drawable.     *)
(* DrawStateManager's destructor undoes each clip and marks it dirty.      *)
ClipIsTheGCs == "clip" \notin wrong

(* last_gc never dangles: it is a GC that is still allocated, and whose    *)
(* gid leads XFreeGC back to the drawable.                                 *)
LastGCIsOwned ==
  \A d \in exists : lastGC[d] # NoGC => lastGC[d] \in live /\ gid[lastGC[d]] = d

(* A drawing call uses the colours and line attributes of its GC.  (The    *)
(* font apart: a GC without one draws with what the view has.)             *)
ColoursAreTheGCs == wrong \cap (Fields \ {"font"}) = {}
=============================================================================
