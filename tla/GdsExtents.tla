----------------------------- MODULE GdsExtents -----------------------------
(***************************************************************************)
(* tools/gdsdump.py and tools/bbox.py: the elements of a layout per layer, *)
(* and the box around the boundaries of each, in one pass over the records *)
(* of a stream.  What a record belongs to is known only from the records   *)
(* before it, and both programs remember it in variables that nothing      *)
(* resets.  The stream is a legal one; names and transformations are left  *)
(* out.                                                                    *)
(***************************************************************************)
EXTENDS Integers, Sequences, SequencesExt, FiniteSets, FiniteSetsExt

CONSTANTS Layers, Types,
          Xys,           \* sets of points [x, y] an element may have
          MAX_ELEMENTS   \* how many elements the stream may have

KINDS == {"BOUNDARY", "PATH", "SREF", "TEXT", "BOX"}  \* those the programs know

(* An element: LAYER and DATATYPE, TEXTTYPE or BOXTYPE when it is drawn,   *)
(* and XY.                                                                 *)
Placed(e) == e.kind \in {"SREF", "AREF"}
Typed(e) == e.kind \in {"BOUNDARY", "PATH"}
Elements ==
  [kind : KINDS \ {"SREF"}, layer : Layers, type : Types, xy : Xys]
    \cup [kind : {"SREF", "AREF"}, xy : Xys]

BIG == 9000  \* beyond every coordinate
Empty == [x0 |-> BIG, y0 |-> BIG, x1 |-> -BIG, y1 |-> -BIG]

VARIABLES stream,        \* the elements read, the last perhaps in part
          at,            \* the record that comes next, or "end"
          elem, cur, dt, \* the last kind, layer and type met
          counted,       \* gdsdump: (layer, type, kind) -> elements
          ext, allb      \* bbox: (layer, type) -> its box, and the box of all
vars == <<stream, at, elem, cur, dt, counted, ext, allb>>

Init ==
  /\ stream = <<>> /\ at = "element"
  /\ elem = "none" /\ cur = 0 /\ dt = 0
  /\ counted = [k \in Layers \X Types \X KINDS |-> 0]
  /\ ext = [k \in Layers \X Types |-> Empty] /\ allb = Empty

(* A mutant of Met: only a boundary is taken note of.                      *)
MetBoundaries(kind) == IF kind = "BOUNDARY" THEN kind ELSE elem

(* An array reference is not one of the kinds, and leaves the last one.    *)
Met(kind) == IF kind \in KINDS THEN kind ELSE elem

Start(e) ==
  /\ at = "element" /\ Len(stream) < MAX_ELEMENTS
  /\ stream' = Append(stream, e)
  /\ elem' = Met(e.kind)
  /\ at' = IF Placed(e) THEN "XY" ELSE "LAYER"
  /\ UNCHANGED <<cur, dt, counted, ext, allb>>

ReadLayer ==
  /\ at = "LAYER" /\ at' = "type"
  /\ cur' = Last(stream).layer
  /\ UNCHANGED <<stream, elem, dt, counted, ext, allb>>

(* The types of texts and of boxes are in records that are not looked at.  *)
ReadType ==
  /\ at = "type" /\ at' = "XY"
  /\ IF Typed(Last(stream))
     THEN /\ dt' = Last(stream).type
          /\ counted' = [counted EXCEPT ![<<cur, Last(stream).type, elem>>] = @ + 1]
     ELSE UNCHANGED <<dt, counted>>
  /\ UNCHANGED <<stream, elem, cur, ext, allb>>

Extended(box, xy) ==
  [x0 |-> Min({box.x0} \cup {p.x : p \in xy}), y0 |-> Min({box.y0} \cup {p.y : p \in xy}),
   x1 |-> Max({box.x1} \cup {p.x : p \in xy}), y1 |-> Max({box.y1} \cup {p.y : p \in xy})]

ReadXY ==
  /\ at = "XY" /\ at' = "element"
  /\ IF elem = "BOUNDARY"
     THEN /\ ext' = [ext EXCEPT ![<<cur, dt>>] = Extended(@, Last(stream).xy)]
          /\ allb' = Extended(allb, Last(stream).xy)
     ELSE UNCHANGED <<ext, allb>>
  /\ UNCHANGED <<stream, elem, cur, dt, counted>>

(* The end of the data, or the padding after the last record.              *)
Stop ==
  /\ at = "element" /\ at' = "end"
  /\ UNCHANGED <<stream, elem, cur, dt, counted, ext, allb>>

Next == (\E e \in Elements : Start(e)) \/ ReadLayer \/ ReadType \/ ReadXY \/ Stop
-----------------------------------------------------------------------------
On(layer, type, kind) ==
  {k \in DOMAIN stream : stream[k].kind = kind /\ stream[k].layer = layer /\ stream[k].type = type}
Points(ks) == UNION {stream[k].xy : k \in ks}

(* The box is the smallest with the points.                                *)
BoxOf(box, points) ==
  IF points = {} THEN box = Empty
  ELSE /\ \A p \in points : box.x0 <= p.x /\ p.x <= box.x1 /\ box.y0 <= p.y /\ p.y <= box.y1
       /\ \E p \in points : p.x = box.x0
       /\ \E p \in points : p.x = box.x1
       /\ \E p \in points : p.y = box.y0
       /\ \E p \in points : p.y = box.y1

(* Every boundary and path is counted once, on its own layer, and nothing  *)
(* else is; the box of a layer is the one around its boundaries, and no    *)
(* path, text or reference moves it, when the stream has no array.  The    *)
(* points of an array that follows a boundary are taken for points of its  *)
(* layer: then the boxes contain the boundaries, and may be too large.     *)
ExtentsAreBoundaries ==
  at = "end" =>
    /\ \A k \in DOMAIN counted :
         counted[k] = IF k[3] \in {"BOUNDARY", "PATH"} THEN Cardinality(On(k[1], k[2], k[3])) ELSE 0
    /\ \A k \in DOMAIN ext : \A p \in Points(On(k[1], k[2], "BOUNDARY")) :
         Extended(ext[k], {p}) = ext[k]
    /\ (\A k \in DOMAIN stream : stream[k].kind # "AREF") =>
         /\ \A k \in DOMAIN ext : BoxOf(ext[k], Points(On(k[1], k[2], "BOUNDARY")))
         /\ BoxOf(allb, Points({k \in DOMAIN stream : stream[k].kind = "BOUNDARY"}))
=============================================================================
