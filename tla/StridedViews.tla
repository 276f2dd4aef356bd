---------------------------- MODULE StridedViews ----------------------------
(***************************************************************************)
(* Views of a tensor (xn-core/src/tensor_view.rs): dimensions, strides and *)
(* a start offset over a shared storage. Operations on a view compute new  *)
(* ones and copy nothing, except contiguous and, where no strides will do, *)
(* reshape. Elements of the storage are told apart by a number each.       *)
(***************************************************************************)
EXTENDS Integers, Sequences, SequencesExt, Shape

CONSTANTS
  Shapes,         (* shapes of the tensor that is viewed                   *)
  Targets,        (* shapes that views are reshaped and broadcast to       *)
  ExpandAnyDim,   (* whether expand_dim is called on any dimension, or     *)
                  (* only on those with a stride of 1                      *)
  MaxElems,       (* bound on the elements of a view                       *)
  MaxSteps        (* bound on the operations                               *)

None == <<-1>>

VARIABLES
  dims, strides, start_offset,
  data,           (* the storage: which element each place holds           *)
  shown,          (* the elements the view stands for, row by row          *)
  overflowed,     (* reshape has called itself without end                 *)
  steps

vars == <<dims, strides, start_offset, data, shown, overflowed, steps>>

-----------------------------------------------------------------------------
copy_strided(src, o, d, s) ==
  [k \in 1 .. elem_count(d) |-> src[1 + o + Offset(Index(d, k - 1), s)]]

Replace(s, i, j, t) == SubSeq(s, 1, i - 1) \o t \o SubSeq(s, j + 1, Len(s))

(* One dimension more, stated on those already kept: merged into the last  *)
(* where the strides allow, dropped where its size is 1.                   *)
CoalescedAnyStride(acc, d, s) ==
  LET n == Len(acc.dims)
  IN IF d = 1 THEN acc
     ELSE IF n > 0 /\ acc.strides[n] >= d * s
     THEN [dims |-> [acc.dims EXCEPT ![n] = @ * d], strides |-> [acc.strides EXCEPT ![n] = s]]
     ELSE [dims |-> Append(acc.dims, d), strides |-> Append(acc.strides, s)]

Coalesced(acc, d, s) ==
  LET n == Len(acc.dims)
  IN IF d = 1 THEN acc
     ELSE IF n > 0 /\ acc.strides[n] = d * s
     THEN [dims |-> [acc.dims EXCEPT ![n] = @ * d], strides |-> [acc.strides EXCEPT ![n] = s]]
     ELSE [dims |-> Append(acc.dims, d), strides |-> Append(acc.strides, s)]

coalesce_dims(d, s) ==
  LET c == FoldLeft(LAMBDA acc, i : Coalesced(acc, d[i], s[i]),
                    [dims |-> <<>>, strides |-> <<>>], [i \in DOMAIN d |-> i])
  IN IF c.dims = <<>> THEN [dims |-> <<1>>, strides |-> <<1>>] ELSE c

(* The first place where two shapes differ, 0 if one is a prefix of the other. *)
FirstDifference(d, e) ==
  LET diff == {i \in DOMAIN d \cap DOMAIN e : d[i] # e[i]}
  IN IF diff = {} THEN 0 ELSE CHOOSE i \in diff : \A j \in diff : i <= j

Split(d, s, e) ==
  LET i == FirstDifference(d, e)
  IN IF i > 0 /\ e = Replace(d, i, i, SubSeq(e, i, i + 1)) /\ d[i] = e[i] * e[i + 1]
     THEN Replace(s, i, i, <<e[i + 1] * s[i], s[i]>>)
     ELSE None

Merge(d, s, e) ==
  LET i == FirstDifference(d, e)
  IN IF /\ i > 0 /\ e = Replace(d, i, i + 1, <<e[i]>>)
        /\ e[i] = d[i] * d[i + 1] /\ s[i] = d[i + 1] * s[i + 1]
     THEN Replace(s, i, i + 1, <<s[i + 1]>>)
     ELSE None

reshape_strides(d, s, e) ==
  IF Len(e) = Len(d) + 1 THEN Split(d, s, e)
  ELSE IF Len(e) + 1 = Len(d) THEN Merge(d, s, e)
  ELSE None

-----------------------------------------------------------------------------
TypeOK ==
  /\ Len(strides) = Len(dims)
  /\ \A i \in DOMAIN dims : dims[i] \in 1 .. MaxElems /\ strides[i] \in Nat
  /\ start_offset \in Nat
  /\ Len(shown) = elem_count(dims)
  /\ \A k \in DOMAIN shown : shown[k] \in 1 .. MaxElems
  /\ overflowed \in BOOLEAN /\ steps \in 0 .. MaxSteps

(* TensorView::from(&tensor)                                               *)
Init ==
  /\ dims \in Shapes /\ strides = stride_contiguous(dims) /\ start_offset = 0
  /\ data = [k \in 1 .. elem_count(dims) |-> k]
  /\ shown = data
  /\ overflowed = FALSE /\ steps = 0

Step == steps < MaxSteps /\ ~overflowed /\ steps' = steps + 1

(* The view takes dimensions d, strides s and offset o over the same       *)
(* storage, and stands for the elements at At(idx) of the view before.     *)
View(d, s, o, At(_)) ==
  /\ Step
  /\ elem_count(d) <= MaxElems
  /\ dims' = d /\ strides' = s /\ start_offset' = o
  /\ shown' = [k \in 1 .. elem_count(d) |->
                 shown[1 + Offset(At(Index(d, k - 1)), stride_contiguous(dims))]]
  /\ UNCHANGED <<data, overflowed>>

(* As View, with the elements in the order they are in.                    *)
Regroup(d, s) ==
  /\ Step
  /\ dims' = d /\ strides' = s
  /\ UNCHANGED <<start_offset, data, shown, overflowed>>

narrow(dim, start, len) ==
  /\ start + len <= dims[dim]
  /\ View([dims EXCEPT ![dim] = len], strides, start_offset + strides[dim] * start,
          LAMBDA idx : [idx EXCEPT ![dim] = @ + start])

Swapped(s, i, j) == [s EXCEPT ![i] = s[j], ![j] = s[i]]

transpose(dim1, dim2) ==
  View(Swapped(dims, dim1, dim2), Swapped(strides, dim1, dim2), start_offset,
       LAMBDA idx : Swapped(idx, dim1, dim2))

permute(idxs) ==
  View([i \in DOMAIN dims |-> dims[idxs[i]]], [i \in DOMAIN dims |-> strides[idxs[i]]],
       start_offset,
       LAMBDA idx : [j \in DOMAIN dims |-> idx[CHOOSE i \in DOMAIN idxs : idxs[i] = j]])

expand(shape) ==
  /\ Len(shape) = Len(dims)
  /\ \A i \in DOMAIN dims : shape[i] = dims[i] \/ dims[i] = 1
  /\ View(shape, [i \in DOMAIN dims |-> IF shape[i] = dims[i] THEN strides[i] ELSE 0],
          start_offset, LAMBDA idx : [i \in DOMAIN dims |-> IF dims[i] = 1 THEN 0 ELSE idx[i]])

broadcast_as(shape) ==
  LET new == Len(shape) - Len(dims)
  IN /\ new >= 0
     /\ \A i \in DOMAIN dims : shape[i + new] = dims[i] \/ dims[i] = 1
     /\ View(shape,
             [i \in DOMAIN shape |->
                IF i > new /\ dims[i - new] = shape[i] THEN strides[i - new] ELSE 0],
             start_offset,
             LAMBDA idx : [i \in DOMAIN dims |-> IF dims[i] = 1 THEN 0 ELSE idx[i + new]])

flatten(d1, d2) ==
  /\ d1 <= d2
  /\ \A i \in d1 .. d2 - 1 : strides[i + 1] * dims[i + 1] = strides[i]
  /\ Regroup(Replace(dims, d1, d2, <<elem_count(SubSeq(dims, d1, d2))>>),
             Replace(strides, d1, d2, <<strides[d2]>>))

(* The new dimensions get strides as if dimension d had a stride of 1.     *)
expand_dim(d, s) ==
  /\ elem_count(s) = dims[d]
  /\ ExpandAnyDim \/ strides[d] = 1
  /\ Regroup(Replace(dims, d, d, s), Replace(strides, d, d, stride_contiguous(s)))

(* What contiguous returns: the storage itself if the view is all of it.   *)
Contiguous ==
  IF is_contiguous(dims, strides) /\ start_offset = 0 /\ Len(data) = elem_count(dims)
  THEN data
  ELSE LET c == coalesce_dims(dims, strides)
       IN copy_strided(data, start_offset, c.dims, c.strides)

contiguous ==
  /\ Step
  /\ data' = Contiguous /\ start_offset' = 0 /\ strides' = stride_contiguous(dims)
  /\ UNCHANGED <<dims, shown, overflowed>>

(* Strides for the new shape, over a contiguous copy where there are none; *)
(* where that has none either, the same call is made of the copy again.    *)
reshape(shape) ==
  /\ elem_count(shape) = elem_count(dims)
  /\ LET s == reshape_strides(dims, strides, shape)
         t == reshape_strides(dims, stride_contiguous(dims), shape)
     IN \/ s # None /\ Regroup(shape, s)
        \/ /\ s = None /\ t # None
           /\ Step
           /\ dims' = shape /\ strides' = t /\ start_offset' = 0 /\ data' = Contiguous
           /\ UNCHANGED <<shown, overflowed>>
        \/ /\ s = None /\ t = None
           /\ Step
           /\ overflowed' = TRUE
           /\ UNCHANGED <<dims, strides, start_offset, data, shown>>

Next ==
  \/ \E dim \in DOMAIN dims : \E start \in 0 .. dims[dim] - 1, len \in 1 .. dims[dim] :
       narrow(dim, start, len)
  \/ \E dim1, dim2 \in DOMAIN dims : transpose(dim1, dim2)
  \/ \E idxs \in {f \in [DOMAIN dims -> DOMAIN dims] : IsInjective(f)} : permute(idxs)
  \/ \E shape \in Targets : expand(shape) \/ broadcast_as(shape) \/ reshape(shape)
  \/ \E d1, d2 \in DOMAIN dims : flatten(d1, d2)
  \/ \E d \in DOMAIN dims, shape \in Targets : expand_dim(d, shape)
  \/ contiguous

Spec == Init /\ [][Next]_vars

-----------------------------------------------------------------------------
(* Properties                                                              *)

(* However a view was derived, it reads the elements that the operations   *)
(* on it select, each at its index, and no place outside the storage.      *)
ViewShowsSelected == copy_strided(data, start_offset, dims, strides) = shown

=============================================================================
