------------------------------- MODULE NcFile -------------------------------
(***************************************************************************)
(* A NetCDF file as the calls of the library leave it: cells is a function *)
(* from <<variable, frame, cell>> to values, for the cells written so far. *)
(***************************************************************************)
EXTENDS Grid, TLC

NoCells == <<>>

\* Element k of write w, the fill value of write w (or, if it gave none, the
\* library's), and what pads a block.
Value(w, k) == <<w, k>>
FillOf(w) == <<w, -1>>
DefaultFill == <<0, -1>>
Zero == <<0, -2>>
Junk == <<0, -3>>

(***************************************************************************)
(* PIOc_write_darray to a NetCDF file: every mapped element to its cell,   *)
(* the fill value to the cells without one.                                *)
(***************************************************************************)
WriteArrays(cells, v, frame, ncells, map, array, fill) ==
  LET mapped == {x \in UNION {{<<p, i>> : i \in DOMAIN map[p]} : p \in DOMAIN map} :
                   map[x[1]][x[2]] > 0}
      At(c) == {x \in mapped : map[x[1]][x[2]] = c + 1}
  IN  [key \in {<<v, frame, c>> : c \in 0..ncells - 1} |->
         IF At(key[3]) = {} THEN fill
         ELSE LET x == CHOOSE x \in At(key[3]) : TRUE IN array[x[1]][x[2]]] @@ cells

\* PIOc_put_vara to the block [start, count] of a variable with dimensions dims.
\* The first dimension counts the frames if it is unlimited (length 0).
PutBlock(cells, v, dims, start, count, data) ==
  LET timed == dims[1] = 0
      frames == IF timed THEN start[1]..start[1] + count[1] - 1 ELSE {0}
      inner == IF timed THEN Tail(dims) ELSE dims
      from == IF timed THEN Tail(start) ELSE start
      shape == IF timed THEN Tail(count) ELSE count
      at == BlockCells(inner, from, shape)
      size == GridSize(shape)
      first == IF timed THEN start[1] ELSE 0
  IN  [key \in {<<v, f, at[k]>> : f \in frames, k \in 1..size} |->
         data[(key[2] - first) * size + (CHOOSE k \in 1..size : at[k] = key[3])]] @@ cells
=============================================================================
