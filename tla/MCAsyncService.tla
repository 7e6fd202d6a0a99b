--------------------------- MODULE MCAsyncService ---------------------------
(* Instances of AsyncService for TLC: one component and two I/O processes with *)
(* every call of ServiceCalls in turn, a component of two processes with calls *)
(* in sequence, and two components that create, open, use and close files at   *)
(* the same time.                                                              *)
EXTENDS AsyncService

CONSTANTS atm, ocn

MCComponents == {atm, ocn}
MCProcs == 0..4

\* The I/O systems: one component of PIOc_init_async, of one or two processes, with the
\* lists of processes that are used when none are given; one or two components of
\* PIOc_init_intercomm with communicators of processes from anywhere.
AsyncSystem(nio, ncomp) ==
  LET io == io_proc_list(<<>>, nio)
      comp == proc_list(<<>>, nio, ncomp)
      made == init_async(nio + ncomp, io, comp)
  IN (atm :> [p \in MCProcs |-> IF p \in DOMAIN made THEN made[p] ELSE Cleared])
       @@ (ocn :> [p \in MCProcs |-> Cleared])
IntercommSystem(atmComm, ocnComm, io) ==
  LET made == init_intercomm(5, <<atmComm, ocnComm>>, io)
  IN (atm :> made[1]) @@ (ocn :> made[2])
IntercommAlone(comm, io) ==
  (atm :> init_intercomm(5, <<comm>>, io)[1]) @@ (ocn :> [p \in MCProcs |-> Cleared])
MCSystems ==
  <<SystemOf(AsyncSystem(2, 1)), SystemOf(AsyncSystem(2, 2)),
    SystemOf(IntercommAlone(<<4, 0>>, <<3, 1>>)),
    SystemOf(IntercommSystem(<<2>>, <<4, 0>>, <<3, 1>>))>>

ASSUME \A n \in 1..2 :
  ValidAsync(2, 1) /\ AsyncConnects(io_proc_list(<<>>, 2), proc_list(<<>>, 2, n))

\* Outcomes: which outputs are not asked for, the numbers of dimensions, which of
\* the first inquiries fail, the choices particular to the call.
Outcomes(nulls, dims, failing, alts) ==
  {[Success EXCEPT !.null = n, !.ndims = d, !.failing = f, !.alt = a, !.err = e] :
     n \in nulls, d \in dims, f \in failing, a \in alts, e \in BOOLEAN}
    \ {[Success EXCEPT !.null = n, !.ndims = d, !.failing = f, !.alt = a, !.err = TRUE] :
         n \in nulls, d \in dims, f \in failing \ {0}, a \in alts}
Plain == Outcomes({{}}, {0}, {0}, {FALSE})
AllOrNone(names) == Outcomes({{}, names}, {0}, {0}, {FALSE})
Some(names) == AllOrNone(names) \cup Outcomes({{n} : n \in names}, {0}, {0}, {FALSE})
OrHdf5(os) == os \cup {[o EXCEPT !.hdf5 = TRUE] : o \in {x \in os : ~x.err}}
OrFlush(os) == os \cup {[o EXCEPT !.flush = TRUE] : o \in {x \in os : x.failing = 0}}
OrKnown(os) == os \cup {[o EXCEPT !.known = TRUE] : o \in {x \in os : x.ndims > 0}}
OrAlt(os) == os \cup {[o EXCEPT !.alt = TRUE] : o \in {x \in os : x.failing = 0}}
Failing(failing) == Outcomes({{}}, {0}, failing, {FALSE})
Whole(failing) == Outcomes({{}}, {0, 1}, failing, {FALSE})
Vars(failing) == OrKnown(Whole({0})) \cup OrAlt(Failing(failing))

\* The typed calls: those of the types that are not all passed on alike.
OrTyped(os) ==
  os \cup {[o EXCEPT !.type = t] : o \in {x \in os : x.failing = 0}, t \in {"long", "ulonglong"}}
TypedVars(failing) == OrKnown(Whole({0})) \cup OrTyped(Failing(failing))

Of(Script(_, _), os) ==
  FoldSet(LAMBDA o, all : Append(all, [o |-> o, steps |-> Script("comp", o)]), <<>>, os)

\* The calls that are made while a file is open.
OpenFileCalls == FlattenSeq(<<
  Of(inq, OrHdf5(AllOrNone({"ndims", "nvars", "ngatts", "unlimdimid"}))),
  Of(inq_ndims, OrHdf5(Plain)), Of(inq_nvars, OrHdf5(Plain)), Of(inq_natts, OrHdf5(Plain)),
  Of(inq_unlimdim, OrHdf5(Plain)),
  Of(inq_unlimdims, Some({"nunlimdims", "unlimdimids"})), Of(inq_type, OrHdf5(Some({"name", "size"}))),
  Of(inq_format, Some({"format"})), Of(inq_dim, OrHdf5(AllOrNone({"name", "len"}))),
  Of(inq_dimname, OrHdf5(Plain)), Of(inq_dimlen, OrHdf5(Plain)),
  Of(inq_dimid, OrHdf5(Plain)),
  Of(inq_var, OrHdf5(OrKnown(AllOrNone({"xtype", "ndims", "dimids", "natts"}) \cup Vars({0})))),
  Of(inq_varname, OrHdf5(Plain)), Of(inq_vartype, OrHdf5(Plain)), Of(inq_varnatts, OrHdf5(Plain)),
  Of(inq_varndims, OrHdf5(OrKnown(Whole({0})))), Of(inq_vardimid, OrHdf5(Plain)),
  Of(inq_varid, OrHdf5(Plain)), Of(inq_att, OrHdf5(AllOrNone({"xtype", "len"}))),
  Of(inq_attlen, OrHdf5(Plain)), Of(inq_atttype, OrHdf5(Plain)),
  Of(inq_attname, OrHdf5(Some({"name"}))), Of(inq_attid, OrHdf5(Some({"id"}))),
  Of(rename_dim, Plain), Of(rename_var, Plain), Of(rename_att, Plain), Of(del_att, Plain),
  Of(copy_att, Plain), Of(enddef, Plain), Of(redef, Plain), Of(def_dim, Plain),
  Of(set_fill, OrHdf5(Some({"old_mode"}))), Of(def_var, Outcomes({{}}, {1, 3}, 0..2, BOOLEAN)),
  Of(def_var_fill, OrHdf5(Failing(0..2))),
  Of(inq_var_fill, OrHdf5(Some({"no_fill", "fill_value"}) \cup Failing(1..2))),
  Of(def_var_deflate, Plain), Of(def_var_endian, Plain), Of(set_chunk_cache, Plain),
  Of(set_var_chunk_cache, Plain), Of(inq_var_deflate, Plain), Of(get_chunk_cache, Plain),
  Of(get_var_chunk_cache, Plain), Of(inq_var_endian, Some({"endian"})),
  Of(def_var_chunking, Vars(0..1)),
  Of(inq_var_chunking, Some({"storage", "chunksizes"}) \cup Vars(0..1)),
  Of(PIOc_put_att, OrHdf5(OrTyped(Failing(0..2)))), Of(PIOc_get_att, OrTyped(Failing(0..4))),
  Of(PIOc_get_vars, TypedVars(0..3)), Of(PIOc_get_vara, OrTyped(Failing({0}))),
  Of(PIOc_put_vars, OrHdf5(TypedVars(0..3))), Of(PIOc_put_vara, OrTyped(Failing({0}))),
  Of(PIOc_get_var1, OrTyped(Whole({0}))), Of(PIOc_put_var1, OrTyped(Whole({0}))),
  Of(PIOc_get_var, OrTyped(Whole({0, 3}))), Of(PIOc_put_var, OrTyped(Whole({0, 3}))),
  Of(write_darray_multi, OrHdf5(Vars(0..1))),
  Of(write_darray, OrHdf5(OrFlush(Plain) \cup Outcomes({{}}, {0}, 0..3, {TRUE}))),
  Of(sync_file, Plain), Of(deletefile, Plain), Of(setframe, Plain), Of(advanceframe, Plain),
  Of(initdecomp, Outcomes({{}}, {0}, {0}, BOOLEAN)), Of(freedecomp, Plain),
  Of(closefile, Outcomes({{}}, {0}, {0}, BOOLEAN))>>)

Call(steps, slot) == [script |-> steps, slot |-> slot]
FinalizeCall == Call(PIOc_finalize("comp", Success), 0)

\* One call of one component, the short ones with every error handler.  An error aborts the
\* program under PIO_INTERNAL_ERROR.
MayReturn(c, h) == h = "internal" => ~c.o.err /\ c.o.failing = 0
OneCall(calls, h) ==
  LET may == SelectSeq(calls, LAMBDA c : MayReturn(c, h))
  IN [i \in DOMAIN may |->
        [calls |-> (atm :> <<Call(may[i].steps, 1), FinalizeCall>>) @@ (ocn :> <<>>),
         open |-> TRUE, handler |-> h, system |-> 1]]

\* PIOc_read_darray is correct with PIO_INTERNAL_ERROR only.
ReadCalls == Of(read_darray, Vars(0..3))
OneCallPrograms ==
  OneCall(OpenFileCalls \o ReadCalls, "internal")
    \o OneCall(SelectSeq(OpenFileCalls, LAMBDA c : c.o.type # "ulonglong"), "bcast")
    \o OneCall(SelectSeq(OpenFileCalls, LAMBDA c : Len(c.steps) <= 6), "reduce")

\* Several calls: files are created, opened, closed, and the handler is changed.
Err == [Success EXCEPT !.err = TRUE]
Opened(alt, failing) == [Success EXCEPT !.alt = alt, !.ndims = 1, !.failing = failing]
Method(h) == [Success EXCEPT !.method = h]
Create(o) == Call(createfile("comp", o), 0)
Open(o) == Call(openfile_retry("comp", o), 0)
Close(slot) == Call(closefile("comp", [Success EXCEPT !.alt = TRUE]), slot)
Ask(o, slot) == Call(inq_format("comp", o), slot)
Frame(slot) == Call(setframe("comp", Success), slot)
Write(slot) == Call(write_darray("comp", [Success EXCEPT !.flush = TRUE]), slot)
SetHandler(h) == Call(set_iosystem_error_handling("comp", Method(h)), 0)

OneComponent == <<
  <<SetHandler("internal"), Create(Success), Frame(1), Write(1), Create(Success), Close(1),
    Ask(Success, 2), Ask(Success, 1)>>,
  <<SetHandler("reduce"), Ask(Err, 1), Create(Err), Create(Success), SetHandler("bcast"),
    Close(1), Frame(1)>>,
  <<SetHandler("bcast"), Open(Opened(TRUE, 0)), Ask(Err, 1), Open(Opened(FALSE, 2)), Ask(Success, 2)>>,
  <<Open(Opened(FALSE, 0)), SetHandler("reduce"), Close(1), Open(Opened(TRUE, 1)), Frame(1),
    Create(Success), Frame(2), Open(Err)>>>>
TwoComponents == <<
  <<<<Create(Success), Frame(1)>>, <<Create(Success), Create(Success), Frame(2)>>>>>>

Sequences(x, y, h, made) ==
  [calls |-> (atm :> x) @@ (ocn :> y), open |-> FALSE, handler |-> h, system |-> made]
SeveralCalls ==
  [i \in DOMAIN OneComponent |->
     Sequences(Append(OneComponent[i], FinalizeCall), <<>>, "bcast", 2 + (i % 2))]
    \o [i \in DOMAIN TwoComponents |->
          Sequences(Append(TwoComponents[i][1], FinalizeCall),
                    Append(TwoComponents[i][2], FinalizeCall), "internal", 4)]

MCPrograms == OneCallPrograms \o SeveralCalls
=============================================================================
