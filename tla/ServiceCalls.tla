---------------------------- MODULE ServiceCalls ----------------------------
(***************************************************************************)
(* What the calls of the library do on the communicators of the            *)
(* asynchronous I/O service (pio_nc.cpp, pio_nc4.cpp, pio_getput_int.cpp,  *)
(* pio_file.cpp, pioc.cpp, pio_darray.cpp, pio_msg.cpp).                   *)
(*                                                                         *)
(* With the service every call runs twice: on the computation processes,   *)
(* which send a message with the arguments, and on the I/O processes,      *)
(* where a handler makes the same call.  Both runs then meet in broadcasts *)
(* and reductions over the communicator of all of them (my_comm).  A call  *)
(* is modelled as the sequence of these meetings, its script, for a side   *)
(* s \in {"comp", "io"} and an outcome o of the call.  Broadcasts of one   *)
(* output (a length and the text) are one broadcast.  The ADIOS types and  *)
(* calls refused by an argument check, which happens before the message    *)
(* is sent, are left out.                                                  *)
(***************************************************************************)
EXTENDS Integers, Sequences, SequencesExt

\* An outcome: what the meetings of a call depend on.
\*   hdf5     the file is of the HDF5 types
\*   err      the I/O library reports an error on the I/O processes
\*   null     the outputs whose pointers are NULL
\*   failing  which of the inquiries the call makes first fails, 0 if none
\*   ndims    the number of dimensions (of unlimited ones when opening)
\*   known    varlist[varid].ndims was set by an earlier inquiry
\*   alt      a choice particular to one call, named where it is used
\*   flush    PIOc_write_darray: the cached arrays must be flushed first
\*   method   the argument of PIOc_set_iosystem_error_handling
\*   type     of the typed calls, which one it is: PIOc_get_vars_<type>, or "any"
Handlers == {"internal", "bcast", "reduce"}
Types == {"text", "uchar", "schar", "ushort", "short", "uint", "int", "long", "float",
          "double", "ulonglong", "longlong"}
Outcome(Nulls, MaxDims) ==
  [hdf5 : BOOLEAN, err : BOOLEAN, null : SUBSET Nulls, failing : 0..MaxDims + 3,
   ndims : 0..MaxDims, known : BOOLEAN, alt : BOOLEAN, flush : BOOLEAN,
   method : Handlers, type : Types \cup {"any"}]
Success == [hdf5 |-> FALSE, err |-> FALSE, null |-> {}, failing |-> 0,
            ndims |-> 0, known |-> FALSE, alt |-> FALSE, flush |-> FALSE,
            method |-> "internal", type |-> "any"]

\* The steps of a script: a broadcast from the root of one side, an operation
\* that nobody leaves before everybody is there, one of the computation processes
\* alone (over comp_comm), the call of the error handler (whose form depends on the
\* handler set), the message, and a local step.
Cast(root, what) == [root |-> root, what |-> what]
Joint(what) == [root |-> "all", what |-> what]
Reduced(what) == [root |-> "peers", what |-> what]
HandleErr == [root |-> "handler", what |-> "status"]
Message(m, o) == [root |-> "message", what |-> m, o |-> o]
Local(what) == [root |-> "local", what |-> what]

-----------------------------------------------------------------------------
\* PIO_SEND_ASYNC_MSG: only the computation processes send, all share the result.
SendMsg(s, m, o) ==
  (IF s = "comp" THEN <<Message(m, o)>> ELSE <<>>) \o <<Cast("comp", "mpierr")>>

\* check_netcdf: the error handler is called, and after an error the call returns.
CheckNetcdf(o, rest) == <<HandleErr>> \o (IF o.err THEN <<>> ELSE rest)

\* An error that is only broadcast: "A failure to inquire is not fatal".
IoStatus(o, rest) == <<Cast("io", "ierr")>> \o (IF o.err THEN <<>> ELSE rest)

\* Outputs are broadcast unless their pointer is NULL.
Given(o, names) ==
  LET wanted == SelectSeq(names, LAMBDA n : n \notin o.null)
  IN [i \in DOMAIN wanted |-> Cast("io", wanted[i])]

\* What the computation root found out before is broadcast to the I/O processes.
FromComp(names) == [i \in DOMAIN names |-> Cast("comp", names[i])]

\* Calls that the HDF5 layer answers from memory, on every process.
UnlessHdf5(o, rest) == IF o.hdf5 THEN <<>> ELSE rest

\* A call that first makes other calls, on the computation processes only, and
\* returns if one fails: inquiries[n] is their scripts when each has outcome n.
Nested(o, err) == [o EXCEPT !.err = err, !.null = {}]
Each(o) == {Nested(o, FALSE), Nested(o, TRUE)}

After(s, o, inquiries, rest) ==
  LET all == inquiries[Nested(o, FALSE)]
      failed == inquiries[Nested(o, TRUE)]
  IN CASE s = "io" -> rest
       [] s = "comp" /\ o.failing \in DOMAIN all ->
            FlattenSeq(SubSeq(all, 1, o.failing - 1)) \o failed[o.failing]
       [] OTHER -> FlattenSeq(all) \o rest

-----------------------------------------------------------------------------
\* Inquiries (pio_nc.cpp).
inq(s, o) ==
  SendMsg(s, "INQ", o) \o
  UnlessHdf5(o, IoStatus(o, Given(o, <<"ndims", "nvars", "ngatts", "unlimdimid">>)))

OnlyCount(o, name) == [o EXCEPT !.null = {"ndims", "nvars", "ngatts", "unlimdimid"} \ {name}]
inq_ndims(s, o) == inq(s, OnlyCount(o, "ndims"))
inq_nvars(s, o) == inq(s, OnlyCount(o, "nvars"))
inq_natts(s, o) == inq(s, OnlyCount(o, "ngatts"))
inq_unlimdim(s, o) == inq(s, OnlyCount(o, "unlimdimid"))

inq_unlimdims(s, o) ==
  SendMsg(s, "INQ_UNLIMDIMS", o) \o
  IoStatus(o, <<Cast("io", "tmp_nunlimdims")>> \o Given(o, <<"nunlimdims", "unlimdimids">>))

inq_type(s, o) ==
  SendMsg(s, "INQ_TYPE", o) \o UnlessHdf5(o, CheckNetcdf(o, Given(o, <<"name", "size">>)))

inq_format(s, o) == SendMsg(s, "INQ_FORMAT", o) \o CheckNetcdf(o, Given(o, <<"format">>))

inq_dim(s, o) ==
  SendMsg(s, "INQ_DIM", o) \o UnlessHdf5(o, IoStatus(o, Given(o, <<"name", "len">>)))

inq_dimname(s, o) == inq_dim(s, [o EXCEPT !.null = {"len"}])
inq_dimlen(s, o) == inq_dim(s, [o EXCEPT !.null = {"name"}])

inq_dimid(s, o) ==
  SendMsg(s, "INQ_DIMID", o) \o UnlessHdf5(o, IoStatus(o, Given(o, <<"id">>)))

\* The name, and whether it is a record variable, are cached by every process.  The
\* number of dimensions is broadcast only while a process does not know it.
VarOutputs(o) ==
  <<Cast("io", "my_name"), Cast("io", "rec_var")>> \o Given(o, <<"xtype">>)
    \o (IF o.known THEN <<>> ELSE Given(o, <<"ndims">>)) \o Given(o, <<"dimids", "natts">>)

inq_var(s, o) == SendMsg(s, "INQ_VAR", o) \o UnlessHdf5(o, IoStatus(o, VarOutputs(o)))

OnlyOutput(o, name) == [o EXCEPT !.null = {"xtype", "ndims", "dimids", "natts"} \ {name}]
inq_varname(s, o) == inq_var(s, OnlyOutput(o, "name"))
inq_vartype(s, o) == inq_var(s, OnlyOutput(o, "xtype"))
inq_varndims(s, o) == inq_var(s, OnlyOutput(o, "ndims"))
inq_vardimid(s, o) == inq_var(s, OnlyOutput(o, "dimids"))
inq_varnatts(s, o) == inq_var(s, OnlyOutput(o, "natts"))

inq_varid(s, o) ==
  SendMsg(s, "INQ_VARID", o) \o UnlessHdf5(o, IoStatus(o, <<Cast("io", "varid")>>))

inq_att(s, o) ==
  SendMsg(s, "INQ_ATT", o) \o UnlessHdf5(o, IoStatus(o, Given(o, <<"xtype", "len">>)))

inq_attlen(s, o) == inq_att(s, [o EXCEPT !.null = {"xtype"}])
inq_atttype(s, o) == inq_att(s, [o EXCEPT !.null = {"len"}])

inq_attname(s, o) ==
  SendMsg(s, "INQ_ATTNAME", o) \o UnlessHdf5(o, CheckNetcdf(o, Given(o, <<"name">>)))

inq_attid(s, o) ==
  SendMsg(s, "INQ_ATTID", o) \o UnlessHdf5(o, IoStatus(o, Given(o, <<"id">>)))

-----------------------------------------------------------------------------
\* Changes of the metadata (pio_nc.cpp).
rename_dim(s, o) == SendMsg(s, "RENAME_DIM", o) \o CheckNetcdf(o, <<>>)
rename_var(s, o) == SendMsg(s, "RENAME_VAR", o) \o CheckNetcdf(o, <<>>)
rename_att(s, o) == SendMsg(s, "RENAME_ATT", o) \o CheckNetcdf(o, <<>>)
del_att(s, o) == SendMsg(s, "DEL_ATT", o) \o CheckNetcdf(o, <<>>)
copy_att(s, o) == SendMsg(s, "COPY_ATT", o) \o CheckNetcdf(o, <<>>)
enddef(s, o) == SendMsg(s, "ENDDEF", o) \o CheckNetcdf(o, <<>>)
redef(s, o) == SendMsg(s, "REDEF", o) \o CheckNetcdf(o, <<>>)

set_fill(s, o) ==
  SendMsg(s, "SET_FILL", o) \o UnlessHdf5(o, CheckNetcdf(o, Given(o, <<"old_mode">>)))

def_dim(s, o) == SendMsg(s, "DEF_DIM", o) \o CheckNetcdf(o, <<Cast("io", "id")>>)

\* The I/O library of the file, or the HDF5 thread, defines it on the I/O processes.
VarDefined(o) == CheckNetcdf(o, <<Cast("io", "varid")>>)

\* alt: a dimension other than the first is unlimited (invalid_unlim_dim).
def_var(s, o) ==
  After(s, o, [n \in Each(o) |-> [d \in 1..o.ndims - 1 |-> inq_dimlen(s, n)]],
    SendMsg(s, "DEF_VAR", o) \o FromComp(<<"invalid_unlim_dim">>)
      \o (IF o.alt THEN <<>> ELSE VarDefined(o)))

TypeAndSize(s, n) == <<inq_vartype(s, n), inq_type(s, [n EXCEPT !.null = {"name"}])>>

def_var_fill(s, o) ==
  After(s, o, [n \in Each(o) |-> TypeAndSize(s, n)],
    SendMsg(s, "DEF_VAR_FILL", o) \o FromComp(<<"xtype", "type_size">>) \o CheckNetcdf(o, <<>>))

inq_var_fill(s, o) ==
  After(s, o, [n \in Each(o) |-> TypeAndSize(s, n)],
    SendMsg(s, "INQ_VAR_FILL", o) \o FromComp(<<"xtype", "type_size">>)
      \o CheckNetcdf(o, Given(o, <<"no_fill", "fill_value">>)))

-----------------------------------------------------------------------------
\* The NetCDF-4 settings of variables and chunk caches (pio_nc4.cpp).
def_var_deflate(s, o) == SendMsg(s, "DEF_VAR_DEFLATE", o) \o CheckNetcdf(o, <<>>)
def_var_endian(s, o) == SendMsg(s, "DEF_VAR_ENDIAN", o) \o CheckNetcdf(o, <<>>)
set_chunk_cache(s, o) == SendMsg(s, "SET_CHUNK_CACHE", o) \o CheckNetcdf(o, <<>>)
set_var_chunk_cache(s, o) == SendMsg(s, "SET_VAR_CHUNK_CACHE", o) \o CheckNetcdf(o, <<>>)

def_var_chunking(s, o) ==
  After(s, o, [n \in Each(o) |-> <<inq_varndims(s, n)>>],
    SendMsg(s, "DEF_VAR_CHUNKING", o) \o FromComp(<<"ndims">>) \o CheckNetcdf(o, <<>>))

inq_var_chunking(s, o) ==
  After(s, o, [n \in Each(o) |-> <<inq_varndims(s, n)>>],
    SendMsg(s, "INQ_VAR_CHUNKING", o) \o FromComp(<<"ndims">>)
      \o CheckNetcdf(o, <<Cast("io", "ndims")>> \o Given(o, <<"storage", "chunksizes">>)))

inq_var_deflate(s, o) ==
  SendMsg(s, "INQ_VAR_DEFLATE", o)
    \o CheckNetcdf(o, Given(o, <<"shuffle", "deflate", "deflate_level">>))

inq_var_endian(s, o) ==
  SendMsg(s, "INQ_VAR_ENDIAN", o) \o CheckNetcdf(o, Given(o, <<"endian">>))

get_chunk_cache(s, o) ==
  SendMsg(s, "GET_CHUNK_CACHE", o)
    \o CheckNetcdf(o, Given(o, <<"size", "nelems", "preemption">>))

get_var_chunk_cache(s, o) ==
  SendMsg(s, "GET_VAR_CHUNK_CACHE", o)
    \o CheckNetcdf(o, Given(o, <<"size", "nelems", "preemption">>))

-----------------------------------------------------------------------------
\* Attributes and data of variables (pio_getput_int.cpp).  alt: the type in
\* memory is PIO_LONG_INTERNAL, whose size is known without an inquiry.
SizeOf(s, n) == inq_type(s, [n EXCEPT !.null = {"name"}])
MemSize(s, o, n) == IF o.alt THEN <<>> ELSE <<SizeOf(s, n)>>

\* What the I/O processes do with the I/O library, and how all learn of it.
AttPut(o) == CheckNetcdf(o, <<>>)
AttGot(o) == CheckNetcdf(o, <<Cast("io", "att")>>)

put_att_tc(s, o) ==
  After(s, o, [n \in Each(o) |-> <<SizeOf(s, n)>> \o MemSize(s, o, n)],
    SendMsg(s, "PUT_ATT", o) \o FromComp(<<"atttype_len", "memtype_len">>) \o AttPut(o))

AttInquiries(s, o, n) == <<inq_att(s, n), SizeOf(s, n)>> \o MemSize(s, o, n)
AttData(s, o) ==
  SendMsg(s, "GET_ATT", o) \o FromComp(<<"attlen", "atttype_len", "memtype_len">>) \o AttGot(o)

get_att_tc(s, o) == After(s, o, [n \in Each(o) |-> AttInquiries(s, o, n)], AttData(s, o))

\* PIOc_get_att asks for the type first; on the I/O side only get_att_tc runs.
get_att(s, o) ==
  After(s, o, [n \in Each(o) |-> <<inq_atttype(s, n)>> \o AttInquiries(s, o, n)], AttData(s, o))

\* A second inquiry of the number of dimensions finds it, unless it is 0.
Again(o, n) == [n EXCEPT !.known = (o.ndims > 0)]

GetInquiries(s, o, n) == <<inq_vartype(s, n)>> \o MemSize(s, o, n) \o <<inq_varndims(s, n)>>
VarsGot(o) == CheckNetcdf(o, <<Cast("io", "buf")>>)
GetData(s, o) ==
  SendMsg(s, "GET_VARS", o) \o FromComp(<<"ndims", "num_elem", "typelen", "xtype">>) \o VarsGot(o)

PutInquiries(s, o, n) == <<inq_vartype(s, n), inq_varndims(s, n)>> \o MemSize(s, o, n)
VarsPut(o) == CheckNetcdf(o, <<>>)
PutData(s, o) == SendMsg(s, "PUT_VARS", o) \o FromComp(<<"ndims", "xtype">>) \o VarsPut(o)

get_vars_tc(s, o) == After(s, o, [n \in Each(o) |-> GetInquiries(s, o, n)], GetData(s, o))
put_vars_tc(s, o) == After(s, o, [n \in Each(o) |-> PutInquiries(s, o, n)], PutData(s, o))

get_var1_tc(s, o) ==
  After(s, o, [n \in Each(o) |-> <<inq_varndims(s, n)>> \o GetInquiries(s, o, Again(o, n))],
        GetData(s, o))
put_var1_tc(s, o) ==
  After(s, o, [n \in Each(o) |-> <<inq_varndims(s, n)>> \o PutInquiries(s, o, Again(o, n))],
        PutData(s, o))

\* All of a variable: the lengths of its dimensions are asked for one by one.
Shape(s, o, n) ==
  <<inq_varndims(s, n)>>
    \o (IF o.ndims > 0 THEN <<inq_vardimid(s, Again(o, n))>> ELSE <<>>)
    \o [d \in 1..o.ndims |-> inq_dimlen(s, n)]

get_var_tc(s, o) ==
  After(s, o, [n \in Each(o) |-> Shape(s, o, n) \o GetInquiries(s, o, Again(o, n))], GetData(s, o))
put_var_tc(s, o) ==
  After(s, o, [n \in Each(o) |-> Shape(s, o, n) \o PutInquiries(s, o, Again(o, n))], PutData(s, o))

-----------------------------------------------------------------------------
\* The typed calls (pio_get_nc.cpp, pio_put_nc.cpp, the end of pio_nc.cpp): the type
\* in memory that each passes on.  PIO_LONG_INTERNAL is the type of the C long.
MemTypes == [t \in Types |-> IF t = "long" THEN "PIO_LONG_INTERNAL" ELSE t]

\* These two pass a signed type for unsigned long long.
get_vars_types == [MemTypes EXCEPT !["ulonglong"] = "PIO_LONG_INTERNAL"]
get_var1_types == [MemTypes EXCEPT !["ulonglong"] = "longlong"]
get_vara_types == MemTypes
get_var_types == MemTypes
put_vars_types == MemTypes
put_var1_types == MemTypes
put_vara_types == put_vars_types
put_var_types == MemTypes
get_att_types == MemTypes
put_att_types == MemTypes

\* A call of any type leaves the type to the library (PIO_NAT).
With(o, types) ==
  [o EXCEPT !.alt = o.type # "any" /\ types[o.type] = "PIO_LONG_INTERNAL"]

PIOc_get_vars(s, o) == get_vars_tc(s, With(o, get_vars_types))
PIOc_get_vara(s, o) == get_vars_tc(s, With(o, get_vara_types))
PIOc_get_var1(s, o) == get_var1_tc(s, With(o, get_var1_types))
PIOc_get_var(s, o) == get_var_tc(s, With(o, get_var_types))
PIOc_put_vars(s, o) == put_vars_tc(s, With(o, put_vars_types))
PIOc_put_vara(s, o) == put_vars_tc(s, With(o, put_vara_types))
PIOc_put_var1(s, o) == put_var1_tc(s, With(o, put_var1_types))
PIOc_put_var(s, o) == put_var_tc(s, With(o, put_var_types))
PIOc_get_att(s, o) ==
  IF o.type = "any" THEN get_att(s, o) ELSE get_att_tc(s, With(o, get_att_types))
PIOc_put_att(s, o) == put_att_tc(s, With(o, put_att_types))

-----------------------------------------------------------------------------
\* Distributed arrays (pio_darray.cpp).  alt: the subset rearranger also writes
\* the fill values of the places that no process has data for.
write_darray_multi(s, o) ==
  After(s, o, [n \in Each(o) |-> <<inq_varndims(s, n)>>],
    SendMsg(s, "WRITEDARRAYMULTI", o) \o FromComp(<<"fndims">>) \o <<Joint("rearrange")>>
      \o CheckNetcdf(o, IF o.alt THEN <<HandleErr>> ELSE <<>>))

\* The fill value of a variable is asked for once.
find_var_fillvalue(s, o) == inq_var_fill(s, o)

\* Only the computation processes make this call; what they write is cached.  alt: the
\* first write of the variable.  HDF5: fill values are not looked up.
FirstWrite(s, n) ==
  TypeAndSize(s, n) \o (IF n.hdf5 THEN <<>> ELSE <<find_var_fillvalue(s, n)>>)

write_darray(s, o) ==
  After(s, o, [n \in Each(o) |-> IF o.alt THEN FirstWrite(s, n) ELSE <<>>],
    <<Reduced("needsflush")>>
      \o (IF o.flush THEN write_darray_multi(s, [o EXCEPT !.alt = FALSE]) ELSE <<>>))

\* Only the I/O processes read, and check what the library returned.  alt: the
\* first read of the variable, whose type is not cached.
read_darray(s, o) ==
  After(s, o, [n \in Each(o) |-> (IF o.alt THEN TypeAndSize(s, n) ELSE <<>>) \o <<inq_varndims(s, n)>>],
    SendMsg(s, "READDARRAY", o) \o FromComp(<<"fndims">>)
      \o (IF s = "io" THEN CheckNetcdf(o, <<Joint("rearrange")>>) ELSE <<Joint("rearrange")>>))

-----------------------------------------------------------------------------
\* Files and I/O systems (pio_file.cpp, pioc.cpp, pioc_support.cpp).

\* pio_add_to_file_list: the id is the maximum over the processes (file_id).
createfile(s, o) ==
  SendMsg(s, "CREATE_FILE", o) \o <<Cast("io", "mode"), Joint("status")>>
    \o (IF o.err THEN <<>> ELSE <<Joint("file_id")>>)

\* alt: PIOc_openfile, which tries again with another type; ndims: the unlimited
\* dimensions; failing: the inquiry about them that fails, after which only the
\* computation side forgets the file.
openfile_retry(s, o) ==
  LET inquiries == <<"unlimdimids", "nunlimdims">>
      made == IF s = "io" \/ o.err THEN 0 ELSE IF o.ndims > 0 /\ o.failing # 1 THEN 2 ELSE 1
  IN SendMsg(s, "OPEN_FILE", o) \o <<Cast("io", "mode")>>
       \o (IF o.alt THEN <<Cast("io", "iotype")>> ELSE <<>>) \o <<Joint("status")>>
       \o (IF o.err THEN <<>> ELSE <<Joint("file_id")>>)
       \o FlattenSeq([i \in 1..made |->
            inq_unlimdims(s, [o EXCEPT !.null = {inquiries[i]}, !.err = (o.failing = i)])])
       \o (IF made > 0 /\ o.failing \in 1..made THEN <<Local("forget_file")>> ELSE <<>>)

\* alt: the file is synchronized first; the status of this is ignored.
sync_file(s, o) == SendMsg(s, "SYNC", o) \o <<HandleErr>>

closefile(s, o) ==
  (IF s = "comp" /\ o.alt THEN sync_file(s, o) ELSE <<>>)
    \o SendMsg(s, "CLOSE_FILE", o) \o CheckNetcdf(o, <<Local("forget_file")>>)

deletefile(s, o) ==
  SendMsg(s, "DELETE_FILE", o) \o <<Joint("barrier"), Joint("barrier"), HandleErr>>

setframe(s, o) == SendMsg(s, "SETFRAME", o)
advanceframe(s, o) == SendMsg(s, "ADVANCEFRAME", o)

\* Slip: Only the process that makes the call sets its handler.
set_iosystem_error_handling_alone(s, o) ==
  <<Local(o.method)>>

set_iosystem_error_handling(s, o) ==
  SendMsg(s, "SETERRORHANDLING", o) \o <<Local(o.method)>>

\* alt: PIO_REARR_ANY, the rearranger is chosen by the largest map.
initdecomp(s, o) ==
  SendMsg(s, "INITDECOMP_DOF", o) \o (IF o.alt THEN <<Joint("maplen")>> ELSE <<>>)
    \o <<Joint("rearranger"), Joint("iodesc_id")>>

freedecomp(s, o) == SendMsg(s, "FREEDECOMP", o)

\* Slip: The I/O processes are not told.
PIOc_finalize_alone(s, o) == <<>>

PIOc_finalize(s, o) == SendMsg(s, "FINALIZE", o)

-----------------------------------------------------------------------------
\* The handlers of the I/O processes (pio_msg.cpp): the scripts that a handler
\* may follow for a message with outcome o.  Most make the same call.
inq_type_handler(o) == {inq_type("io", o)}
inq_format_handler(o) == {inq_format("io", o)}
set_fill_handler(o) == {set_fill("io", o)}
create_file_handler(o) == {createfile("io", o)}
close_file_handler(o) == {closefile("io", o)}
inq_handler(o) == {inq("io", o)}
inq_unlimdims_handler(o) == {inq_unlimdims("io", o)}
inq_dim_handler(o) == {inq_dim("io", o)}
inq_att_handler(o) == {inq_att("io", o)}
inq_attname_handler(o) == {inq_attname("io", o)}
inq_attid_handler(o) == {inq_attid("io", o)}
att_put_handler(o) == {put_att_tc("io", o)}
att_copy_handler(o) == {copy_att("io", o)}
att_get_handler(o) == {get_att_tc("io", o)}
put_vars_handler(o) == {put_vars_tc("io", o)}
get_vars_handler(o) == {get_vars_tc("io", o)}
inq_var_handler(o) == {inq_var("io", o)}
inq_var_chunking_handler(o) == {inq_var_chunking("io", o)}
inq_var_fill_handler(o) == {inq_var_fill("io", o)}
inq_var_endian_handler(o) == {inq_var_endian("io", o)}
inq_varid_handler(o) == {inq_varid("io", o)}
sync_file_handler(o) == {sync_file("io", o)}
setframe_handler(o) == {setframe("io", o)}
advanceframe_handler(o) == {advanceframe("io", o)}
def_var_handler(o) == {def_var("io", o)}
def_var_chunking_handler(o) == {def_var_chunking("io", o)}
def_var_fill_handler(o) == {def_var_fill("io", o)}
def_var_endian_handler(o) == {def_var_endian("io", o)}
def_var_deflate_handler(o) == {def_var_deflate("io", o)}
set_var_chunk_cache_handler(o) == {set_var_chunk_cache("io", o)}
def_dim_handler(o) == {def_dim("io", o)}
rename_dim_handler(o) == {rename_dim("io", o)}
rename_var_handler(o) == {rename_var("io", o)}
rename_att_handler(o) == {rename_att("io", o)}
delete_att_handler(o) == {del_att("io", o)}
open_file_handler(o) == {openfile_retry("io", o)}
delete_file_handler(o) == {deletefile("io", o)}
initdecomp_dof_handler(o) == {initdecomp("io", o)}
write_darray_multi_handler(o) == {write_darray_multi("io", o)}
readdarray_handler(o) == {read_darray("io", o)}
seterrorhandling_handler(o) == {set_iosystem_error_handling("io", o)}
set_chunk_cache_handler(o) == {set_chunk_cache("io", o)}
freedecomp_handler(o) == {freedecomp("io", o)}
finalize_handler(o) == {PIOc_finalize("io", o)}
change_def_file_handler(m, o) == {IF m = "ENDDEF" THEN enddef("io", o) ELSE redef("io", o)}

\* These four do not set the pointers of the outputs that were not asked for: an
\* uninitialized pointer may be NULL or not.
Undetermined(o) == {[o EXCEPT !.null = n] : n \in SUBSET o.null}
inq_dimid_handler(o) == {inq_dimid("io", u) : u \in Undetermined(o)}
inq_var_deflate_handler(o) == {inq_var_deflate("io", u) : u \in Undetermined(o)}
get_chunk_cache_handler(o) == {get_chunk_cache("io", u) : u \in Undetermined(o)}
get_var_chunk_cache_handler(o) == {get_var_chunk_cache("io", u) : u \in Undetermined(o)}

\* pio_msg_handler2: the switch over the messages.
Handle(m, o) ==
  CASE m \in {"ENDDEF", "REDEF"} -> change_def_file_handler(m, o)
    [] m = "INQ_TYPE" -> inq_type_handler(o)
    [] m = "INQ_FORMAT" -> inq_format_handler(o)
    [] m = "SET_FILL" -> set_fill_handler(o)
    [] m = "CREATE_FILE" -> create_file_handler(o)
    [] m = "CLOSE_FILE" -> close_file_handler(o)
    [] m = "INQ" -> inq_handler(o)
    [] m = "INQ_UNLIMDIMS" -> inq_unlimdims_handler(o)
    [] m = "INQ_DIM" -> inq_dim_handler(o)
    [] m = "INQ_ATT" -> inq_att_handler(o)
    [] m = "INQ_ATTNAME" -> inq_attname_handler(o)
    [] m = "INQ_ATTID" -> inq_attid_handler(o)
    [] m = "PUT_ATT" -> att_put_handler(o)
    [] m = "COPY_ATT" -> att_copy_handler(o)
    [] m = "GET_ATT" -> att_get_handler(o)
    [] m = "PUT_VARS" -> put_vars_handler(o)
    [] m = "GET_VARS" -> get_vars_handler(o)
    [] m = "INQ_VAR" -> inq_var_handler(o)
    [] m = "INQ_VAR_CHUNKING" -> inq_var_chunking_handler(o)
    [] m = "INQ_VAR_FILL" -> inq_var_fill_handler(o)
    [] m = "INQ_VAR_ENDIAN" -> inq_var_endian_handler(o)
    [] m = "INQ_VARID" -> inq_varid_handler(o)
    [] m = "SYNC" -> sync_file_handler(o)
    [] m = "SETFRAME" -> setframe_handler(o)
    [] m = "ADVANCEFRAME" -> advanceframe_handler(o)
    [] m = "DEF_VAR" -> def_var_handler(o)
    [] m = "DEF_VAR_CHUNKING" -> def_var_chunking_handler(o)
    [] m = "DEF_VAR_FILL" -> def_var_fill_handler(o)
    [] m = "DEF_VAR_ENDIAN" -> def_var_endian_handler(o)
    [] m = "DEF_VAR_DEFLATE" -> def_var_deflate_handler(o)
    [] m = "SET_VAR_CHUNK_CACHE" -> set_var_chunk_cache_handler(o)
    [] m = "DEF_DIM" -> def_dim_handler(o)
    [] m = "RENAME_DIM" -> rename_dim_handler(o)
    [] m = "RENAME_VAR" -> rename_var_handler(o)
    [] m = "RENAME_ATT" -> rename_att_handler(o)
    [] m = "DEL_ATT" -> delete_att_handler(o)
    [] m = "OPEN_FILE" -> open_file_handler(o)
    [] m = "DELETE_FILE" -> delete_file_handler(o)
    [] m = "INITDECOMP_DOF" -> initdecomp_dof_handler(o)
    [] m = "WRITEDARRAYMULTI" -> write_darray_multi_handler(o)
    [] m = "READDARRAY" -> readdarray_handler(o)
    [] m = "SETERRORHANDLING" -> seterrorhandling_handler(o)
    [] m = "SET_CHUNK_CACHE" -> set_chunk_cache_handler(o)
    [] m = "FREEDECOMP" -> freedecomp_handler(o)
    [] m = "FINALIZE" -> finalize_handler(o)
    [] m = "INQ_DIMID" -> inq_dimid_handler(o)
    [] m = "INQ_VAR_DEFLATE" -> inq_var_deflate_handler(o)
    [] m = "GET_CHUNK_CACHE" -> get_chunk_cache_handler(o)
    [] m = "GET_VAR_CHUNK_CACHE" -> get_var_chunk_cache_handler(o)

\* The messages whose handlers look for no file.
NoFile == {"CREATE_FILE", "OPEN_FILE", "DELETE_FILE", "INITDECOMP_DOF", "FREEDECOMP",
           "SETERRORHANDLING", "SET_CHUNK_CACHE", "GET_CHUNK_CACHE", "FINALIZE"}
=============================================================================
