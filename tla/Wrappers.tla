------------------------------ MODULE Wrappers ------------------------------
(***************************************************************************)
(* The functions the Recorder library interposes, and the arguments each   *)
(* of them writes into its record (recorder-posix.c, recorder-mpi.c).  An  *)
(* argument is known by its kind, which is all that the record, the file   *)
(* name table and the reader of the trace tell apart:                      *)
(*                                                                         *)
(*   "path"     goes through realrealpath and enters the file name table   *)
(*   "payload"  the bytes written, as one hexadecimal token (ptos)         *)
(*   "fd", "stream", "handle"   the open file the call is made on          *)
(*   "flags"    open flags, MPI access mode                                *)
(*   "type", "comm"             names given by the MPI library             *)
(*   "length", "count"          bytes, or elements, written                *)
(*   "offset", "whence"         a position in the file                     *)
(*   "view"                     where the view of an MPI file begins       *)
(*   "int", "ptr", "str"        another number, an address, a text         *)
(***************************************************************************)
EXTENDS Sequences, TLC

DescriptorArgs ==
  [fn \in {"close", "fsync", "fdatasync"} |-> <<"fd">>]
  @@ "fclose" :> <<"stream">>
  @@ [fn \in {"mmap", "mmap64"} |-> <<"ptr", "int", "int", "flags", "fd", "offset">>]
  @@ "msync" :> <<"ptr", "int", "flags">>

OpenArgs ==
  [fn \in {"creat", "creat64"} |-> <<"path", "int">>]
  @@ [fn \in {"open", "open64"} |-> <<"path", "flags">>]
  @@ [fn \in {"fopen", "fopen64"} |-> <<"path", "str">>]

\* open and open64 take, and write, the mode as well when O_CREAT is set.
CreatingOpenArgs == <<"path", "flags", "int">>

StatArgs ==
  [fn \in {"__xstat", "__xstat64", "__lxstat", "__lxstat64"} |-> <<"int", "path", "ptr">>]
  @@ [fn \in {"__fxstat", "__fxstat64"} |-> <<"int", "fd", "ptr">>]

TransferArgs ==
  [fn \in {"pread", "pread64"} |-> <<"fd", "ptr", "int", "offset">>]
  @@ [fn \in {"pwrite", "pwrite64"} |-> <<"fd", "payload", "length", "offset">>]
  @@ [fn \in {"readv", "writev"} |-> <<"fd", "int", "int">>]
  @@ [fn \in {"lseek", "lseek64"} |-> <<"fd", "offset", "whence">>]
  @@ [fn \in {"fread", "fwrite"} |-> <<"ptr", "int", "int", "stream">>]
  @@ "vfprintf" :> <<"stream", "int">>
  @@ "read" :> <<"fd", "ptr", "int">>
  @@ "write" :> <<"fd", "payload", "length">>
  @@ "fseek" :> <<"stream", "offset", "whence">>
  @@ "ftell" :> <<"stream">>

NameArgs ==
  "getcwd" :> <<"ptr", "int">>
  @@ [fn \in {"mkdir", "chmod"} |-> <<"path", "int">>]
  @@ [fn \in {"rmdir", "chdir", "unlink", "opendir"} |-> <<"path">>]
  @@ [fn \in {"link", "symlink", "rename"} |-> <<"path", "path">>]
  @@ "linkat" :> <<"fd", "path", "fd", "path", "flags">>
  @@ "symlinkat" :> <<"path", "fd", "path">>
  @@ "readlink" :> <<"path", "ptr", "int">>
  @@ "readlinkat" :> <<"fd", "path", "ptr", "int">>
  @@ [fn \in {"chown", "lchown", "mknod"} |-> <<"path", "int", "int">>]
  @@ "utime" :> <<"path", "ptr">>
  @@ [fn \in {"readdir", "closedir"} |-> <<"ptr">>]
  @@ "mknodat" :> <<"fd", "path", "int", "int">>

OtherArgs ==
  "dup" :> <<"fd">>
  @@ "dup2" :> <<"fd", "int">>
  @@ "pipe" :> <<"int", "int">>
  @@ [fn \in {"mkfifo", "access", "truncate"} |-> <<"path", "int">>]
  @@ "umask" :> <<"int">>
  @@ "fdopen" :> <<"fd", "ptr">>
  @@ "fileno" :> <<"stream">>
  @@ "faccessat" :> <<"fd", "path", "int", "flags">>
  @@ "tmpfile" :> <<>>
  @@ "remove" :> <<"path">>
  @@ "ftruncate" :> <<"fd", "int">>

CommunicatorArgs ==
  [fn \in {"PMPI_Comm_size", "PMPI_Comm_rank", "PMPI_Comm_set_errhandler"} |-> <<"comm", "ptr">>]
  @@ "PMPI_Get_processor_name" :> <<"ptr", "ptr">>
  @@ "PMPI_Barrier" :> <<"comm">>
  @@ "PMPI_Bcast" :> <<"ptr", "int", "type", "int", "comm">>
  @@ [fn \in {"PMPI_Gather", "PMPI_Scatter"} |->
        <<"ptr", "int", "type", "ptr", "int", "type", "int", "comm">>]
  @@ "PMPI_Gatherv" :> <<"ptr", "int", "type", "ptr", "ptr", "ptr", "type", "int", "comm">>
  @@ "PMPI_Scatterv" :> <<"ptr", "ptr", "ptr", "type", "ptr", "int", "type", "int", "comm">>
  @@ "PMPI_Allgatherv" :> <<"ptr", "int", "type", "ptr", "ptr", "ptr", "type", "comm">>
  @@ "PMPI_Alltoall" :> <<"ptr", "int", "type", "ptr", "int", "type", "comm">>

ReductionArgs ==
  "PMPI_Reduce" :> <<"ptr", "ptr", "int", "type", "int", "int", "comm">>
  @@ [fn \in {"PMPI_Allreduce", "PMPI_Scan"} |-> <<"ptr", "ptr", "int", "type", "int", "comm">>]
  @@ "PMPI_Reduce_scatter" :> <<"ptr", "ptr", "ptr", "type", "int", "comm">>
  @@ "PMPI_Type_create_darray" :>
       <<"int", "int", "int", "ptr", "ptr", "ptr", "ptr", "int", "type", "ptr">>
  @@ "PMPI_Type_commit" :> <<"ptr">>

\* The address of the open file is written as it is after the call.
FileArgs ==
  "PMPI_File_open" :> <<"comm", "path", "flags", "ptr", "handle">>
  @@ [fn \in {"PMPI_File_close", "PMPI_File_sync"} |-> <<"handle">>]
  @@ "PMPI_File_set_size" :> <<"handle", "int">>
  @@ "PMPI_File_set_view" :> <<"handle", "int", "type", "type", "ptr", "ptr">>

FileReadArgs ==
  [fn \in {"PMPI_File_read", "PMPI_File_read_all", "PMPI_File_read_shared",
           "PMPI_File_read_ordered", "PMPI_File_iread", "PMPI_File_iread_shared"} |->
     <<"handle", "ptr", "int", "type", "ptr">>]
  @@ [fn \in {"PMPI_File_read_at", "PMPI_File_read_at_all", "PMPI_File_iread_at"} |->
        <<"handle", "offset", "ptr", "int", "type", "ptr">>]
  @@ "PMPI_File_read_at_all_begin" :> <<"handle", "offset", "ptr", "int", "type">>
  @@ [fn \in {"PMPI_File_read_all_begin", "PMPI_File_read_ordered_begin"} |->
        <<"handle", "ptr", "int", "type">>]

\* Only the two calls ParaCrash reads keep the bytes.  The collective one
\* writes the beginning of the view in the place of its offset, and the size
\* of the type in the place of its name.
FileWriteArgs ==
  "PMPI_File_write_at" :> <<"handle", "offset", "payload", "count", "type", "ptr">>
  @@ "PMPI_File_write_at_all" :> <<"handle", "view", "payload", "count", "int", "ptr">>
  @@ [fn \in {"PMPI_File_write", "PMPI_File_write_all", "PMPI_File_write_shared",
              "PMPI_File_write_ordered", "PMPI_File_iwrite", "PMPI_File_iwrite_shared"} |->
        <<"handle", "ptr", "int", "type", "ptr">>]
  @@ "PMPI_File_iwrite_at" :> <<"handle", "offset", "ptr", "int", "type", "ptr">>
  @@ "PMPI_File_write_at_all_begin" :> <<"handle", "offset", "ptr", "int", "type">>
  @@ [fn \in {"PMPI_File_write_all_begin", "PMPI_File_write_ordered_begin"} |->
        <<"handle", "ptr", "int", "type">>]

MessageArgs ==
  "PMPI_Finalized" :> <<"ptr">>
  @@ "PMPI_Cart_rank" :> <<"comm", "ptr", "ptr">>
  @@ "PMPI_Cart_create" :> <<"comm", "int", "ptr", "ptr", "int", "ptr">>
  @@ [fn \in {"PMPI_Cart_get", "PMPI_Cart_shift"} |-> <<"comm", "int", "ptr", "ptr", "ptr">>]
  @@ "PMPI_Wait" :> <<"ptr", "ptr">>
  @@ "PMPI_Send" :> <<"ptr", "int", "type", "int", "int", "comm">>
  @@ [fn \in {"PMPI_Recv", "PMPI_Isend", "PMPI_Irecv"} |->
        <<"ptr", "int", "type", "int", "int", "comm", "ptr">>]
  @@ "PMPI_Sendrecv" :> <<"ptr", "int", "type", "int", "int", "ptr", "int", "type",
                          "int", "int", "comm", "ptr">>

WrapperArgs ==
  DescriptorArgs @@ OpenArgs @@ StatArgs @@ TransferArgs @@ NameArgs @@ OtherArgs
  @@ CommunicatorArgs @@ ReductionArgs @@ FileArgs @@ FileReadArgs @@ FileWriteArgs @@ MessageArgs

\* The other wrappers leave record.res 0, whatever the function returned.
ResultKept ==
  {"creat", "creat64", "open", "open64", "fopen", "fopen64", "pwrite", "pwrite64",
   "fwrite", "write", "dup", "dup2", "fdopen", "tmpfile"}
=============================================================================
