------------------------------- MODULE Status -------------------------------
(* Status: a code, of which OK is the default, and the codes that errors   *)
(* of system calls become. Messages are left out.                          *)

OK == "OK"

IsOk(status) == status = OK

(* Status::Update keeps the first error.                                   *)
Updated(status, new) == IF IsOk(status) THEN new ELSE status

(* The errnos of each code; what is in no class is UNKNOWN.                *)
InvalidArgument == {"EINVAL", "ENAMETOOLONG", "E2BIG", "EDESTADDRREQ", "EDOM", "EFAULT", "EILSEQ",
                    "ENOPROTOOPT", "ENOSTR", "ENOTSOCK", "ENOTTY", "EPROTOTYPE", "ESPIPE"}
DeadlineExceeded == {"ETIMEDOUT", "ETIME"}
NotFound == {"ENODEV", "ENOENT", "ENXIO", "ESRCH"}
AlreadyExists == {"EEXIST", "EADDRNOTAVAIL", "EALREADY"}
PermissionDenied == {"EPERM", "EACCES", "EROFS"}
FailedPrecondition == {"ENOTEMPTY", "EISDIR", "ENOTDIR", "EADDRINUSE", "EBADF", "EBUSY", "ECHILD",
                       "EISCONN", "ENOTBLK", "ENOTCONN", "EPIPE", "ESHUTDOWN", "ETXTBSY"}
ResourceExhausted == {"ENOSPC", "EDQUOT", "EMFILE", "EMLINK", "ENFILE", "ENOBUFS", "ENODATA",
                      "ENOMEM", "ENOSR", "EUSERS"}
OutOfRange == {"EFBIG", "EOVERFLOW", "ERANGE"}
Unimplemented == {"ENOSYS", "ENOTSUP", "EAFNOSUPPORT", "EPFNOSUPPORT", "EPROTONOSUPPORT",
                  "ESOCKTNOSUPPORT", "EXDEV"}
Unavailable == {"EAGAIN", "ECONNREFUSED", "ECONNABORTED", "ECONNRESET", "EINTR", "EHOSTDOWN",
                "EHOSTUNREACH", "ENETDOWN", "ENETRESET", "ENETUNREACH", "ENOLCK", "ENOLINK", "ENONET"}
Aborted == {"EDEADLK", "ESTALE"}

ErrnoToCode(errno) ==
  CASE errno = "OK" -> OK
    [] errno \in InvalidArgument    -> "INVALID_ARGUMENT"
    [] errno \in DeadlineExceeded   -> "DEADLINE_EXCEEDED"
    [] errno \in NotFound           -> "NOT_FOUND"
    [] errno \in AlreadyExists      -> "ALREADY_EXISTS"
    [] errno \in PermissionDenied   -> "PERMISSION_DENIED"
    [] errno \in FailedPrecondition -> "FAILED_PRECONDITION"
    [] errno \in ResourceExhausted  -> "RESOURCE_EXHAUSTED"
    [] errno \in OutOfRange         -> "OUT_OF_RANGE"
    [] errno \in Unimplemented      -> "UNIMPLEMENTED"
    [] errno \in Unavailable        -> "UNAVAILABLE"
    [] errno \in Aborted            -> "ABORTED"
    [] errno = "ECANCELED"          -> "CANCELLED"
    [] OTHER                        -> "UNKNOWN"
=============================================================================
