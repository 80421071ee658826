------------------------------ MODULE Wrappers ------------------------------
(***************************************************************************)
(* The wrappers of src/src/csapp.c around calls of the system: each tests  *)
(* what the call returned and, if it has failed, prints a message and      *)
(* exits.  The server relies on it: it calls Malloc, Sem_init, P, V,       *)
(* Accept, Pthread_create and Open_listenfd and never looks at an error.   *)
(*                                                                         *)
(* The families of calls tell of a failure in different ways: -1, NULL, a  *)
(* nonzero code, a value together with ferror() or errno.  What connects   *)
(* one call to the next is errno, which no call sets to zero: a wrapper    *)
(* that looks at it must not be misled by what an earlier call has left.   *)
(*                                                                         *)
(* Arguments are left out, except that sizes are not 0 (realloc and fwrite *)
(* return 0 for size 0, which Realloc and Fwrite take for an error).       *)
(* Pthread_exit, which only ends the calling thread, is left out.          *)
(***************************************************************************)
EXTENDS Integers

CONSTANTS ERRNO,  \* the error codes that calls may fail with
          EINTR   \* the code of a call that a signal has interrupted

ASSUME ErrnoAssumption == ERRNO \subseteq Nat \ {0} /\ EINTR \in ERRNO

VARIABLES
  errno,
  status,   \* RUNNING, or the status that the program has exited with
  cause,    \* history: the error that the last wrapped call failed with, or 0
  message   \* the error that was printed before the exit, or 0

process == <<errno, status, cause, message>>

RUNNING == -1
KILLED == -2     \* by a signal
APP == -1      \* an error without a code: a fixed text is printed
UNSET == -2    \* a failure whose error is not the one in errno
NULL == 0
EOF == -1
MAP_FAILED == -1

ProcessInit == errno = 0 /\ status = RUNNING /\ cause = 0 /\ message = 0

-----------------------------------------------------------------------------
(* What calls return: rc, what they leave in errno, and why they failed    *)

Succeeds(rcs) == [rc : rcs, errno : ERRNO \cup {errno}, cause : {0}]
Fails(rc, errors) == {[rc |-> rc, errno |-> e, cause |-> e] : e \in errors}

Uninterrupted == Succeeds({0, 1}) \cup Fails(-1, ERRNO \ {EINTR})
Interruptible == Succeeds({0, 1}) \cup Fails(-1, ERRNO)
Pointer == Succeeds({1}) \cup Fails(NULL, ERRNO \ {EINTR})
Code == Succeeds({0})
        \cup {[rc |-> e, errno |-> errno, cause |-> e] : e \in ERRNO \ {EINTR}}

\* Interrupted by a signal whose handler has returned, which is no failure.
Awakened == {[rc |-> -1, errno |-> EINTR, cause |-> 0]}

-----------------------------------------------------------------------------
(* The error functions: what they print; all of them call exit(0).         *)

unix_error(r) == r.errno
posix_error(r) == r.rc
gai_error(r) == r.rc
app_error(r) == APP
dns_error(r) == APP

Exits(code, text) == status' = code /\ message' = text
Returns == UNCHANGED <<status, message>>

\* A wrapper: call, test, and error function.
Wrapper(results, Failed(_), error(_)) ==
  /\ status = RUNNING
  /\ \E r \in results :
       /\ errno' = r.errno
       /\ cause' = r.cause
       /\ \/ Failed(r) /\ Exits(0, error(r))
          \/ ~Failed(r) /\ Returns

Negative(r) == r.rc < 0
Nonzero(r) == r.rc # 0
IsNull(r) == r.rc = NULL
Never(r) == FALSE

Unix(results) == Wrapper(results, Negative, unix_error)
Posix == Wrapper(Code, Nonzero, posix_error)
Gai == Wrapper(Code, Nonzero, gai_error)
Allocates == Wrapper(Pointer, IsNull, unix_error)
Plain == Wrapper(Succeeds({0}), Never, unix_error)

-----------------------------------------------------------------------------
(* Process control                                                         *)

Fork == Unix(Uninterrupted)
Execve == Unix(Fails(-1, ERRNO \ {EINTR}))   \* it returns only if it fails
Wait == Unix(Interruptible)
Waitpid == Unix(Interruptible)
Kill == Unix(Uninterrupted)
Pause == Wrapper(Awakened, Never, unix_error)
Sleep == Plain        \* an unsigned rc is never < 0
Alarm == Plain
Setpgid == Unix(Uninterrupted)
Getpgrp == Plain

ProcessControl == \/ Fork \/ Execve \/ Wait \/ Waitpid \/ Kill \/ Pause
                  \/ Sleep \/ Alarm \/ Setpgid \/ Getpgrp

-----------------------------------------------------------------------------
(* Signals                                                                 *)

Signal == Unix(Uninterrupted)
Sigprocmask == Unix(Uninterrupted)
Sigemptyset == Unix(Uninterrupted)
Sigfillset == Unix(Uninterrupted)
Sigaddset == Unix(Uninterrupted)
Sigdelset == Unix(Uninterrupted)
Sigismember == Unix(Uninterrupted)

\* sigsuspend() always returns -1.
Sigsuspend == Wrapper(Awakened \cup Fails(-1, ERRNO \ {EINTR}),
                      LAMBDA r : r.errno # EINTR, unix_error)

Signals == \/ Signal \/ Sigprocmask \/ Sigemptyset \/ Sigfillset \/ Sigaddset
           \/ Sigdelset \/ Sigismember \/ Sigsuspend

-----------------------------------------------------------------------------
(* Unix I/O, directories, memory mapping                                   *)

Open == Unix(Interruptible)
Read == Unix(Interruptible)
Write == Unix(Interruptible)
Lseek == Unix(Uninterrupted)
Close == Unix(Interruptible)
Select == Unix(Interruptible)
Dup2 == Unix(Interruptible)
Stat == Unix(Uninterrupted)
Fstat == Unix(Uninterrupted)

Opendir == Allocates

\* readdir() returns NULL at the end too, and leaves errno alone then.
readdir(before) == Succeeds({1})
                   \cup {[rc |-> NULL, errno |-> before, cause |-> 0]}
                   \cup Fails(NULL, ERRNO \ {EINTR})

\* Mutant: errno is not set to 0 before the call.
ReaddirStale == Wrapper(readdir(errno), LAMBDA r : IsNull(r) /\ r.errno # 0,
                        unix_error)

Readdir == Wrapper(readdir(0), LAMBDA r : IsNull(r) /\ r.errno # 0, unix_error)
Closedir == Unix(Uninterrupted)

Mmap == Wrapper(Succeeds({1}) \cup Fails(MAP_FAILED, ERRNO \ {EINTR}),
                LAMBDA r : r.rc = MAP_FAILED, unix_error)
Munmap == Unix(Uninterrupted)

UnixIO == \/ Open \/ Read \/ Write \/ Lseek \/ Close \/ Select \/ Dup2 \/ Stat
          \/ Fstat \/ Opendir \/ Readdir \/ Closedir \/ Mmap \/ Munmap

-----------------------------------------------------------------------------
(* Dynamic storage and standard I/O                                        *)

Malloc == Allocates
Realloc == Allocates
Calloc == Allocates
Free == Plain

\* A short count or NULL: the end of the file, or an error that ferror() tells.
Stream(ok, short) ==
  LET With(rs, f) == {[rc |-> r.rc, errno |-> r.errno, cause |-> r.cause,
                       ferror |-> f] : r \in rs}
  IN  With(Succeeds({ok, short}), FALSE) \cup With(Fails(short, ERRNO), TRUE)

Fclose == Wrapper(Succeeds({0}) \cup Fails(EOF, ERRNO), Nonzero, unix_error)
Fdopen == Allocates
Fgets == Wrapper({[r EXCEPT !.cause = IF @ = 0 THEN 0 ELSE APP] :
                    r \in Stream(1, NULL)},
                 LAMBDA r : IsNull(r) /\ r.ferror, app_error)
Fopen == Allocates
Fputs == Wrapper(Succeeds({1}) \cup Fails(EOF, ERRNO),
                 LAMBDA r : r.rc = EOF, unix_error)
Fread == Wrapper(Stream(2, 1), LAMBDA r : r.rc < 2 /\ r.ferror, unix_error)
Fwrite == Wrapper(Succeeds({2}) \cup Fails(1, ERRNO),
                  LAMBDA r : r.rc < 2, unix_error)

Storage == Malloc \/ Realloc \/ Calloc \/ Free
StandardIO == Fclose \/ Fdopen \/ Fgets \/ Fopen \/ Fputs \/ Fread \/ Fwrite

-----------------------------------------------------------------------------
(* Sockets and names                                                       *)

Socket == Unix(Uninterrupted)
Setsockopt == Unix(Uninterrupted)
Bind == Unix(Uninterrupted)
Listen == Unix(Uninterrupted)
Accept == Unix(Interruptible)
Connect == Unix(Interruptible)

Getaddrinfo == Gai
Getnameinfo == Gai
Freeaddrinfo == Plain
Inet_ntop == Allocates

\* inet_pton() returns 0, and sets no errno, for what is not an address.
Inet_pton ==
  Wrapper(Succeeds({1}) \cup Fails(-1, ERRNO \ {EINTR})
            \cup {[rc |-> 0, errno |-> errno, cause |-> APP]},
          LAMBDA r : r.rc <= 0,
          LAMBDA r : IF r.rc = 0 THEN app_error(r) ELSE unix_error(r))

\* The resolver tells of errors in h_errno, which dns_error does not print.
Resolver == Succeeds({1}) \cup {[rc |-> NULL, errno |-> errno, cause |-> APP]}
Gethostbyname == Wrapper(Resolver, IsNull, dns_error)
Gethostbyaddr == Wrapper(Resolver, IsNull, dns_error)

Network == \/ Socket \/ Setsockopt \/ Bind \/ Listen \/ Accept \/ Connect
           \/ Getaddrinfo \/ Getnameinfo \/ Freeaddrinfo \/ Inet_ntop
           \/ Inet_pton \/ Gethostbyname \/ Gethostbyaddr

-----------------------------------------------------------------------------
(* Threads and semaphores                                                  *)

Pthread_create == Posix
Pthread_cancel == Posix
Pthread_join == Posix
Pthread_detach == Posix
Pthread_self == Plain
Pthread_once == Plain

Sem_init == Unix(Uninterrupted)
P == Unix(Interruptible)
V == Unix(Uninterrupted)

Threads == \/ Pthread_create \/ Pthread_cancel \/ Pthread_join
           \/ Pthread_detach \/ Pthread_self \/ Pthread_once
           \/ Sem_init \/ P \/ V

-----------------------------------------------------------------------------
WrappedCall == \/ ProcessControl \/ Signals \/ UnixIO \/ Storage \/ StandardIO
               \/ Network \/ Threads

\* A wrapped call never returns to its caller after a failure, and never ends
\* the program without one, whatever errno was before.  If the error is one
\* that errno still tells, or a code of its own, it is the one that is printed:
\* of the last address that was tried, say.  The failures that set no errno, or
\* whose errno is overwritten (UNSET), are excluded: the code misreports them.
ErrorsAreFatal ==
  /\ status # RUNNING <=> cause # 0
  /\ cause # UNSET => message = cause
=============================================================================
