---------------------------- MODULE SMBusManager ----------------------------
(***************************************************************************)
(* SMBUSManager, the i2c-dev endpoint.  Its only state is the descriptor   *)
(* fd_, which the modules that use it keep; each operation is the set of   *)
(* results one call may have.  A result tells the return code and what     *)
(* happened on the wire, which the caller cannot see: a transfer reported  *)
(* as failed may still have reached the device (the device takes the byte  *)
(* and the acknowledgement is lost), one reported as done did reach it.    *)
(***************************************************************************)
EXTENDS Integers

ClosedFd == -1
OpenFd == 3
Fd == {ClosedFd, OpenFd}

I2C_SMBUS_BLOCK_MAX == 32

\* The values fd_ may have after InitSMBUSManager: open() fails or succeeds,
\* and a descriptor that is open is kept.
InitSMBUSManager(fd) == IF fd >= 0 THEN {fd} ELSE Fd

WriteResult == [rc : {0, -1}, reached : BOOLEAN]

\* Mutant: the result of the ioctl is dropped.
UncheckedWriteByte(fd) == {w \in WriteResult : w.rc = 0}

\* ENXIO without a descriptor; otherwise either ioctl may fail.
SmbusWriteByte(fd) ==
  {w \in WriteResult : /\ w.rc = 0 => w.reached
                       /\ fd < 0 => w.rc = -1 /\ ~w.reached}

\* The buffer is written only on success, and then only its first
\* block[0] bytes: the others keep the bytes the stack held (stack is the set
\* of bytes an unwritten one may show, counts the set of block[0] the adapter
\* driver may hand back for this request).
SmbusSubaddressReadByteBlock(fd, requested, registers, counts, stack) ==
  LET Filled(n) ==
        {b \in [1..requested -> stack \cup {registers[i] : i \in 1..requested}] :
           \A i \in 1..requested :
              IF i <= n THEN b[i] = registers[i] ELSE b[i] \in stack}
      Done == {[rc |-> 0, resultant |-> b] : b \in UNION {Filled(n) : n \in counts}}
      Failed == {[rc |-> -1, resultant |-> <<>>]}
  IN  IF fd < 0 \/ requested > I2C_SMBUS_BLOCK_MAX THEN Failed
      ELSE Failed \cup Done

\* One byte: ret != 0 is a failure and leaves *resultant alone.
SmbusSubaddressReadByte(fd, register) ==
  {[rc |-> -1, resultant |-> <<>>]}
    \cup (IF fd >= 0 THEN {[rc |-> 0, resultant |-> <<register>>]} ELSE {})
=============================================================================
