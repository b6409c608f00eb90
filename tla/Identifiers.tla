----------------------------- MODULE Identifiers -----------------------------
(***************************************************************************)
(* The ids a browser mints where crypto.randomUUID does not exist: sixteen *)
(* random bytes, stamped as RFC 4122 asks and written in hexadecimal.  A   *)
(* digit is its value; the dashes are the seams between the groups.        *)
(***************************************************************************)
EXTENDS Integers

UUID_VERSION_INDEX == 6
UUID_VARIANT_INDEX == 8
UUID_BYTES == 16
HEX_RADIX == 16
HEX_BYTE_WIDTH == 2

(* A group of digits, from the first to before the last.                   *)
UUID_GROUPS == {<<0, 8>>, <<8, 12>>, <<12, 16>>, <<16, 20>>, <<20, 32>>}

Uint8Array == [0..(UUID_BYTES - 1) -> 0..255]

(* (byte & 0x0f) | 0x40, and (byte & 0x3f) | 0x80.                         *)
stampVersion(byte) == (byte % 16) + 64

stampVariant(byte) == (byte % 64) + 128

stamped(bytes) ==
    [bytes EXCEPT ![UUID_VERSION_INDEX] = stampVersion(@), ![UUID_VARIANT_INDEX] = stampVariant(@)]

(* toString(16), padded to two digits.                                     *)
hexOf(byte, place) == IF place = 0 THEN byte \div HEX_RADIX ELSE byte % HEX_RADIX

hex(bytes) ==
    [digit \in 0..(UUID_BYTES * HEX_BYTE_WIDTH - 1) |->
        hexOf(stamped(bytes)[digit \div HEX_BYTE_WIDTH], digit % HEX_BYTE_WIDTH)]

uuidFromRandomBytes(bytes) ==
    [group \in UUID_GROUPS |->
        [digit \in 0..(group[2] - group[1] - 1) |-> hex(bytes)[group[1] + digit]]]

(* Web Crypto may have no randomUUID: what it draws, if it can.            *)
mintUUID(randomUUID, bytes) ==
    IF randomUUID = {} THEN uuidFromRandomBytes(bytes) ELSE CHOOSE uuid \in randomUUID : TRUE

generateUniqueId(prefix, uuid) == <<prefix, uuid>>
=============================================================================
