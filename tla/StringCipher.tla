---------------------------- MODULE StringCipher ----------------------------
(***************************************************************************)
(* EncString and DecString: the key record in the EEPROM, the key the      *)
(* library keeps in RAM, and the strings that travel as hex digits.        *)
(*                                                                         *)
(* Every string command reads the record and calls setKey with it.  An     *)
(* empty key is refused by xxtea_setup_key, but not by setKey: the string  *)
(* command goes on with the key that RAM still holds.                      *)
(***************************************************************************)
EXTENDS Xxtea

CONSTANTS
  Keys,        \* keys a program sets; <<>> is the empty string
  Texts,       \* strings a program enciphers
  KeyBytes,    \* DATA_KEY_LEN_MAX: 8
  MaxText,     \* bytes EncString takes: 16
  MaxData,     \* MAX_XXTEA_DATA8: 80
  ReplyBytes,  \* bytes of dt_buf in the reply: 33
  Fail         \* the string "-FAIL-"

ASSUME CipherAssumption ==
  /\ KeyBytes \in 1..(KeyWords * WordBytes)
  /\ Keys \subseteq Seq(1..255) /\ \A k \in Keys : Len(k) <= KeyBytes
  /\ Texts \subseteq Seq(1..255) /\ \A t \in Texts : Len(t) \in 1..MaxText
  /\ MaxText \in Nat /\ MaxText % WordBytes = 0
  /\ MaxData \in Nat /\ MaxText < MaxData
  /\ ReplyBytes \in Nat /\ 2 * MaxText < ReplyBytes
  /\ Fail \notin Seq(0..15)

VARIABLES
  record,      \* the key record: [tag |-> it is valid, value |-> its bytes]
  writing,     \* bytes INIT_KEY has still to write, behind those written
  xxtea_key,   \* the key of the library, in words
  made,        \* history: the last string enciphered, and the record then
  reply        \* dt_buf of the reply to DEC_STR: [of |-> digits, is |-> string]

vars == <<record, writing, xxtea_key, made, reply>>

NoKey == [w \in 1..KeyWords |-> 0]
Erased == [tag |-> FALSE, value |-> [i \in 1..KeyBytes |-> 255]]
NoReply == [of |-> <<>>, is |-> <<>>]
NoneMade == [of |-> <<>>, is |-> <<>>, record |-> Erased]

-----------------------------------------------------------------------------
(* The library. *)

(* Mutant: key[DATA_KEY_LEN_MAX] = 0 is left out, and the string runs on.   *)
KeyOfMutant(rec) == IF rec.tag THEN CString(Append(rec.value, 7)) ELSE <<>>

(* The key of the record as ENC_STR and DEC_STR read it: the value as a C   *)
(* string, or the empty string without a valid tag.                         *)
KeyOf(rec) == IF rec.tag THEN CString(rec.value) ELSE <<>>

(* Mutant: the bytes behind a shorter key keep what they were. *)
SetupKeyMutant(key, old) ==
  LET kept == ToBytes(old)
  IN ToWords([i \in DOMAIN kept |-> IF i \in DOMAIN key THEN key[i] ELSE kept[i]],
             KeyWords)

(* xxtea_setup_key, and setKey which ignores its error: an empty key leaves *)
(* the old one in place.  A key of KeyBytes is never too long.              *)
SetupKey(key, old) == IF key = <<>> THEN old ELSE ToWords(key, KeyWords)

(* xxtea_c::encrypt, with xxtea_encrypt: zeros fill up the last word *)
Encrypt(s, key) ==
  IF Len(s) \in 1..(MaxData - 1)
  THEN ToHex(ToBytes(Code(ToWords(s, WordCount(Len(s))), key)))
  ELSE Fail

(* xxtea_c::decrypt, with xxtea_decrypt: whole words only *)
Decrypt(h, key) ==
  IF Len(h) \in 1..(2 * MaxData - 1) /\ Len(h) % (2 * WordBytes) = 0
  THEN CString(ToBytes(Decode(ToWords(FromHex(h), Len(h) \div (2 * WordBytes)), key)))
  ELSE Fail

-----------------------------------------------------------------------------
(* The firmware's commands, and power. *)

Init ==
  /\ record = Erased /\ writing = <<>> /\ xxtea_key = NoKey
  /\ made = NoneMade /\ reply = NoReply

(* The loop takes a command when it has finished the one before. *)
Idle == writing = <<>>

(* MSG_CMD_ENCRYP_RESET_KEY: the tag word alone is cleared. *)
ResetKey ==
  /\ Idle
  /\ record' = [record EXCEPT !.tag = FALSE]
  /\ reply' = NoReply
  /\ UNCHANGED <<writing, xxtea_key, made>>

(* MSG_CMD_ENCRYP_INIT_KEY writes the tag first and then the value, with    *)
(* the zeros the DLL's memset left behind the key.                          *)
InitKey(key) ==
  /\ Idle
  /\ record' = [record EXCEPT !.tag = TRUE]
  /\ writing' = [i \in 1..KeyBytes |-> Byte(key, i)]
  /\ reply' = NoReply
  /\ UNCHANGED <<xxtea_key, made>>

(* eeprom_write_block, one byte *)
WriteByte ==
  /\ writing # <<>>
  /\ record' = [record EXCEPT !.value[KeyBytes + 1 - Len(writing)] = Head(writing)]
  /\ writing' = Tail(writing)
  /\ reply' = NoReply
  /\ UNCHANGED <<xxtea_key, made>>

(* MSG_CMD_ENCRYP_ENC_STR *)
EncString(text) ==
  /\ Idle
  /\ xxtea_key' = SetupKey(KeyOf(record), xxtea_key)
  /\ made' = [of |-> text, is |-> Encrypt(text, xxtea_key'), record |-> record]
  /\ reply' = NoReply
  /\ UNCHANGED <<record, writing>>

(* MSG_CMD_ENCRYP_DEC_STR, of the first n digits of the string enciphered *)
DecString(n) ==
  /\ Idle /\ made # NoneMade
  /\ xxtea_key' = SetupKey(KeyOf(record), xxtea_key)
  /\ LET h == SubSeq(made.is, 1, n)
     IN reply' = [of |-> h, is |-> Decrypt(h, xxtea_key')]
  /\ UNCHANGED <<record, writing, made>>

(* Power is lost, or RESTART: what was not written is not, and RAM is zero. *)
Restart ==
  /\ writing' = <<>> /\ xxtea_key' = NoKey
  /\ reply' = NoReply
  /\ UNCHANGED <<record, made>>

Next ==
  \/ ResetKey \/ WriteByte \/ Restart
  \/ \E key \in Keys : InitKey(key)
  \/ \E text \in Texts : EncString(text)
  \/ \E n \in {Len(made.is), Len(made.is) - 1} : DecString(n)

Spec == Init /\ [][Next]_vars

-----------------------------------------------------------------------------
(* Properties. *)

(* Types; the key in RAM never has a byte behind KeyBytes.                  *)
TypeOK ==
  /\ record \in [tag : BOOLEAN, value : [1..KeyBytes -> 0..255]]
  /\ Len(writing) <= KeyBytes
  /\ xxtea_key \in [1..KeyWords -> Word]
  /\ \A i \in (KeyBytes + 1)..(KeyWords * WordBytes) : ToBytes(xxtea_key)[i] = 0

(* A string comes back as it was if the record is the one it was enciphered *)
(* under and has a key that is not empty, whatever other keys, torn writes  *)
(* of a key and restarts came before and between (DEC_STR, ENC_STR, setKey).*)
RoundTrip ==
  (/\ reply.of = made.is /\ reply.of # <<>>
   /\ record = made.record /\ KeyOf(record) # <<>>)
  => reply.is = made.of

(* The digits of every string EncString takes fit dt_buf with their NUL     *)
(* (strcpy, .ino:1024), and none is refused; what DecString makes of them   *)
(* fits as well.                                                            *)
ReplyFits ==
  /\ made # NoneMade => made.is # Fail /\ Len(made.is) < ReplyBytes
  /\ reply.is # Fail => Len(reply.is) < ReplyBytes

=============================================================================
