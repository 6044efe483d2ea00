--------------------------- MODULE MCCommandLoop ---------------------------
(* Instances of CommandLoop: bytes of 32 values, words of one byte.        *)
EXTENDS CommandLoop

MCCode ==
    [SYNC |-> 0, RAM_DOWNLOAD |-> 1, FLASH_DOWNLOAD |-> 2, FLASH_UPLOAD |-> 3,
     FLASH_ERASE |-> 4, FLASH_CHIP_ERASE |-> 6, RUN |-> 7, BAUD_CHANGE |-> 8,
     FLASH_SHA256 |-> 9, GET_CHIP_PRODUCT |-> 10, READ_REG |-> 11,
     WRITE_REG |-> 12, FLASH_CRC32 |-> 13, FLASH_ID |-> 14,
     FLASH_XMODEM_DL |-> 15, FLASH_XMODEM_UL |-> 16, KV_GET |-> 17,
     KV_SET |-> 18, GET_MAC |-> 19, FLASH_XMODEM_UL_Z |-> 20,
     FLASH_XMODEM_DL_Z |-> 21, RAW_XMODEM_UL |-> 22, READ_EFUSE |-> 23,
     READ_OTP |-> 24, JUMP_RAM |-> 25, NEWER |-> 26]

R(c, d) == [cmd |-> c, data |-> d]
Ranges  == {<<0, 2>>, <<1, 1>>, <<1, 2>>, <<31, 2>>}

(* Every command, and one the build does not have; ranges that are the     *)
(* whole chip, its end, one sector too long and wrapped; lengths that are  *)
(* too short and too long.                                                 *)
MCRequests ==
    {R(c, <<>>) : c \in {"SYNC", "RUN", "FLASH_ID", "GET_MAC", "FLASH_CHIP_ERASE",
                         "READ_EFUSE", "READ_OTP", "GET_CHIP_PRODUCT", "KV_GET", "KV_SET",
                         "FLASH_DOWNLOAD", "BAUD_CHANGE", "FLASH_SHA256", "READ_REG",
                         "NEWER"}}
    \cup {R(c, d) : c \in {"FLASH_ERASE", "FLASH_CRC32", "FLASH_XMODEM_DL"}, d \in Ranges}
    \cup {R("FLASH_XMODEM_DL", <<31, 1>>)}
    \cup {R(c, <<1, 1>>) : c \in {"FLASH_DOWNLOAD", "RAM_DOWNLOAD", "RAW_XMODEM_UL",
                                   "WRITE_REG", "FLASH_XMODEM_DL_Z"}}
    \cup {R(c, <<1, 2>>) : c \in {"FLASH_UPLOAD", "FLASH_DOWNLOAD", "FLASH_XMODEM_UL"}}
    \cup {R("FLASH_UPLOAD", <<0, 2>>), R("FLASH_XMODEM_UL_Z", <<1, 1, 9>>),
          R("FLASH_UPLOAD", <<0, 0, 0>>)}
    \cup {R(c, <<7>>) : c \in {"BAUD_CHANGE", "JUMP_RAM", "GET_MAC", "FLASH_ERASE",
                                "RAW_XMODEM_UL", "RAM_DOWNLOAD", "FLASH_XMODEM_DL",
                                "FLASH_XMODEM_UL"}}
    \cup {R("JUMP_RAM", <<>>), R("KV_SET", <<1, 1, 1, 1>>)}
=============================================================================
