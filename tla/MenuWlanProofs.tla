-------------------------- MODULE MenuWlanProofs --------------------------
(***************************************************************************)
(* What MenuMachine and WlanSession promise, for all values of their       *)
(* constants: the user's way through the app, and the connection it steers. *)
(*                                                                         *)
(* MenuMachine needs to know of its tables that every entry's default and  *)
(* every step from within its range is within it (OptionsSound), that the  *)
(* loader's ranges are the menu's (OptionsAgree), and where the server's   *)
(* addresses are (ServerPage), read off the tables menu by menu.  A press does *)
(* nothing more after it closed a menu since what is still held of it is   *)
(* among the buttons the next reader takes for old ones (PressInv).  What the *)
(* next start will load is what the settings are whenever the app has ended *)
(* in order (Restored).                                                    *)
(*                                                                         *)
(* In WlanSession two threads close a socket of the main thread behind its *)
(* back, by the number a global holds, and the stack gives a closed number *)
(* out again.  The watchdog is safe as it wakes only for an alarm, and an  *)
(* alarm is set only where the last attempt's number can be nobody else's; *)
(* the network's callback is safe as the session's socket is forgotten before *)
(* anything is opened again.                                               *)
(***************************************************************************)
EXTENDS MenuMachine, WlanSession, SequenceTheorems, TLAPS

-----------------------------------------------------------------------------
(* The tables *)

LEMMA PageNames ==
  Pages = {"main", "ingame", "general", "wlan_ip", "wlan_mac", "wlan", "usb", "usb_power",
           "autostart", "pc_screen", "pc_display", "pc_misc"}
BY DEF Pages, getMenuProperty

LEMMA PageOf ==
  ASSUME NEW p \in Pages
  PROVE  getMenuProperty[p] =
           CASE p = "main" -> MainMenu [] p = "ingame" -> InGameMenu
             [] p = "general" -> GeneralMenu [] p = "wlan_ip" -> WlanIPMenu
             [] p = "wlan_mac" -> WlanMACMenu [] p = "wlan" -> WlanMenu
             [] p = "usb" -> UsbMenu [] p = "usb_power" -> UsbPowerSaveMenu
             [] p = "autostart" -> AutoStartMenu [] p = "pc_screen" -> PcScreenMenu
             [] p = "pc_display" -> PcDisplayMenu [] OTHER -> PcMiscMenu
BY PageNames DEF getMenuProperty

\* A menu of at most seven entries.
Listed(s) == \E n \in 1 .. 7 : Len(s) = n /\ DOMAIN s = 1 .. n

LEMMA OfLength ==
  ASSUME NEW s, NEW n \in 1 .. 7, Len(s) = n, DOMAIN s = 1 .. n
  PROVE  Listed(s)
BY DEF Listed

LEMMA Lengths ==
  /\ Listed(MainMenu) /\ Listed(InGameMenu) /\ Listed(GeneralMenu) /\ Listed(WlanIPMenu)
  /\ Listed(WlanMACMenu) /\ Listed(WlanMenu) /\ Listed(UsbMenu) /\ Listed(UsbPowerSaveMenu)
  /\ Listed(AutoStartMenu) /\ Listed(PcScreenMenu) /\ Listed(PcDisplayMenu)
  /\ Listed(PcMiscMenu)
<1>1. Listed(MainMenu)
  <2>1. Len(MainMenu) = 4 /\ DOMAIN MainMenu = 1 .. 4
    BY DEF MainMenu
  <2> QED
    BY <2>1, OfLength
<1>2. Listed(InGameMenu)
  <2>1. Len(InGameMenu) = 5 /\ DOMAIN InGameMenu = 1 .. 5
    BY DEF InGameMenu
  <2> QED
    BY <2>1, OfLength
<1>3. Listed(GeneralMenu)
  <2>1. Len(GeneralMenu) = 6 /\ DOMAIN GeneralMenu = 1 .. 6
    BY DEF GeneralMenu
  <2> QED
    BY <2>1, OfLength
<1>4. Listed(WlanIPMenu)
  <2>1. Len(WlanIPMenu) = Hosts + 2 /\ DOMAIN WlanIPMenu = 1 .. Hosts + 2
    BY TablesAssumption DEF WlanIPMenu
  <2>2. Hosts + 2 \in 1 .. 7
    BY TablesAssumption
  <2> QED
    BY <2>1, <2>2, OfLength, Zenon
<1>5. Listed(WlanMACMenu)
  <2>1. Len(WlanMACMenu) = Hosts + 2 /\ DOMAIN WlanMACMenu = 1 .. Hosts + 2
    BY TablesAssumption DEF WlanMACMenu
  <2>2. Hosts + 2 \in 1 .. 7
    BY TablesAssumption
  <2> QED
    BY <2>1, <2>2, OfLength, Zenon
<1>6. Listed(WlanMenu)
  <2>1. Len(WlanMenu) = 3 /\ DOMAIN WlanMenu = 1 .. 3
    BY DEF WlanMenu
  <2> QED
    BY <2>1, OfLength
<1>7. Listed(UsbMenu)
  <2>1. Len(UsbMenu) = 2 /\ DOMAIN UsbMenu = 1 .. 2
    BY DEF UsbMenu
  <2> QED
    BY <2>1, OfLength
<1>8. Listed(UsbPowerSaveMenu)
  <2>1. Len(UsbPowerSaveMenu) = 5 /\ DOMAIN UsbPowerSaveMenu = 1 .. 5
    BY DEF UsbPowerSaveMenu
  <2> QED
    BY <2>1, OfLength
<1>9. Listed(AutoStartMenu)
  <2>1. Len(AutoStartMenu) = 2 /\ DOMAIN AutoStartMenu = 1 .. 2
    BY DEF AutoStartMenu
  <2> QED
    BY <2>1, OfLength
<1>10. Listed(PcScreenMenu)
  <2>1. Len(PcScreenMenu) = 6 /\ DOMAIN PcScreenMenu = 1 .. 6
    BY DEF PcScreenMenu
  <2> QED
    BY <2>1, OfLength
<1>11. Listed(PcDisplayMenu)
  <2>1. Len(PcDisplayMenu) = 4 /\ DOMAIN PcDisplayMenu = 1 .. 4
    BY DEF PcDisplayMenu
  <2> QED
    BY <2>1, OfLength
<1>12. Listed(PcMiscMenu)
  <2>1. Len(PcMiscMenu) = 4 /\ DOMAIN PcMiscMenu = 1 .. 4
    BY DEF PcMiscMenu
  <2> QED
    BY <2>1, OfLength
<1> QED
  BY <1>1, <1>2, <1>3, <1>4, <1>5, <1>6, <1>7, <1>8,
     <1>9, <1>10, <1>11, <1>12

LEMMA PagesListed == \A p \in Pages : Listed(getMenuProperty[p])
<1> SUFFICES ASSUME NEW p \in Pages PROVE Listed(getMenuProperty[p])
  OBVIOUS
<1> HIDE DEF Listed
<1> QED
  BY PageOf, Lengths, PageNames

\* What the entries of a page are called.
AddressNames == {"wlanIPAddress1", "wlanIPAddress2", "wlanIPAddress3", "wlanIPAddress4",
              "wlanIPAddress5"}
MacNames == {"wlanMACAddress1", "wlanMACAddress2", "wlanMACAddress3", "wlanMACAddress4",
         "wlanMACAddress5"}
NamesOn(p) ==
  CASE p = "main" -> {"usb", "wlan", "settings", "quit"}
    [] p = "ingame" -> {"resume", "keyboard", "settings", "pcSettings", "quit"}
    [] p = "general" ->
         {"brightness", "setBrightness", "buttonSwap", "timeFormat", "verboseBattery",
          "transparentMenu"}
    [] p = "wlan_ip" -> {"wlanIPIndex", "wlanPortOffset"} \cup AddressNames
    [] p = "wlan_mac" ->
         {"wlanEnableWakeOnLan", "wlanEnableWakeOnLanBroadcasting"} \cup MacNames
    [] p = "wlan" -> {"wlanClockSpeed", "wlanPassword", "wlanLedEnabled"}
    [] p = "usb" -> {"usbClockSpeed", "usbMode"}
    [] p = "usb_power" ->
         {"usbSave", "usbSaveTimeout", "usbSaveScreenBacklight", "usbSaveClearScreen",
          "usbSaveDownClock"}
    [] p = "autostart" -> {"autoMode", "autoTimeout"}
    [] p = "pc_screen" ->
         {"screenMode", "screenViewport", "screenRotation", "quality",
          "screenNoCompression", "updateInterval"}
    [] p = "pc_display" ->
         {"displayEnable", "displayDeviceIndex", "displayAutoselect",
          "deviceUseSideShow"}
    [] OTHER -> {"soundEnabled", "soundSampleRate", "controlIndex", "presetIndex"}

LEMMA HostNames == \A h \in 1 .. Hosts : Address(h) \in AddressNames /\ Mac(h) \in MacNames
BY TablesAssumption DEF Address, Mac, AddressNames, MacNames

\* An entry of the two pages with a line for each host is the first, the last or a host's.
LEMMA HostLines ==
  ASSUME NEW i \in 1 .. Hosts + 2
  PROVE  \/ i = 1
         \/ i = Hosts + 2 /\ i # 1
         \/ i # 1 /\ i # Hosts + 2 /\ i - 1 \in 1 .. Hosts
BY TablesAssumption

LEMMA WlanIPLines ==
  ASSUME NEW i \in DOMAIN WlanIPMenu
  PROVE  \/ i = 1 /\ WlanIPMenu[i] = Number("wlanIPIndex", 1, 1, Hosts, 1)
         \/ i = Hosts + 2 /\ WlanIPMenu[i] = Choice("wlanPortOffset", 0, 9)
         \/ i - 1 \in 1 .. Hosts /\ WlanIPMenu[i] = Word(Address(i - 1), "192.168.0.1")
<1>1. i \in 1 .. Hosts + 2
  BY DEF WlanIPMenu
<1> QED
  BY <1>1, HostLines DEF WlanIPMenu

LEMMA WlanMACLines ==
  ASSUME NEW i \in DOMAIN WlanMACMenu
  PROVE  \/ i = 1 /\ WlanMACMenu[i] = Choice("wlanEnableWakeOnLan", 0, 1)
         \/ /\ i = Hosts + 2
            /\ WlanMACMenu[i] = Choice("wlanEnableWakeOnLanBroadcasting", 0, 1)
         \/ i - 1 \in 1 .. Hosts /\ WlanMACMenu[i] = Word(Mac(i - 1), "00:00:00:00:00:00")
<1>1. i \in 1 .. Hosts + 2
  BY DEF WlanMACMenu
<1> QED
  BY <1>1, HostLines DEF WlanMACMenu

\* The names on each page are those of NamesOn.
LEMMA EntryNames ==
  ASSUME NEW p \in Pages, NEW i \in DOMAIN getMenuProperty[p]
  PROVE  getMenuProperty[p][i].name \in NamesOn(p)
<1> DEFINE Called(s, q) == \A j \in DOMAIN s : s[j].name \in NamesOn(q)
<1> USE DEF Click, Number, Choice, Word, MenuEntry
<1>1. Called(MainMenu, "main")
  BY DEF MainMenu, NamesOn
<1>2. Called(InGameMenu, "ingame")
  BY DEF InGameMenu, NamesOn
<1>3. Called(GeneralMenu, "general")
  BY DEF GeneralMenu, NamesOn
<1>4. Called(WlanIPMenu, "wlan_ip")
  BY WlanIPLines, HostNames DEF NamesOn
<1>5. Called(WlanMACMenu, "wlan_mac")
  BY WlanMACLines, HostNames DEF NamesOn
<1>6. Called(WlanMenu, "wlan")
  BY DEF WlanMenu, NamesOn
<1>7. Called(UsbMenu, "usb")
  BY DEF UsbMenu, NamesOn
<1>8. Called(UsbPowerSaveMenu, "usb_power")
  BY DEF UsbPowerSaveMenu, NamesOn
<1>9. Called(AutoStartMenu, "autostart")
  BY DEF AutoStartMenu, NamesOn
<1>10. Called(PcScreenMenu, "pc_screen")
  BY DEF PcScreenMenu, NamesOn
<1>11. Called(PcDisplayMenu, "pc_display")
  BY DEF PcDisplayMenu, NamesOn
<1>12. Called(PcMiscMenu, "pc_misc")
  BY DEF PcMiscMenu, NamesOn
<1> HIDE DEF Called
<1>13. Called(getMenuProperty[p], p)
  BY PageOf, PageNames, <1>1, <1>2, <1>3, <1>4, <1>5, <1>6, <1>7, <1>8, <1>9, <1>10,
     <1>11, <1>12
<1> QED
  BY <1>13 DEF Called

\* The address and the index of the server are on one page only.
LEMMA ServerPage ==
  ASSUME NEW p \in Pages, NEW i \in DOMAIN getMenuProperty[p],
         getMenuProperty[p][i].name \in Server
  PROVE  p = "wlan_ip"
<1>1. Server \subseteq {"wlanIPIndex"} \cup AddressNames
  BY HostNames DEF Server
<1> QED
  BY <1>1, EntryNames, PageNames DEF NamesOn, AddressNames, MacNames

\* Nothing but the main and the in-game menu opens a menu.
LEMMA NestedPage ==
  ASSUME NEW p \in Pages, NEW i \in DOMAIN getMenuProperty[p],
         getMenuProperty[p][i].name \in {"settings", "pcSettings"}
  PROVE  p \in {"main", "ingame"}
BY EntryNames, PageNames DEF NamesOn, AddressNames, MacNames

\* The pages a trigger leads to.
After(p) ==
  CASE p = "general" -> "wlan_ip" [] p = "wlan_ip" -> "wlan_mac" [] p = "wlan_mac" -> "wlan"
    [] p = "wlan" -> "usb" [] p = "usb" -> "usb_power" [] p = "usb_power" -> "autostart"
    [] p = "autostart" -> "general" [] p = "pc_screen" -> "pc_display"
    [] p = "pc_display" -> "pc_misc" [] p = "pc_misc" -> "pc_screen" [] OTHER -> p

LEMMA NextPage == \A p \in Pages : nextMenuId[p] = After(p)
<1> SUFFICES ASSUME NEW p \in Pages PROVE nextMenuId[p] = After(p)
  OBVIOUS
<1> DEFINE ring == RingOf(p)
           i == CHOOSE i \in DOMAIN ring : ring[i] = p
<1>1. nextMenuId[p] = ring[(i % Len(ring)) + 1]
  BY DEF nextMenuId
<1>2. CASE \E j \in DOMAIN Ring : Ring[j] = p
  <2>1. ring = Ring
    <3>1. ~ \E j \in DOMAIN PcRing : PcRing[j] = p
      BY <1>2 DEF Ring, PcRing
    <3> QED
      BY <1>2, <3>1 DEF RingOf
  <2>2. i \in DOMAIN Ring /\ Ring[i] = p
    BY <1>2, <2>1
  <2> HIDE DEF i, ring
  <2>3. i \in 1 .. 7 /\ Len(Ring) = 7
    BY <2>2 DEF Ring
  <2>4. Ring[(i % 7) + 1] = After(Ring[i])
    <3>1. i \in {1, 2, 3, 4, 5, 6, 7}
      BY <2>3
    <3> QED
      BY <3>1 DEF Ring, After
  <2> QED
    BY <1>1, <2>1, <2>2, <2>3, <2>4
<1>3. CASE \E j \in DOMAIN PcRing : PcRing[j] = p
  <2>1. ring = PcRing
    <3>1. ~ \E j \in DOMAIN Ring : Ring[j] = p
      BY <1>3 DEF Ring, PcRing
    <3> QED
      BY <1>3, <3>1 DEF RingOf
  <2>2. i \in DOMAIN PcRing /\ PcRing[i] = p
    BY <1>3, <2>1
  <2> HIDE DEF i, ring
  <2>3. i \in 1 .. 3 /\ Len(PcRing) = 3
    BY <2>2 DEF PcRing
  <2>4. PcRing[(i % 3) + 1] = After(PcRing[i])
    <3>1. i \in {1, 2, 3}
      BY <2>3
    <3> QED
      BY <3>1 DEF PcRing, After
  <2> QED
    BY <1>1, <2>1, <2>2, <2>3, <2>4
<1>4. CASE p \in {"main", "ingame"}
  <2>1. ring = <<p>>
    BY <1>4 DEF RingOf, Ring, PcRing
  <2>2. i \in DOMAIN ring
    BY <2>1
  <2> HIDE DEF i
  <2>3. i = 1 /\ Len(ring) = 1
    BY <2>1, <2>2
  <2> QED
    BY <1>1, <1>4, <2>1, <2>3 DEF After
<1>5. p \notin {"main", "ingame"} =>
        (\E j \in DOMAIN Ring : Ring[j] = p) \/ (\E j \in DOMAIN PcRing : PcRing[j] = p)
  <2>1. /\ Ring[1] = "general" /\ Ring[2] = "wlan_ip" /\ Ring[3] = "wlan_mac"
        /\ Ring[4] = "wlan" /\ Ring[5] = "usb" /\ Ring[6] = "usb_power"
        /\ Ring[7] = "autostart" /\ DOMAIN Ring = 1 .. 7
    BY DEF Ring
  <2>2. /\ PcRing[1] = "pc_screen" /\ PcRing[2] = "pc_display" /\ PcRing[3] = "pc_misc"
        /\ DOMAIN PcRing = 1 .. 3
    BY DEF PcRing
  <2> QED
    BY <2>1, <2>2, PageNames
<1> QED
  BY <1>2, <1>3, <1>4, <1>5

\* A trigger leads from a page of the settings to one.
LEMMA PagesTurned ==
  ASSUME NEW p \in Pages \ {"main", "ingame"}
  PROVE  /\ nextMenuId[p] \in Pages \ {"main", "ingame"}
         /\ previousMenuId[p] \in Pages \ {"main", "ingame"}
<1>1. nextMenuId[p] \in Pages \ {"main", "ingame"}
  BY NextPage, PageNames DEF After
<1>2. \E q \in Pages : nextMenuId[q] = p
  <2>1. \E q \in Pages : After(q) = p
    BY PageNames DEF After
  <2> QED
    BY <2>1, NextPage
<1>3. previousMenuId[p] \in Pages /\ nextMenuId[previousMenuId[p]] = p
  BY <1>2 DEF previousMenuId
<1> QED
  BY <1>1, <1>3, NextPage, PageNames DEF After

-----------------------------------------------------------------------------
(* The settings *)

LEMMA HostNamesDiffer ==
  ASSUME NEW g \in 1 .. Hosts, NEW h \in 1 .. Hosts, g # h
  PROVE  Address(g) # Address(h) /\ Mac(g) # Mac(h)
<1>1. g \in {1, 2, 3, 4, 5} /\ h \in {1, 2, 3, 4, 5}
  BY TablesAssumption
<1> QED
  BY <1>1 DEF Address, Mac

\* No two entries of a page bear the same name.
LEMMA OneLine ==
  ASSUME NEW p \in Pages, NEW i \in DOMAIN getMenuProperty[p],
         NEW j \in DOMAIN getMenuProperty[p],
         getMenuProperty[p][i].name = getMenuProperty[p][j].name
  PROVE  i = j
<1> DEFINE Apart(s) == \A k, l \in DOMAIN s : s[k].name = s[l].name => k = l
<1> USE DEF Click, Number, Choice, Word, MenuEntry
<1>1. Apart(MainMenu)
  BY DEF MainMenu
<1>2. Apart(InGameMenu)
  BY DEF InGameMenu
<1>3. Apart(GeneralMenu)
  BY DEF GeneralMenu
<1>4. Apart(WlanIPMenu)
  <2> SUFFICES ASSUME NEW k \in DOMAIN WlanIPMenu, NEW l \in DOMAIN WlanIPMenu,
                      WlanIPMenu[k].name = WlanIPMenu[l].name
               PROVE  k = l
    OBVIOUS
  <2>1. k \in 1 .. Hosts + 2 /\ l \in 1 .. Hosts + 2 /\ Hosts \in 1 .. 5
    BY TablesAssumption DEF WlanIPMenu
  <2> QED
    BY <2>1, WlanIPLines, HostNames, HostNamesDiffer DEF AddressNames, MacNames
<1>5. Apart(WlanMACMenu)
  <2> SUFFICES ASSUME NEW k \in DOMAIN WlanMACMenu, NEW l \in DOMAIN WlanMACMenu,
                      WlanMACMenu[k].name = WlanMACMenu[l].name
               PROVE  k = l
    OBVIOUS
  <2>1. k \in 1 .. Hosts + 2 /\ l \in 1 .. Hosts + 2 /\ Hosts \in 1 .. 5
    BY TablesAssumption DEF WlanMACMenu
  <2> QED
    BY <2>1, WlanMACLines, HostNames, HostNamesDiffer DEF AddressNames, MacNames
<1>6. Apart(WlanMenu)
  BY DEF WlanMenu
<1>7. Apart(UsbMenu)
  BY DEF UsbMenu
<1>8. Apart(UsbPowerSaveMenu)
  BY DEF UsbPowerSaveMenu
<1>9. Apart(AutoStartMenu)
  BY DEF AutoStartMenu
<1>10. Apart(PcScreenMenu)
  BY DEF PcScreenMenu
<1>11. Apart(PcDisplayMenu)
  BY DEF PcDisplayMenu
<1>12. Apart(PcMiscMenu)
  BY DEF PcMiscMenu
<1> HIDE DEF Apart
<1>13. Apart(getMenuProperty[p])
  BY PageOf, PageNames, <1>1, <1>2, <1>3, <1>4, <1>5, <1>6, <1>7, <1>8, <1>9, <1>10,
     <1>11, <1>12
<1> QED
  BY <1>13 DEF Apart

\* Only the main and the in-game menu have buttons, and nothing else.
\* Buttons are on the main and the in-game menu, and nowhere else.
LEMMA Kinds ==
  ASSUME NEW p \in Pages, NEW i \in DOMAIN getMenuProperty[p]
  PROVE  getMenuProperty[p][i].kind = "button" <=> p \in {"main", "ingame"}
<1> DEFINE Buttons(s) == \A j \in DOMAIN s : s[j].kind = "button"
           Values(s) == \A j \in DOMAIN s : s[j].kind # "button"
<1> USE DEF Click, Number, Choice, Word, MenuEntry
<1>1. Buttons(MainMenu)
  BY DEF MainMenu
<1>2. Buttons(InGameMenu)
  BY DEF InGameMenu
<1>3. Values(GeneralMenu)
  BY DEF GeneralMenu
<1>4. Values(WlanIPMenu)
  BY WlanIPLines
<1>5. Values(WlanMACMenu)
  BY WlanMACLines
<1>6. Values(WlanMenu)
  BY DEF WlanMenu
<1>7. Values(UsbMenu)
  BY DEF UsbMenu
<1>8. Values(UsbPowerSaveMenu)
  BY DEF UsbPowerSaveMenu
<1>9. Values(AutoStartMenu)
  BY DEF AutoStartMenu
<1>10. Values(PcScreenMenu)
  BY DEF PcScreenMenu
<1>11. Values(PcDisplayMenu)
  BY DEF PcDisplayMenu
<1>12. Values(PcMiscMenu)
  BY DEF PcMiscMenu
<1> HIDE DEF Buttons, Values
<1>13. IF p \in {"main", "ingame"} THEN Buttons(getMenuProperty[p])
                                  ELSE Values(getMenuProperty[p])
  BY PageOf, PageNames, <1>1, <1>2, <1>3, <1>4, <1>5, <1>6, <1>7, <1>8, <1>9, <1>10,
     <1>11, <1>12
<1> QED
  BY <1>13 DEF Buttons, Values

\* The entry of a setting is the only one of that name.
LEMMA OptionIsEntry ==
  ASSUME NEW p \in Pages, NEW i \in DOMAIN getMenuProperty[p],
         getMenuProperty[p][i].kind # "button"
  PROVE  /\ getMenuProperty[p][i].name \in Settings
         /\ Option[getMenuProperty[p][i].name] = getMenuProperty[p][i]
<1> DEFINE e == getMenuProperty[p][i]
<1>1. e \in Options
  BY DEF Options, Entries
<1>2. ASSUME NEW o \in Options, o.name = e.name PROVE o = e
  <2>6. PICK q \in Pages : \E j \in DOMAIN getMenuProperty[q] : o = getMenuProperty[q][j]
    BY DEF Options, Entries
  <2>1. PICK j \in DOMAIN getMenuProperty[q] : o = getMenuProperty[q][j]
    BY <2>6
  <2>2. o.kind # "button"
    BY DEF Options
  <2>3. p \notin {"main", "ingame"} /\ q \notin {"main", "ingame"}
    BY <2>1, <2>2, Kinds
  <2>4. e.name \in NamesOn(p) /\ o.name \in NamesOn(q)
    BY <2>1, EntryNames
  <2>5. p = q
    BY <2>3, <2>4, <1>2, PageNames DEF NamesOn, AddressNames, MacNames
  <2> QED
    BY <2>1, <2>5, <1>2, OneLine
<1>3. e.name \in Settings
  BY <1>1 DEF Settings
<1> HIDE DEF e
<1>4. Option[e.name] = e
  BY <1>1, <1>2, <1>3 DEF Option
<1> QED
  BY <1>3, <1>4 DEF e

\* What an entry may be set to makes sense, and its default is one of it.
Sound(e) ==
  \/ e.kind = "word" /\ e.word \in Words
  \/ /\ e.kind = "number"
     /\ e.min \in Int /\ e.max \in Int /\ e.default \in e.min .. e.max
     /\ e.step \in Nat \ {0}

LEMMA SoundEntries ==
  ASSUME NEW p \in Pages, NEW i \in DOMAIN getMenuProperty[p]
  PROVE  p \in {"main", "ingame"} \/ Sound(getMenuProperty[p][i])
<1> DEFINE SoundPage(s) == \A j \in DOMAIN s : Sound(s[j])
<1> USE DEF Number, Choice, Word, MenuEntry, Sound
<1>1. SoundPage(GeneralMenu)
  BY DEF GeneralMenu
<1>2. SoundPage(WlanIPMenu)
  BY WlanIPLines, TablesAssumption
<1>3. SoundPage(WlanMACMenu)
  BY WlanMACLines, TablesAssumption
<1>4. SoundPage(WlanMenu)
  BY TablesAssumption DEF WlanMenu
<1>5. SoundPage(UsbMenu)
  BY DEF UsbMenu
<1>6. SoundPage(UsbPowerSaveMenu)
  BY TablesAssumption DEF UsbPowerSaveMenu
<1>7. SoundPage(AutoStartMenu)
  BY TablesAssumption DEF AutoStartMenu
<1>8. SoundPage(PcScreenMenu)
  BY DEF PcScreenMenu
<1>9. SoundPage(PcDisplayMenu)
  BY DEF PcDisplayMenu
<1>10. SoundPage(PcMiscMenu)
  BY DEF PcMiscMenu
<1> HIDE DEF SoundPage, Sound
<1>11. p \in {"main", "ingame"} \/ SoundPage(getMenuProperty[p])
  BY PageOf, PageNames, <1>1, <1>2, <1>3, <1>4, <1>5, <1>6, <1>7, <1>8, <1>9, <1>10
<1> QED
  BY <1>11 DEF SoundPage

LEMMA OptionsSound ==
  ASSUME NEW s \in Settings
  PROVE  Sound(Option[s]) /\ Option[s].name = s /\ Option[s] \in Options
<1>1. Option[s] \in Options /\ Option[s].name = s
  BY DEF Option, Settings
<1>4. PICK q \in Pages :
      \E j \in DOMAIN getMenuProperty[q] : Option[s] = getMenuProperty[q][j]
  BY <1>1 DEF Options, Entries
<1>2. PICK j \in DOMAIN getMenuProperty[q] : Option[s] = getMenuProperty[q][j]
  BY <1>4
<1>3. Option[s].kind # "button"
  BY <1>1 DEF Options
<1> QED
  BY <1>1, <1>2, <1>3, Kinds, SoundEntries

\* Whatever the menu makes of a value stays within the entry's limits: steps, the
\* default and the keyboard.
LEMMA StepsStayWithin ==
  ASSUME NEW e, Sound(e), e.kind = "number", NEW x \in Limits(e)
  PROVE  increaseValue(e, x) \in Limits(e) /\ decreaseValue(e, x) \in Limits(e)
BY DEF Sound, Limits, increaseValue, decreaseValue

LEMMA DefaultWithin ==
  ASSUME NEW e, Sound(e)
  PROVE  DefaultOf(e) \in Limits(e)
BY DEF Sound, Limits, DefaultOf

LEMMA KeyboardWithin ==
  ASSUME NEW e, Sound(e), NEW x \in Keyboard(e)
  PROVE  x \in Limits(e)
BY MenuAssumption DEF Sound, Limits, Keyboard, Within

\* The file's limits and defaults are the menu's, of every setting it keeps.
Agrees(e) ==
  /\ e.name \in DOMAIN FileNumbers =>
       /\ e.kind = "number"
       /\ FileNumbers[e.name] = InFile(e.default, e.min, e.max)
  /\ e.name \in FileStrings =>
       /\ e.kind = "word"
       /\ e.name \notin DOMAIN FileNumbers
       /\ e.word = StringDefault(e.name)

FileStringNames == {"wlanPassword"} \cup AddressNames \cup MacNames

LEMMA FileNumberNames ==
  DOMAIN FileNumbers =
    {"usbSaveTimeout", "usbSave", "usbSaveScreenBacklight", "usbSaveClearScreen",
     "usbSaveDownClock", "usbClockSpeed", "usbMode", "wlanClockSpeed", "wlanLedEnabled",
     "autoMode", "autoTimeout", "wlanIPIndex", "wlanPortOffset", "wlanEnableWakeOnLan",
     "wlanEnableWakeOnLanBroadcasting", "brightness", "setBrightness", "buttonSwap",
     "timeFormat", "verboseBattery", "transparentMenu"}
BY DEF FileNumbers

\* Each entry of each menu against the loader's call for its name.
LEMMA EntriesAgree ==
  ASSUME NEW p \in Pages \ {"main", "ingame"}, NEW i \in DOMAIN getMenuProperty[p]
  PROVE  Agrees(getMenuProperty[p][i])
<1> DEFINE AgreesAll(s) == \A j \in DOMAIN s : Agrees(s[j])
<1>20. FileStrings \subseteq FileStringNames
  BY HostNames DEF FileStrings, FileStringNames
<1>21. "wlanPassword" \in FileStrings
  BY DEF FileStrings
<1> USE DEF Number, Choice, Word, MenuEntry, Agrees
<1>1. AgreesAll(GeneralMenu)
  <2>1. Agrees(Number("brightness", 100, 4, 100, 4))
    BY <1>20 DEF FileNumbers, InFile, FileStringNames, AddressNames, MacNames
  <2>2. Agrees(Choice("setBrightness", 0, 1))
    BY <1>20 DEF FileNumbers, InFile, FileStringNames, AddressNames, MacNames
  <2>3. Agrees(Choice("buttonSwap", 0, 2))
    BY <1>20 DEF FileNumbers, InFile, FileStringNames, AddressNames, MacNames
  <2>4. Agrees(Choice("timeFormat", 0, 2))
    BY <1>20 DEF FileNumbers, InFile, FileStringNames, AddressNames, MacNames
  <2>5. Agrees(Choice("verboseBattery", 1, 1))
    BY <1>20 DEF FileNumbers, InFile, FileStringNames, AddressNames, MacNames
  <2>6. Agrees(Choice("transparentMenu", 1, 1))
    BY <1>20 DEF FileNumbers, InFile, FileStringNames, AddressNames, MacNames
  <2> HIDE DEF Agrees, Number, Choice, Word
  <2> QED
    BY <2>1, <2>2, <2>3, <2>4, <2>5, <2>6 DEF GeneralMenu
<1>4. AgreesAll(WlanMenu)
  <2>1. Agrees(Choice("wlanClockSpeed", 0, 5))
    BY <1>20 DEF FileNumbers, InFile, FileStringNames, AddressNames, MacNames
  <2>2. Agrees(Word("wlanPassword", Empty))
    BY FileNumberNames DEF StringDefault
  <2>3. Agrees(Choice("wlanLedEnabled", 1, 1))
    BY <1>20 DEF FileNumbers, InFile, FileStringNames, AddressNames, MacNames
  <2> HIDE DEF Agrees, Number, Choice, Word
  <2> QED
    BY <2>1, <2>2, <2>3 DEF WlanMenu
<1>5. AgreesAll(UsbMenu)
  <2>1. Agrees(Choice("usbClockSpeed", 0, 5))
    BY <1>20 DEF FileNumbers, InFile, FileStringNames, AddressNames, MacNames
  <2>2. Agrees(Choice("usbMode", 1, 1))
    BY <1>20 DEF FileNumbers, InFile, FileStringNames, AddressNames, MacNames
  <2> HIDE DEF Agrees, Number, Choice, Word
  <2> QED
    BY <2>1, <2>2 DEF UsbMenu
<1>6. AgreesAll(UsbPowerSaveMenu)
  <2>1. Agrees(Choice("usbSave", 1, 1))
    BY <1>20 DEF FileNumbers, InFile, FileStringNames, AddressNames, MacNames
  <2>2. Agrees(Number("usbSaveTimeout", 5, 2, Longest, 1))
    BY <1>20 DEF FileNumbers, InFile, FileStringNames, AddressNames, MacNames
  <2>3. Agrees(Choice("usbSaveScreenBacklight", 1, 2))
    BY <1>20 DEF FileNumbers, InFile, FileStringNames, AddressNames, MacNames
  <2>4. Agrees(Choice("usbSaveClearScreen", 0, 1))
    BY <1>20 DEF FileNumbers, InFile, FileStringNames, AddressNames, MacNames
  <2>5. Agrees(Choice("usbSaveDownClock", 0, 1))
    BY <1>20 DEF FileNumbers, InFile, FileStringNames, AddressNames, MacNames
  <2> HIDE DEF Agrees, Number, Choice, Word
  <2> QED
    BY <2>1, <2>2, <2>3, <2>4, <2>5 DEF UsbPowerSaveMenu
<1>7. AgreesAll(AutoStartMenu)
  <2>1. Agrees(Choice("autoMode", 0, 2))
    BY <1>20 DEF FileNumbers, InFile, FileStringNames, AddressNames, MacNames
  <2>2. Agrees(Number("autoTimeout", 10, 0, Longest, 1))
    BY <1>20 DEF FileNumbers, InFile, FileStringNames, AddressNames, MacNames
  <2> HIDE DEF Agrees, Number, Choice, Word
  <2> QED
    BY <2>1, <2>2 DEF AutoStartMenu
<1>8. AgreesAll(PcScreenMenu)
  <2>1. \A j \in DOMAIN PcScreenMenu :
          PcScreenMenu[j].name \notin DOMAIN FileNumbers \cup FileStringNames
    BY FileNumberNames DEF PcScreenMenu, FileStringNames, AddressNames, MacNames
  <2> QED
    BY <1>20, <2>1
<1>9. AgreesAll(PcDisplayMenu)
  <2>1. \A j \in DOMAIN PcDisplayMenu :
          PcDisplayMenu[j].name \notin DOMAIN FileNumbers \cup FileStringNames
    BY FileNumberNames DEF PcDisplayMenu, FileStringNames, AddressNames, MacNames
  <2> QED
    BY <1>20, <2>1
<1>10. AgreesAll(PcMiscMenu)
  <2>1. \A j \in DOMAIN PcMiscMenu :
          PcMiscMenu[j].name \notin DOMAIN FileNumbers \cup FileStringNames
    BY FileNumberNames DEF PcMiscMenu, FileStringNames, AddressNames, MacNames
  <2> QED
    BY <1>20, <2>1
<1>2. AgreesAll(WlanIPMenu)
  <2> SUFFICES ASSUME NEW j \in DOMAIN WlanIPMenu PROVE Agrees(WlanIPMenu[j])
    OBVIOUS
  <2>1. CASE j - 1 \in 1 .. Hosts /\ WlanIPMenu[j] = Word(Address(j - 1), "192.168.0.1")
    <3>1. Address(j - 1) \in AddressNames
      BY <2>1, HostNames
    <3>2. StringDefault(Address(j - 1)) = "192.168.0.1"
      BY <2>1, <3>1 DEF StringDefault, AddressNames
    <3> QED
      BY <2>1, <3>1, <3>2 DEF FileNumbers, AddressNames
  <2> QED
    BY <1>20, <2>1, WlanIPLines
       DEF FileNumbers, InFile, FileStringNames, AddressNames, MacNames
<1>3. AgreesAll(WlanMACMenu)
  <2> SUFFICES ASSUME NEW j \in DOMAIN WlanMACMenu PROVE Agrees(WlanMACMenu[j])
    OBVIOUS
  <2>1. CASE j - 1 \in 1 .. Hosts /\ WlanMACMenu[j] = Word(Mac(j - 1), "00:00:00:00:00:00")
    <3>1. Mac(j - 1) \in MacNames
      BY <2>1, HostNames
    <3>2. StringDefault(Mac(j - 1)) = "00:00:00:00:00:00"
      BY <2>1, <3>1, HostNames DEF StringDefault, AddressNames, MacNames
    <3> QED
      BY <2>1, <3>1, <3>2 DEF FileNumbers, MacNames
  <2> QED
    BY <1>20, <2>1, WlanMACLines
       DEF FileNumbers, InFile, FileStringNames, AddressNames, MacNames
<1> HIDE DEF AgreesAll, Agrees
<1>11. AgreesAll(getMenuProperty[p])
  BY PageOf, PageNames, <1>1, <1>2, <1>3, <1>4, <1>5, <1>6, <1>7, <1>8, <1>9, <1>10
<1> QED
  BY <1>11 DEF AgreesAll

LEMMA OptionsAgree ==
  ASSUME NEW s \in Settings
  PROVE  Agrees(Option[s])
<1>1. PICK q \in Pages :
      \E j \in DOMAIN getMenuProperty[q] : Option[s] = getMenuProperty[q][j]
  BY OptionsSound DEF Options, Entries
<1>2. PICK j \in DOMAIN getMenuProperty[q] : Option[s] = getMenuProperty[q][j]
  BY <1>1
<1>3. Option[s].kind # "button"
  BY OptionsSound DEF Options
<1> QED
  BY <1>2, <1>3, Kinds, EntriesAgree

-----------------------------------------------------------------------------
(* The menuLoops under way *)

\* f is on an entry of its page, and the lowest menu is the main or the in-game menu.
GoodLoop(f, depth) ==
  /\ f \in Loops
  /\ f.sel \in DOMAIN getMenuProperty[f.page]
  /\ (depth = 1) <=> (f.page \in {"main", "ingame"})

\* At most two menuLoops, the upper one for settings.
GoodStack(s) ==
  /\ s \in Seq(Loops) /\ Len(s) <= 2
  /\ \A i \in DOMAIN s : GoodLoop(s[i], i)

LEMMA Replaced ==
  ASSUME NEW s, GoodStack(s), s # <<>>, NEW f, GoodLoop(f, Len(s))
  PROVE  /\ GoodStack([s EXCEPT ![Len(s)] = f])
         /\ Len([s EXCEPT ![Len(s)] = f]) = Len(s)
         /\ [s EXCEPT ![Len(s)] = f][Len(s)] = f
<1>1. s \in Seq(Loops) /\ Len(s) \in 1 .. 2 /\ DOMAIN s = 1 .. Len(s) /\ f \in Loops
  <2>1. s \in Seq(Loops) /\ Len(s) <= 2 /\ f \in Loops
    BY DEF GoodStack, GoodLoop
  <2>2. Len(s) \in Nat /\ DOMAIN s = 1 .. Len(s)
    BY <2>1
  <2>3. Len(s) # 0
    BY <2>1
  <2> QED
    BY <2>1, <2>2, <2>3
<1> DEFINE t == [s EXCEPT ![Len(s)] = f]
<1>2. t \in Seq(Loops) /\ Len(t) = Len(s) /\ DOMAIN t = DOMAIN s
  BY <1>1
<1>3. \A i \in DOMAIN s : t[i] = IF i = Len(s) THEN f ELSE s[i]
  BY <1>1
<1> HIDE DEF t
<1>4. \A i \in DOMAIN t : GoodLoop(t[i], i)
  BY <1>2, <1>3 DEF GoodStack
<1>5. GoodStack(t)
  BY <1>1, <1>2, <1>4 DEF GoodStack
<1>6. t[Len(s)] = f
  BY <1>1, <1>3
<1> QED
  BY <1>2, <1>5, <1>6 DEF t

LEMMA Pushed ==
  ASSUME NEW s, GoodStack(s), Len(s) <= 1, NEW f, GoodLoop(f, Len(s) + 1)
  PROVE  /\ GoodStack(Append(s, f))
         /\ Len(Append(s, f)) = Len(s) + 1
         /\ Append(s, f)[Len(s) + 1] = f
<1>1. s \in Seq(Loops) /\ Len(s) \in 0 .. 1 /\ DOMAIN s = 1 .. Len(s) /\ f \in Loops
  <2>1. s \in Seq(Loops) /\ Len(s) <= 2 /\ f \in Loops
    BY DEF GoodStack, GoodLoop
  <2>2. Len(s) \in Nat /\ DOMAIN s = 1 .. Len(s)
    BY <2>1
  <2> QED
    BY <2>1, <2>2
<1> DEFINE t == Append(s, f)
<1>2. t \in Seq(Loops) /\ Len(t) = Len(s) + 1 /\ DOMAIN t = 1 .. Len(s) + 1
  BY <1>1
<1>3. \A i \in DOMAIN t : t[i] = IF i = Len(s) + 1 THEN f ELSE s[i]
  BY <1>1
<1> HIDE DEF t
<1>4. \A i \in DOMAIN t : i = Len(s) + 1 \/ i \in DOMAIN s
  BY <1>1, <1>2
<1>5. \A i \in DOMAIN t : GoodLoop(t[i], i)
  BY <1>1, <1>3, <1>4 DEF GoodStack
<1>6. GoodStack(t)
  BY <1>1, <1>2, <1>5 DEF GoodStack
<1>7. t[Len(s) + 1] = f
  BY <1>1, <1>2, <1>3
<1> QED
  BY <1>2, <1>6, <1>7 DEF t

\* The nested menu is left, and f is what becomes of the one underneath.
LEMMA Popped ==
  ASSUME NEW s, GoodStack(s), Len(s) > 1, NEW f, GoodLoop(f, 1)
  PROVE  LET t == [SubSeq(s, 1, Len(s) - 1) EXCEPT ![Len(s) - 1] = f]
         IN  GoodStack(t) /\ Len(t) = 1 /\ t[1] = f
<1>1. s \in Seq(Loops) /\ Len(s) = 2 /\ DOMAIN s = 1 .. 2 /\ f \in Loops
  <2>1. s \in Seq(Loops) /\ Len(s) <= 2 /\ f \in Loops
    BY DEF GoodStack, GoodLoop
  <2>2. Len(s) \in Nat /\ DOMAIN s = 1 .. Len(s)
    BY <2>1
  <2> QED
    BY <2>1, <2>2
<1> DEFINE u == SubSeq(s, 1, Len(s) - 1)
<1>2. u \in Seq(Loops) /\ Len(u) = 1 /\ u[1] = s[1]
  <2>1. \A i \in 1 .. 1 : s[i] \in Loops
    BY <1>1, ElementOfSeq
  <2>2. SubSeq(s, 1, 1) \in Seq(Loops) /\ Len(SubSeq(s, 1, 1)) = 1
    BY <2>1, SubSeqProperties
  <2>3. SubSeq(s, 1, 1)[1] = s[1]
    BY <1>1
  <2> QED
    BY <1>1, <2>2, <2>3
<1> HIDE DEF u
<1>3. DOMAIN u = {1} /\ u # <<>>
  BY <1>2
<1>4. GoodStack(u)
  <2>1. GoodLoop(s[1], 1)
    BY <1>1 DEF GoodStack
  <2> QED
    BY <1>2, <1>3, <2>1 DEF GoodStack
<1>5. Len(s) - 1 = Len(u) /\ GoodLoop(f, Len(u))
  BY <1>1, <1>2
<1>6. [u EXCEPT ![Len(s) - 1] = f] = [u EXCEPT ![Len(u)] = f]
  BY <1>5
<1>7. GoodStack([u EXCEPT ![Len(s) - 1] = f])
  BY <1>3, <1>4, <1>5, <1>6, Replaced
<1>8. Len([u EXCEPT ![Len(s) - 1] = f]) = 1 /\ [u EXCEPT ![Len(s) - 1] = f][1] = f
  BY <1>2, <1>3, <1>4, <1>5, <1>6, Replaced
<1> QED
  BY <1>7, <1>8 DEF u

LEMMA OpenedIsGood ==
  ASSUME NEW p \in Pages, NEW depth, (depth = 1) <=> (p \in {"main", "ingame"})
  PROVE  GoodLoop(Opened(p), depth)
<1>1. 1 \in DOMAIN getMenuProperty[p]
  BY PagesListed DEF Listed
<1> QED
  BY <1>1, MenuAssumption DEF GoodLoop, Opened, Loops

LEMMA SettledIsGood ==
  ASSUME NEW f, NEW depth, GoodLoop(f, depth), NEW now \in SUBSET UNION Pads, NEW was
  PROVE  GoodLoop(Settled(f, now, was), depth)
<1>1. f \in Loops /\ Repeat \in Nat \ {0} /\ Fast \in 0 .. Repeat - 1
  BY MenuAssumption DEF GoodLoop
<1>2. Settled(f, now, was) \in Loops
  <2>1. CASE Repeats(f, now, was)
    <3>1. Settled(f, now, was) = [f EXCEPT !.prev = {}, !.count = 0, !.fast = TRUE]
      BY <2>1 DEF Settled
    <3>2. {} \in SUBSET UNION Pads /\ 0 \in 0 .. Repeat /\ TRUE \in BOOLEAN
      BY <1>1
    <3> QED
      BY <1>1, <3>1, <3>2 DEF Loops
  <2>2. CASE ~Repeats(f, now, was)
    <3>1. Counted(f, now, was) \in 0 .. Repeat
      BY <1>1, <2>2 DEF Repeats, Counted, Loops
    <3> QED
      BY <1>1, <2>2, <3>1 DEF Settled, Loops
  <2> QED
    BY <2>1, <2>2
<1>3. Settled(f, now, was).sel = f.sel /\ Settled(f, now, was).page = f.page
  BY <1>1 DEF Settled, Loops
<1> QED
  BY <1>2, <1>3 DEF GoodLoop

LEMMA RefreshedIsGood ==
  ASSUME NEW f, NEW depth, GoodLoop(f, depth), NEW b, NEW c \in Pads
  PROVE  GoodLoop(Refreshed(f, b, c), depth) /\ Refreshed(f, b, c).prev = c
<1>1. f \in Loops /\ 1 \in 0 .. Repeat
  BY MenuAssumption DEF GoodLoop
<1>2. c \in SUBSET UNION Pads
  OBVIOUS
<1>3. Refreshed(f, b, c) \in Loops
  BY <1>1, <1>2 DEF Refreshed, Loops
<1>4. /\ Refreshed(f, b, c).sel = f.sel /\ Refreshed(f, b, c).page = f.page
      /\ Refreshed(f, b, c).prev = c
  BY <1>1 DEF Refreshed, Loops
<1> QED
  BY <1>3, <1>4 DEF GoodLoop

-----------------------------------------------------------------------------
(* Buttons *)

Buttons == UNION Pads

\* A command is given by buttons newly pressed, OK by the OK button.
LEMMA Understood ==
  ASSUME NEW button \in {"cross", "circle"}, NEW new \in SUBSET UNION Pads
  PROVE  /\ Meaning[button][new].keys \subseteq new
         /\ Meaning[button][new].command = "ok" => button \in new
<1> DEFINE hits == {i \in DOMAIN Commands : Keys(button)[i] \cap new # {}}
           first == CHOOSE i \in hits : \A j \in hits : i <= j
<1>1. Meaning[button][new] =
        IF hits = {} THEN [command |-> "none", keys |-> {}]
        ELSE [command |-> Commands[first], keys |-> Keys(button)[first] \cap new]
  BY DEF Meaning
<1>2. DOMAIN Commands = 1 .. 9
  BY DEF Commands
<1>3. CASE hits = {}
  <2>1. Meaning[button][new] = [command |-> "none", keys |-> {}]
    BY <1>1, <1>3
  <2> HIDE DEF hits
  <2> QED
    BY <2>1
<1>4. CASE hits # {}
  <2>1. \E i \in hits : \A j \in hits : i <= j
    <3>1. hits \subseteq 1 .. 9
      BY <1>2
    <3> HIDE DEF hits
    <3>2. SUFFICES ASSUME \A i \in hits : \E j \in hits : j < i PROVE FALSE
      BY <3>1
    <3>3. 1 \notin hits /\ 2 \notin hits /\ 3 \notin hits
      BY <3>1, <3>2
    <3>4. 4 \notin hits /\ 5 \notin hits /\ 6 \notin hits
      BY <3>1, <3>2, <3>3
    <3>5. 7 \notin hits /\ 8 \notin hits /\ 9 \notin hits
      BY <3>1, <3>2, <3>3, <3>4
    <3>6. PICK h : h \in hits
      BY <1>4
    <3>7. h \in {1, 2, 3, 4, 5, 6, 7, 8, 9}
      BY <3>1, <3>6
    <3> QED
      BY <3>3, <3>4, <3>5, <3>6, <3>7
  <2>2. first \in hits
    BY <2>1
  <2> HIDE DEF first
  <2>3. Commands[first] = "ok" => first = 7
    <3>1. first \in 1 .. 9
      BY <1>2, <2>2
    <3> QED
      BY <3>1 DEF Commands
  <2>4. Keys(button)[7] = {button}
    BY DEF Keys
  <2>5. first = 7 => button \in new
    BY <2>2, <2>4
  <2>6. /\ Meaning[button][new].keys = Keys(button)[first] \cap new
        /\ Meaning[button][new].command = Commands[first]
    BY <1>1, <1>4
  <2> QED
    BY <2>3, <2>5, <2>6
<1> QED
  BY <1>3, <1>4

-----------------------------------------------------------------------------
(* The invariant *)

\* What TypeOK says beside the stack, the values and the file.
Ranged ==
  /\ app \in {"off", "dead", "autostart", "main", "com", "leaving", "saving"}
  /\ before \in Pads \cup {{}} /\ old \in Pads \cup {{}}
  /\ ok \in {"cross", "circle"}
  /\ net \in {"none", "usb", "init", "dialog", "read", "connect"}
  /\ {running, ipChanged, stale} \subseteq BOOLEAN
  /\ doing \subseteq Buttons /\ spent \subseteq Buttons

GoodValues(v) ==
  v = [s \in Followed |-> v[s]] /\ \A s \in Followed : Held(s, v[s])

GoodFile(lines) ==
  /\ DOMAIN lines \subseteq Followed \cap Saved
  /\ \A s \in DOMAIN lines : Found(s, lines[s])

\* A button that closed a menu is, while it is held, no news to whoever reads the
\* pad next: the menu underneath, or the menu thread.
PressInv ==
  /\ stack # <<>> /\ spent # {} => before = {} /\ spent \subseteq Top.prev
  /\ stack = <<>> => spent \subseteq old
  /\ app \notin {"main", "com"} => spent = {}

IInv == Ranged /\ GoodStack(stack) /\ GoodValues(values) /\ GoodFile(file) /\ PressInv
        /\ AddressSignalled

LEMMA TypesFollow == IInv => TypeOK
<1> SUFFICES ASSUME IInv PROVE TypeOK
  OBVIOUS
<1>1. /\ stack \in Seq(Loops) /\ Len(stack) <= 2
      /\ \A i \in DOMAIN stack : GoodLoop(stack[i], i)
  BY DEF IInv, GoodStack
<1>2. /\ \A i \in DOMAIN stack : stack[i].sel \in DOMAIN getMenuProperty[stack[i].page]
      /\ \A i \in DOMAIN stack : (i = 1) <=> (stack[i].page \in {"main", "ingame"})
  BY <1>1 DEF GoodLoop
<1>3. DOMAIN values = Followed /\ \A s \in Followed : Held(s, values[s])
  BY DEF IInv, GoodValues
<1>4. /\ DOMAIN file \subseteq Followed \cap Saved
      /\ \A s \in DOMAIN file : Found(s, file[s])
  BY DEF IInv, GoodFile
<1>5. Ranged
  BY DEF IInv
<1>6. before \subseteq UNION Pads /\ old \subseteq UNION Pads
  BY <1>5 DEF Ranged
<1>7. DOMAIN values \subseteq Settings /\ DOMAIN file \subseteq DOMAIN values \cap Saved
  BY <1>3, <1>4, MenuAssumption
<1> QED
  BY <1>1, <1>2, <1>3, <1>4, <1>5, <1>6, <1>7 DEF Ranged, TypeOK, Buttons

LEMMA EmptyIsGood == GoodStack(<<>>) /\ GoodFile(<<>>)
<1>1. GoodStack(<<>>)
  BY EmptySeq DEF GoodStack
<1> QED
  BY <1>1 DEF GoodFile

\* What a menu that is open looks at.
LEMMA TopIsGood ==
  ASSUME IInv, stack # <<>>
  PROVE  /\ GoodLoop(Top, Len(stack)) /\ Len(stack) \in 1 .. 2
         /\ Top.page \in Pages /\ Top.sel \in DOMAIN getMenuProperty[Top.page]
         /\ Entry = getMenuProperty[Top.page][Top.sel]
<1>1. /\ stack \in Seq(Loops) /\ Len(stack) <= 2
      /\ \A i \in DOMAIN stack : GoodLoop(stack[i], i)
  BY DEF IInv, GoodStack
<1>2. Len(stack) \in Nat /\ DOMAIN stack = 1 .. Len(stack)
  BY <1>1
<1>3. Len(stack) # 0
  BY <1>1
<1>4. Len(stack) \in 1 .. 2 /\ Len(stack) \in DOMAIN stack
  BY <1>1, <1>2, <1>3
<1>5. GoodLoop(Top, Len(stack))
  BY <1>1, <1>4 DEF Top
<1>6. Top.page \in Pages /\ Top.sel \in DOMAIN getMenuProperty[Top.page]
  BY <1>5 DEF GoodLoop, Loops
<1> QED
  BY <1>4, <1>5, <1>6 DEF Entry, EntryOf

\* A press that closed a menu is not newly pressed in the next one.
\* An iteration acts on no button that has closed a menu.
LEMMA FreshPress ==
  ASSUME IInv, InMenu, NEW b \in Pads
  PROVE  /\ Now(b) \in SUBSET Buttons
         /\ ActedOn(b) \subseteq Buttons /\ ActedOn(b) \cap spent = {}
         /\ ActedOn(b) \subseteq b
         /\ Command(b) = "ok" => ok \in Buttons /\ ok \notin spent
<1> DEFINE new == Now(b) \ Was(b)
<1>1. Now(b) \in SUBSET Buttons /\ Now(b) \subseteq b
  BY DEF Now, Buttons
<1>2. new \in SUBSET UNION Pads
  BY <1>1 DEF Buttons
<1>3. new \cap spent = {}
  <2>1. spent # {} => before = {} /\ spent \subseteq Top.prev
    BY DEF IInv, PressInv, InMenu
  <2> QED
    BY <2>1 DEF Now, Was
<1>4. ok \in {"cross", "circle"}
  BY DEF IInv, Ranged
<1> HIDE DEF new
<1>5. /\ Meaning[ok][new].keys \subseteq new
      /\ Meaning[ok][new].command = "ok" => ok \in new
  BY <1>2, <1>4, Understood
<1>6. ActedOn(b) \subseteq new /\ (Command(b) = "ok" => ok \in new)
  BY <1>5 DEF ActedOn, Command, new
<1>7. new \subseteq Buttons /\ new \subseteq b
  BY <1>1 DEF new
<1> QED
  BY <1>1, <1>3, <1>6, <1>7

\* An iteration that stays in its menu.
\* An iteration that leaves its menu open, for any entry it ends on.
LEMMA StayKeeps ==
  ASSUME IInv, InMenu, NEW b \in Pads, NEW f, GoodLoop(f, Len(stack)), Stay(b, f),
         UNCHANGED app
  PROVE  /\ GoodStack(stack') /\ stack' # <<>>
         /\ before' \in Pads \cup {{}} /\ doing' \subseteq Buttons
         /\ spent' \subseteq Buttons
         /\ doing' \cap spent = {}
         /\ PressInv'
<1> DEFINE g == Settled(f, Now(b), Was(b))
<1>1. /\ GoodStack(stack) /\ stack # <<>> /\ before \in Pads \cup {{}}
      /\ spent \subseteq Buttons
  BY DEF IInv, Ranged, InMenu
<1>2. /\ Now(b) \in SUBSET Buttons /\ ActedOn(b) \subseteq Buttons
      /\ ActedOn(b) \cap spent = {}
  BY FreshPress
<1>3. GoodLoop(g, Len(stack))
  BY <1>2, SettledIsGood DEF Buttons
<1>4. stack' = [stack EXCEPT ![Len(stack)] = g]
  BY DEF Stay
<1>12. f \in Loops
  BY DEF GoodLoop
<1>5. Repeats(f, Now(b), Was(b)) \/ g.prev = Now(b)
  BY <1>12 DEF Settled, Loops
<1> HIDE DEF g
<1>6. GoodStack(stack') /\ Len(stack') = Len(stack) /\ stack'[Len(stack)] = g
  BY <1>1, <1>3, <1>4, Replaced
<1>7. stack' # <<>>
  <2>1. Len(stack) # 0
    BY <1>1, TopIsGood
  <2> QED
    BY <1>6, <2>1
<1>8. Top' = g
  BY <1>6 DEF Top
<1>9. before' \in Pads \cup {{}} /\ doing' = ActedOn(b)
      /\ spent' = IF Repeats(f, Now(b), Was(b)) THEN {} ELSE spent \cap b
  BY <1>1 DEF Stay
<1>10. spent' # {} => before' = {} /\ spent' \subseteq Top'.prev
  <2> SUFFICES ASSUME spent' # {} PROVE before' = {} /\ spent' \subseteq Top'.prev
    OBVIOUS
  <2>1. ~Repeats(f, Now(b), Was(b)) /\ spent' = spent \cap b /\ spent # {}
    BY <1>9
  <2>2. before = {}
    BY <1>1, <2>1 DEF IInv, PressInv
  <2>3. before' = {}
    BY <2>2 DEF Stay
  <2>4. g.prev = Now(b)
    BY <1>5, <2>1
  <2>5. Now(b) = b
    BY <2>2 DEF Now
  <2> QED
    BY <1>8, <2>1, <2>3, <2>4, <2>5
<1>11. PressInv'
  BY <1>7, <1>10 DEF PressInv, InMenu
<1> QED
  BY <1>1, <1>2, <1>6, <1>7, <1>9, <1>11

\* A new value of a setting, and what the WLAN loop must hear of it.
LEMMA AssignKeeps ==
  ASSUME IInv, InMenu, Entry.kind # "button", NEW x \in Limits(Entry), Assign(Entry, x),
         Drawn(Top.page), UNCHANGED net
  PROVE  /\ GoodValues(values') /\ AddressSignalled'
         /\ stale' \in BOOLEAN /\ ipChanged' \in BOOLEAN
<1>1. stack # <<>> /\ GoodValues(values) /\ stale \in BOOLEAN /\ ipChanged \in BOOLEAN
  BY DEF IInv, InMenu, Ranged
<1>2. /\ Top.page \in Pages /\ Top.sel \in DOMAIN getMenuProperty[Top.page]
      /\ Entry = getMenuProperty[Top.page][Top.sel]
  BY <1>1, TopIsGood
<1>3. Option[Entry.name] = Entry
  BY <1>2, OptionIsEntry
<1>4. GoodValues(values')
  BY <1>1, <1>3 DEF Assign, GoodValues, Held
<1>5. Entry.name \in Server => Top.page = "wlan_ip"
  BY <1>2, ServerPage
<1>6. AddressSignalled'
  <2> SUFFICES ASSUME net = "connect", stale' PROVE ipChanged'
    BY DEF AddressSignalled
  <2>1. CASE stale
    BY <2>1 DEF Drawn, Signals, IInv, AddressSignalled
  <2>2. CASE Entry.name \in Server
    BY <1>5, <2>2 DEF Drawn, Signals
  <2> QED
    BY <2>1, <2>2 DEF Assign
<1>7. stale' \in BOOLEAN /\ ipChanged' \in BOOLEAN
  BY <1>1 DEF Assign, Drawn, Signals
<1> QED
  BY <1>4, <1>6, <1>7

\* Nothing is set, and something may be signalled.
LEMMA UnsetKeeps ==
  ASSUME IInv, Unset, UNCHANGED net, ipChanged' \in BOOLEAN, ipChanged => ipChanged'
  PROVE  GoodValues(values') /\ AddressSignalled' /\ stale' \in BOOLEAN
BY DEF IInv, Ranged, Unset, AddressSignalled

LEMMA OkFollows == \A v : menuSetOkButton(v) \in {"cross", "circle"}
BY MenuAssumption DEF menuSetOkButton, OkFor

-----------------------------------------------------------------------------
(* Every step keeps the invariant *)

\* What the steps that stay in their menu share.
LEMMA StayFollows ==
  ASSUME IInv, InMenu, NEW b \in Pads, NEW f, GoodLoop(f, Len(stack)), Stay(b, f), Rest,
         ok' \in {"cross", "circle"}, GoodValues(values'), AddressSignalled',
         stale' \in BOOLEAN, ipChanged' \in BOOLEAN
  PROVE  IInv' /\ doing' \cap spent = {}
<1>1. /\ GoodStack(stack') /\ PressInv' /\ doing' \cap spent = {}
      /\ before' \in Pads \cup {{}} /\ doing' \subseteq Buttons /\ spent' \subseteq Buttons
  BY StayKeeps DEF Rest
<1>2. Ranged'
  BY <1>1 DEF IInv, Ranged, Rest
<1>3. GoodFile(file')
  BY DEF IInv, Rest
<1> QED
  BY <1>1, <1>2, <1>3 DEF IInv

LEMMA Signalled ==
  ASSUME IInv, NEW page, ipChanged' \in {ipChanged, Signals(page)}
  PROVE  ipChanged' \in BOOLEAN /\ (ipChanged => ipChanged')
BY DEF IInv, Ranged, Signals

LEMMA MovesKeep ==
  ASSUME IInv, InMenu, NEW b \in Pads, NEW k, Idle(b, k) \/ Turn(b, k) \/ Choose(b, k)
  PROVE  IInv' /\ doing' \cap spent = {}
<1>1. /\ GoodLoop(Top, Len(stack)) /\ Len(stack) \in 1 .. 2
      /\ Top.page \in Pages /\ Top.sel \in DOMAIN getMenuProperty[Top.page] /\ Top \in Loops
  BY TopIsGood DEF InMenu, GoodLoop
<1>2. ok \in {"cross", "circle"} /\ (Rest => UNCHANGED net)
  BY DEF IInv, Ranged, Rest
<1>3. CASE Idle(b, k)
  BY <1>1, <1>2, <1>3, StayFollows, UnsetKeeps, Signalled DEF Idle
<1>4. CASE Turn(b, k)
  <2>1. PICK page \in {nextMenuId[Top.page], previousMenuId[Top.page]} :
          /\ Stay(b, [Top EXCEPT !.page = page, !.sel = 1])
          /\ Drawn(page)
    BY <1>4 DEF Turn
  <2>2. nextMenuId[Top.page] # Top.page
    BY <1>4 DEF Turn
  <2>3. Top.page \notin {"main", "ingame"}
    BY <1>1, <2>2, NextPage DEF After
  <2>4. page \in Pages \ {"main", "ingame"}
    BY <1>1, <2>3, PagesTurned
  <2>5. 1 \in DOMAIN getMenuProperty[page]
    BY <2>4, PagesListed DEF Listed
  <2> DEFINE f == [Top EXCEPT !.page = page, !.sel = 1]
  <2>6. GoodLoop(f, Len(stack))
    <3>1. f \in Loops
      <4>1. Top \in Loops /\ 1 \in 1 .. 7 /\ page \in Pages
        BY <1>1, <2>4
      <4>2. [Top EXCEPT !.page = page] \in Loops
        BY <4>1 DEF Loops
      <4>3. f = [[Top EXCEPT !.page = page] EXCEPT !.sel = 1]
        OBVIOUS
      <4> QED
        BY <4>1, <4>2, <4>3 DEF Loops
    <3>2. f.page = page /\ f.sel = 1
      BY <1>1 DEF Loops
    <3>3. Len(stack) # 1
      BY <1>1, <2>3 DEF GoodLoop
    <3> HIDE DEF f
    <3> QED
      BY <2>4, <2>5, <3>1, <3>2, <3>3 DEF GoodLoop
  <2> HIDE DEF f
  <2>7. ipChanged' \in {ipChanged, Signals(page)}
    BY <2>1 DEF Drawn
  <2>8. Unset /\ Rest /\ UNCHANGED ok /\ Stay(b, f)
    BY <1>4, <2>1 DEF Turn, f
  <2> QED
    BY <1>2, <2>6, <2>7, <2>8, StayFollows, UnsetKeeps, Signalled
<1>5. CASE Choose(b, k)
  <2> DEFINE count == Len(getMenuProperty[Top.page])
             sel == IF k = "down" THEN (Top.sel % count) + 1
                    ELSE IF Top.sel = 1 THEN count ELSE Top.sel - 1
             f == [Top EXCEPT !.sel = sel]
  <2>1. sel \in DOMAIN getMenuProperty[Top.page] /\ sel \in 1 .. 7
    <3>1. PICK n \in 1 .. 7 : count = n /\ DOMAIN getMenuProperty[Top.page] = 1 .. n
      BY <1>1, PagesListed DEF Listed
    <3>2. Top.sel \in 1 .. n
      BY <1>1, <3>1
    <3>3. (Top.sel % n) + 1 \in 1 .. n
      BY <3>2
    <3>4. sel \in 1 .. n
      BY <3>1, <3>2, <3>3
    <3> HIDE DEF sel
    <3>5. sel \in 1 .. 7
      BY <3>4
    <3> QED
      BY <3>1, <3>4, <3>5
  <2>2. Stay(b, f) /\ Unset /\ Rest /\ UNCHANGED ok /\ ipChanged' = Signals(Top.page)
    BY <1>5 DEF Choose, Drawn
  <2> HIDE DEF sel
  <2>3. GoodLoop(f, Len(stack))
    BY <1>1, <2>1 DEF GoodLoop, Loops
  <2> HIDE DEF f
  <2> QED
    BY <1>2, <2>2, <2>3, StayFollows, UnsetKeeps, Signalled
<1> QED
  BY <1>3, <1>4, <1>5

LEMMA SettingsKeep ==
  ASSUME IInv, InMenu, NEW b \in Pads, NEW k, Change(b, k) \/ Restore(b, k) \/ Type(b, k)
  PROVE  IInv' /\ doing' \cap spent = {}
<1>1. /\ GoodLoop(Top, Len(stack)) /\ Top.page \in Pages
      /\ Top.sel \in DOMAIN getMenuProperty[Top.page]
      /\ Entry = getMenuProperty[Top.page][Top.sel]
  BY TopIsGood DEF InMenu
<1>2. ok \in {"cross", "circle"} /\ (Rest => UNCHANGED net) /\ ipChanged \in BOOLEAN
  BY DEF IInv, Ranged, Rest
<1>3. Entry.kind # "button" => Sound(Entry)
  BY <1>1, Kinds, SoundEntries
<1>4. Entry.kind = "number" => Get(Entry.name) \in Limits(Entry)
  <2> SUFFICES ASSUME Entry.kind = "number" PROVE Get(Entry.name) \in Limits(Entry)
    OBVIOUS
  <2>1. Option[Entry.name] = Entry /\ Entry.name \in Settings
    BY <1>1, OptionIsEntry
  <2>2. Entry.name \notin FileStrings
    BY <2>1, OptionsAgree DEF Agrees
  <2> QED
    BY <1>3, <2>1, <2>2, DefaultWithin DEF Get, IInv, GoodValues, Held
<1>5. Swapped(Entry) => ok' \in {"cross", "circle"}
  BY <1>2, OkFollows DEF Swapped
<1>6. Drawn(Top.page) => ipChanged' \in {ipChanged, Signals(Top.page)}
  BY DEF Drawn
<1>7. CASE Change(b, k)
  <2>1. Stay(b, Top) /\ Swapped(Entry) /\ Rest
    BY <1>7 DEF Change
  <2>2. CASE Entry.kind = "number" /\ ~Prohibited(Entry)
    <3>1. PICK x \in Limits(Entry) : Assign(Entry, x)
      <4>1. Sound(Entry) /\ Get(Entry.name) \in Limits(Entry)
        BY <1>3, <1>4, <2>2
      <4> QED
        BY <1>7, <2>2, <4>1, StepsStayWithin DEF Change
    <3>2. Drawn(Top.page)
      BY <1>7, <2>2 DEF Change
    <3> QED
      BY <1>1, <1>2, <1>5, <2>1, <2>2, <3>1, <3>2, AssignKeeps, StayFollows
  <2>3. CASE ~(Entry.kind = "number" /\ ~Prohibited(Entry))
    <3>1. Unset /\ ipChanged' = (ipChanged \/ Entry.name \in Server)
      BY <1>7, <2>3 DEF Change
    <3>2. ipChanged' \in BOOLEAN /\ (ipChanged => ipChanged')
      BY <1>2, <3>1
    <3> QED
      BY <1>1, <1>2, <1>5, <2>1, <3>1, <3>2, UnsetKeeps, StayFollows
  <2> QED
    BY <2>2, <2>3
<1>8. CASE Restore(b, k)
  <2>1. Stay(b, Top) /\ Swapped(Entry) /\ Rest /\ Drawn(Top.page) /\ Entry.kind # "button"
    BY <1>8 DEF Restore
  <2>2. CASE Prohibited(Entry)
    <3>1. Unset
      BY <1>8, <2>2 DEF Restore
    <3> QED
      BY <1>1, <1>2, <1>5, <1>6, <2>1, <3>1, Signalled, UnsetKeeps, StayFollows
  <2>3. CASE ~Prohibited(Entry)
    <3>1. Assign(Entry, DefaultOf(Entry)) /\ DefaultOf(Entry) \in Limits(Entry)
      BY <1>3, <1>8, <2>1, <2>3, DefaultWithin DEF Restore
    <3> QED
      BY <1>1, <1>2, <1>5, <2>1, <3>1, AssignKeeps, StayFollows
  <2> QED
    BY <2>2, <2>3
<1>9. CASE Type(b, k)
  <2>1. Stay(b, Top) /\ UNCHANGED ok /\ Rest /\ Drawn(Top.page)
    BY <1>9 DEF Type
  <2>2. CASE Unset
    BY <1>1, <1>2, <1>6, <2>1, <2>2, Signalled, UnsetKeeps, StayFollows
  <2>3. CASE \E x \in Keyboard(Entry) : Assign(Entry, x)
    <3>1. Entry.kind # "button"
      <4>1. Entry.kind = "word" \/ Entry.name \in {"usbSaveTimeout", "autoTimeout"}
        BY <1>9 DEF Type
      <4>2. Entry.name \in {"usbSaveTimeout", "autoTimeout"} =>
              Top.page \notin {"main", "ingame"}
        BY <1>1, EntryNames DEF NamesOn
      <4> QED
        BY <1>1, <4>1, <4>2, Kinds
    <3>2. PICK x \in Keyboard(Entry) : Assign(Entry, x)
      BY <2>3
    <3>3. x \in Limits(Entry)
      BY <1>3, <3>1, KeyboardWithin
    <3> QED
      BY <1>1, <1>2, <2>1, <3>1, <3>2, <3>3, AssignKeeps, StayFollows
  <2> QED
    BY <1>9, <2>2, <2>3 DEF Type
<1> QED
  BY <1>7, <1>8, <1>9

LEMMA NotEmpty ==
  ASSUME NEW s, GoodStack(s), Len(s) >= 1
  PROVE  s # <<>>
BY EmptySeq

\* Preset and the nested menus: something is pushed, or the buttons are read again.
LEMMA NestedKeeps ==
  ASSUME IInv, InMenu, NEW b \in Pads, NEW k, k = Command(b),
         Preset(b, k) \/ OpenNested(b, k) \/ CloseNested(b, k)
  PROVE  IInv' /\ doing' \cap spent = {}
<1>1. /\ GoodLoop(Top, Len(stack)) /\ Len(stack) \in 1 .. 2 /\ GoodStack(stack)
      /\ Top.page \in Pages /\ Top.sel \in DOMAIN getMenuProperty[Top.page]
      /\ Entry = getMenuProperty[Top.page][Top.sel] /\ stack # <<>> /\ Top \in Loops
  BY TopIsGood DEF InMenu, IInv, GoodLoop
<1>2. /\ ActedOn(b) \subseteq Buttons /\ ActedOn(b) \cap spent = {}
      /\ ActedOn(b) \subseteq b
      /\ k = "ok" => ok \in Buttons /\ ok \notin spent
  BY FreshPress
<1>3. Ranged /\ GoodValues(values) /\ GoodFile(file)
  BY DEF IInv
<1>4. ASSUME GoodStack(stack'), stack' # <<>>, Rest, Unset, UNCHANGED ipChanged,
             ok' \in {"cross", "circle"}, before' \in Pads \cup {{}},
             doing' \subseteq Buttons, spent' \subseteq Buttons,
             spent' # {} => before' = {} /\ spent' \subseteq Top'.prev
      PROVE  IInv'
  <2>1. Ranged'
    BY <1>3, <1>4 DEF Ranged, Rest, Unset
  <2>2. GoodValues(values') /\ GoodFile(file') /\ AddressSignalled'
    BY <1>3, <1>4 DEF Rest, Unset, IInv, AddressSignalled
  <2>3. PressInv'
    BY <1>4 DEF PressInv, InMenu, Rest
  <2> QED
    BY <1>4, <2>1, <2>2, <2>3 DEF IInv
<1>5. CASE Preset(b, k)
  <2>1. PICK c \in Pads : /\ stack' = [stack EXCEPT ![Len(stack)] = Refreshed(Top, b, c)]
                          /\ spent' = spent \cap b \cap c
    BY <1>5 DEF Preset
  <2>2. /\ GoodLoop(Refreshed(Top, b, c), Len(stack)) /\ Refreshed(Top, b, c).prev = c
    BY <1>1, RefreshedIsGood
  <2> DEFINE g == Refreshed(Top, b, c)
  <2> HIDE DEF g
  <2>3. GoodStack(stack') /\ Len(stack') = Len(stack) /\ stack'[Len(stack)] = g
    BY <1>1, <2>1, <2>2, Replaced DEF g
  <2>4. Top' = g /\ g.prev = c
    BY <2>2, <2>3 DEF Top, g
  <2>5. stack' # <<>>
    BY <1>1, <2>3, NotEmpty
  <2>6. /\ Rest /\ Unset /\ UNCHANGED <<ok, ipChanged>> /\ before' = {} /\ doing' = {ok}
        /\ k = "ok"
    BY <1>5 DEF Preset
  <2>7. spent' \subseteq Buttons /\ ok \in {"cross", "circle"}
    BY <1>3, <2>1 DEF Ranged
  <2> QED
    BY <1>2, <1>4, <2>1, <2>3, <2>4, <2>5, <2>6, <2>7
<1>6. CASE OpenNested(b, k)
  <2> DEFINE f == [Top EXCEPT !.prev = {}, !.count = 0]
             under == [stack EXCEPT ![Len(stack)] = f]
             page == Nested(Entry.name)
  <2>1. Entry.name \in {"settings",
                        "pcSettings"} /\ k = "ok" /\ doing' = {ok} /\ spent' = {}
        /\ UNCHANGED ipChanged /\ Unset /\ Rest
    BY <1>6 DEF OpenNested
  <2>2. Len(stack) = 1
    BY <1>1, <2>1, NestedPage DEF GoodLoop
  <2>3. GoodLoop(f, Len(stack))
    <3>1. {} \in SUBSET UNION Pads /\ 0 \in 0 .. Repeat
      BY MenuAssumption
    <3>2. [Top EXCEPT !.prev = {}] \in Loops
      BY <1>1, <3>1 DEF Loops
    <3>3. f = [[Top EXCEPT !.prev = {}] EXCEPT !.count = 0]
      OBVIOUS
    <3>4. f \in Loops
      BY <3>1, <3>2, <3>3 DEF Loops
    <3>5. f.page = Top.page /\ f.sel = Top.sel
      BY <1>1 DEF Loops
    <3> HIDE DEF f
    <3> QED
      BY <1>1, <3>4, <3>5 DEF GoodLoop
  <2>4. /\ stack' = Append(under, Opened(page)) /\ before' \in Pads
        /\ ok' = menuSetOkButton(values)
    BY <1>6 DEF OpenNested, Open
  <2> HIDE DEF f
  <2>5. GoodStack(under) /\ Len(under) = 1
    BY <1>1, <2>2, <2>3, Replaced
  <2> HIDE DEF under
  <2>6. page \in Pages /\ page \notin {"main", "ingame"}
    BY PageNames DEF Nested
  <2>7. GoodLoop(Opened(page), 2)
    BY <2>6, OpenedIsGood
  <2>8. GoodStack(stack') /\ Len(stack') = 2
    <3>1. Len(under) <= 1 /\ Len(under) + 1 = 2
      BY <2>5
    <3> HIDE DEF page
    <3> QED
      BY <2>4, <2>5, <2>7, <3>1, Pushed
  <2>9. stack' # <<>>
    BY <2>8, NotEmpty
  <2> QED
    BY <1>2, <1>4, <2>1, <2>4, <2>8, <2>9, OkFollows
<1>7. CASE CloseNested(b, k)
  <2>1. PICK c \in Pads :
       /\ stack' = [SubSeq(stack, 1, Len(stack) - 1)
                      EXCEPT ![Len(stack) - 1] = Refreshed(stack[Len(stack) - 1], b, c)]
       /\ spent' = ActedOn(b) \cap c
    BY <1>7 DEF CloseNested
  <2>2. /\ Len(stack) > 1 /\ before' = {} /\ doing' = ActedOn(b)
        /\ ok' = menuSetOkButton(values) /\ UNCHANGED ipChanged /\ Unset /\ Rest
    BY <1>7 DEF CloseNested
  <2>3. Len(stack) - 1 = 1 /\ 1 \in DOMAIN stack
    BY <1>1, <2>2 DEF GoodStack
  <2>4. GoodLoop(stack[Len(stack) - 1], 1)
    BY <1>1, <2>3 DEF GoodStack
  <2> DEFINE g == Refreshed(stack[Len(stack) - 1], b, c)
  <2>5. GoodLoop(g, 1) /\ g.prev = c
    BY <2>4, RefreshedIsGood
  <2> HIDE DEF g
  <2>6. GoodStack(stack') /\ Len(stack') = 1 /\ stack'[1] = g
    BY <1>1, <2>1, <2>2, <2>5, Popped DEF g
  <2>7. stack' # <<>> /\ Top' = g
    BY <2>6, NotEmpty DEF Top
  <2>8. spent' \subseteq Buttons
    BY <1>2, <2>1
  <2> QED
    BY <1>2, <1>4, <2>1, <2>2, <2>5, <2>6, <2>7, <2>8, OkFollows
<1> QED
  BY <1>5, <1>6, <1>7

\* The menu closes, and a session or the app begins, goes on or ends.
LEMMA ClosesKeep ==
  ASSUME IInv, InMenu, NEW b \in Pads, NEW k, k = Command(b),
         Resume(b, k) \/ QuitSession(b, k) \/ Quit(b, k) \/ StartSession(b, k)
  PROVE  IInv' /\ doing' \cap spent = {}
<1>1. /\ ActedOn(b) \subseteq Buttons /\ ActedOn(b) \cap spent = {}
      /\ ActedOn(b) \subseteq b
      /\ k = "ok" => ok \in Buttons /\ ok \notin spent
  BY FreshPress
<1>2. Ranged /\ GoodValues(values) /\ GoodFile(file) /\ AddressSignalled
  BY DEF IInv
<1>3. GoodStack(<<>>) /\ GoodFile(<<>>)
  BY EmptyIsGood
<1>4. CASE Resume(b, k)
  <2>1. Ranged'
    BY <1>1, <1>2, <1>4 DEF Resume, Ranged, Unset
  <2>2. PressInv'
    BY <1>4 DEF Resume, PressInv, InMenu
  <2>3. GoodStack(stack') /\ GoodValues(values') /\ GoodFile(file') /\ AddressSignalled'
    BY <1>2, <1>3, <1>4 DEF Resume, Unset, AddressSignalled
  <2> QED
    BY <1>1, <1>4, <2>1, <2>2, <2>3 DEF IInv, Resume
<1>5. CASE QuitSession(b, k)
  <2>1. Ranged'
    BY <1>1, <1>2, <1>5 DEF QuitSession, Ranged, Unset
  <2>2. PressInv'
    BY <1>5 DEF QuitSession, PressInv
  <2>3. GoodStack(stack') /\ GoodValues(values') /\ GoodFile(file') /\ AddressSignalled'
    BY <1>2, <1>3, <1>5 DEF QuitSession, Unset, AddressSignalled
  <2> QED
    BY <1>1, <1>5, <2>1, <2>2, <2>3 DEF IInv, QuitSession
<1>6. CASE Quit(b, k)
  <2>1. Ranged'
    BY <1>2, <1>6 DEF Quit, Off, Ranged
  <2>2. PressInv'
    BY <1>6 DEF Quit, Off, PressInv
  <2>3. GoodStack(stack') /\ GoodValues(values') /\ GoodFile(file') /\ AddressSignalled'
    BY <1>2, <1>3, <1>6 DEF Quit, Off, AddressSignalled
  <2> QED
    BY <1>6, <2>1, <2>2, <2>3 DEF IInv, Quit, Off
<1>7. CASE StartSession(b, k)
  <2>1. Ranged'
    BY <1>1, <1>2, <1>7 DEF StartSession, Enter, Ranged
  <2>2. PressInv'
    BY <1>7 DEF StartSession, Enter, PressInv
  <2>3. GoodStack(stack') /\ GoodValues(values') /\ GoodFile(file') /\ AddressSignalled'
    BY <1>2, <1>3, <1>7 DEF StartSession, Enter, AddressSignalled
  <2> QED
    BY <1>1, <1>7, <2>1, <2>2, <2>3 DEF IInv, StartSession
<1> QED
  BY <1>4, <1>5, <1>6, <1>7

\* A menu that opens first: nothing is spent.
LEMMA OpenKeeps ==
  ASSUME IInv, NEW page \in {"main", "ingame"}, Open(<<>>, page), spent' = {}
  PROVE  /\ GoodStack(stack') /\ stack' # <<>> /\ before' \in Pads
         /\ ok' \in {"cross", "circle"} /\ PressInv'
<1>1. GoodLoop(Opened(page), 1)
  BY PageNames, OpenedIsGood
<1>2. GoodStack(<<>>) /\ Len(<<>>) = 0
  BY EmptyIsGood
<1>3. GoodStack(Append(<<>>, Opened(page))) /\ Len(Append(<<>>, Opened(page))) = 1
  <2>1. Len(<<>>) <= 1 /\ Len(<<>>) + 1 = 1
    BY <1>2
  <2> QED
    BY <1>1, <1>2, <2>1, Pushed
<1>4. stack' # <<>>
  BY <1>3, NotEmpty DEF Open
<1> QED
  BY <1>3, <1>4, OkFollows DEF Open, PressInv

\* The menu thread between menus.
LEMMA PollKeeps ==
  ASSUME IInv, PollOpens \/ PollReads
  PROVE  IInv' /\ doing' \cap spent = {}
<1>1. Ranged /\ GoodStack(stack) /\ GoodValues(values) /\ GoodFile(file) /\ PressInv
      /\ AddressSignalled
  BY DEF IInv
<1>2. CASE PollOpens
  <2>1. PICK b \in Pads : "home" \in b \ old /\ doing' = {"home"}
    BY <1>2 DEF PollOpens
  <2>2. Open(<<>>, "ingame") /\ spent' = {} /\ old' = {}
        /\ UNCHANGED <<app, sessionVars, values, file>> /\ stack = <<>>
    BY <1>2 DEF PollOpens
  <2>3. /\ GoodStack(stack') /\ before' \in Pads /\ ok' \in {"cross", "circle"} /\ PressInv'
    BY <2>2, OpenKeeps
  <2>4. Ranged'
    BY <1>1, <2>1, <2>2, <2>3 DEF Ranged, sessionVars, Buttons
  <2>5. GoodValues(values') /\ GoodFile(file') /\ AddressSignalled'
    BY <1>1, <2>2 DEF sessionVars, AddressSignalled
  <2>6. doing' \cap spent = {}
    BY <1>1, <2>1, <2>2 DEF PressInv
  <2> QED
    BY <2>3, <2>4, <2>5, <2>6 DEF IInv
<1>3. CASE PollReads
  <2>1. Ranged'
    BY <1>1, <1>3 DEF PollReads, Ranged, menuVars, sessionVars
  <2>2. PressInv'
    BY <1>1, <1>3 DEF PollReads, PressInv, menuVars
  <2>3. GoodStack(stack') /\ GoodValues(values') /\ GoodFile(file') /\ AddressSignalled'
        /\ doing' = {}
    BY <1>1, <1>3 DEF PollReads, menuVars, sessionVars, AddressSignalled
  <2> QED
    BY <2>1, <2>2, <2>3 DEF IInv
<1> QED
  BY <1>2, <1>3

\* The session's own steps do not touch the menu.
LEMMA SessionKeeps ==
  ASSUME IInv, \/ NetDialog \/ NetDialogEnds \/ ReadAddress \/ CheckAddress
               \/ ConnectionLost \/ SessionEnds
  PROVE  IInv' /\ doing' \cap spent = {}
<1>1. Ranged /\ GoodStack(stack) /\ GoodValues(values) /\ GoodFile(file) /\ PressInv
      /\ AddressSignalled
  BY DEF IInv
<1>2. UNCHANGED <<app, menuVars, old, values, file, spent>> /\ doing' = {}
  BY DEF NetDialog, NetDialogEnds, ReadAddress, CheckAddress, ConnectionLost, SessionEnds
<1>3. /\ net' \in {"none", "usb", "init", "dialog", "read", "connect"}
      /\ {running', ipChanged', stale'} \subseteq BOOLEAN
  BY <1>1 DEF Ranged, NetDialog, NetDialogEnds, ReadAddress, CheckAddress, ConnectionLost,
              SessionEnds
<1>4. net' = "connect" => ~stale'
  BY DEF NetDialog, NetDialogEnds, ReadAddress, CheckAddress, ConnectionLost, SessionEnds
<1>5. Ranged'
  BY <1>1, <1>2, <1>3 DEF Ranged, menuVars
<1>6. PressInv'
  BY <1>1, <1>2 DEF PressInv, menuVars, Top
<1>7. GoodStack(stack') /\ GoodValues(values') /\ GoodFile(file')
  BY <1>1, <1>2 DEF menuVars
<1> QED
  BY <1>2, <1>4, <1>5, <1>6, <1>7 DEF IInv, AddressSignalled

\* A number the loader believes is one the menu could have set.
LEMMA LoadedWithin ==
  ASSUME IInv, NEW s \in Followed, NEW x \in Loaded(s)
  PROVE  Held(s, x)
<1>1. s \in Settings
  BY MenuAssumption
<1> DEFINE o == Option[s]
<1>2. Sound(o) /\ o.name = s /\ Agrees(o)
  BY <1>1, OptionsSound, OptionsAgree
<1>3. s \in DOMAIN file => Found(s, file[s])
  BY DEF IInv, GoodFile
<1>7. \A y : Held(s, y) <=> y \in Limits(o) \/ (s \in FileStrings /\ y = Garbage)
  BY DEF Held
<1> HIDE DEF o
<1>4. CASE s \in DOMAIN FileNumbers
  <2>1. o.kind = "number" /\ FileNumbers[s] = InFile(o.default, o.min, o.max)
    BY <1>2, <1>4 DEF Agrees
  <2>2. /\ FileNumbers[s].default = o.default /\ FileNumbers[s].min = o.min
        /\ FileNumbers[s].max = o.max
    BY <2>1 DEF InFile
  <2>3. /\ o.min \in Int /\ o.max \in Int /\ o.default \in o.min .. o.max
        /\ Limits(o) = o.min .. o.max
    BY <1>2, <2>1 DEF Sound, Limits
  <2>4. \A y \in Int : InRange(s, y) => y \in Limits(o)
    BY <2>2, <2>3 DEF InRange
  <2>5. x \in LoadedNumbers(s)
    BY <1>4 DEF Loaded
  <2>6. s \in DOMAIN file => file[s] \in Int
    BY <1>2, <1>3, <1>4 DEF Agrees, Found
  <2>7. x \in Limits(o)
    BY <2>2, <2>3, <2>4, <2>5, <2>6 DEF LoadedNumbers
  <2> QED
    BY <1>7, <2>7
<1>5. CASE s \notin DOMAIN FileNumbers /\ s \in FileStrings
  <2>1. Limits(o) = Words /\ x \in LoadedStrings(s)
    BY <1>2, <1>5 DEF Agrees, Limits, Loaded
  <2>2. StringDefault(s) \in Words
    BY TablesAssumption DEF StringDefault
  <2>3. \A w \in Words : AsRead(w) \in Words
    BY TablesAssumption DEF AsRead
  <2>4. s \in DOMAIN file => file[s] \in Words \/ file[s] = Garbage
    BY <1>3, <1>5, <1>7, <2>1 DEF Found
  <2>5. x \in Words \/ x = Garbage
    BY <2>1, <2>2, <2>3, <2>4 DEF LoadedStrings
  <2> QED
    BY <1>5, <1>7, <2>1, <2>5
<1>6. CASE s \notin DOMAIN FileNumbers /\ s \notin FileStrings
  <2>1. x = DefaultOf(o)
    BY <1>6 DEF Loaded, o
  <2> QED
    BY <1>2, <1>7, <2>1, DefaultWithin
<1> QED
  BY <1>4, <1>5, <1>6

\* What is written of a setting is found as it was, cut short as something.
LEMMA SavedIsFound ==
  ASSUME IInv, NEW s \in Followed \cap Saved
  PROVE  /\ Found(s, values[s]) /\ Found(s, Nameless(s))
         /\ \A x \in CutShort(s, values[s]) : Found(s, x)
<1>1. s \in Settings /\ Held(s, values[s])
  BY MenuAssumption DEF IInv, GoodValues
<1>2. CASE s \in FileStrings
  BY <1>1, <1>2 DEF Found, Held, Nameless, CutShort
<1>3. CASE s \notin FileStrings
  <2> DEFINE o == Option[s]
  <2>1. Sound(o) /\ o.name = s /\ Agrees(o)
    BY <1>1, OptionsSound, OptionsAgree
  <2>2. values[s] \in Limits(o)
    BY <1>1, <1>3 DEF Held
  <2> HIDE DEF o
  <2>3. o.kind = "number"
    BY <1>3, <2>1 DEF Agrees, Saved
  <2>4. values[s] \in Int
    BY <2>1, <2>2, <2>3 DEF Sound, Limits
  <2>5. \A x \in CutShort(s, values[s]) : x \in Int
    BY <1>3, <2>4 DEF CutShort
  <2> QED
    BY <1>3, <2>4, <2>5 DEF Found, Nameless
<1> QED
  BY <1>2, <1>3

\* Whatever a save leaves that lost power.
LEMMA TornIsGood ==
  ASSUME IInv, NEW lines, Torn(lines)
  PROVE  GoodFile(lines)
<1>1. PICK written \in SUBSET (Followed \cap Saved) :
        LET missing == (Followed \cap Saved) \ written IN
        \/ \E s \in missing : \E x \in CutShort(s, values[s]) :
             lines = [t \in written \cup {s} |-> IF t = s THEN x ELSE values[t]]
        \/ \E cut \in SUBSET missing :
             lines = [t \in written \cup cut |-> IF t \in cut THEN Nameless(t) ELSE values[t]]
  BY DEF Torn
<1>2. CASE \E s \in (Followed \cap Saved) \ written : \E x \in CutShort(s, values[s]) :
             lines = [t \in written \cup {s} |-> IF t = s THEN x ELSE values[t]]
  BY <1>2, SavedIsFound DEF GoodFile
<1>3. CASE \E cut \in SUBSET ((Followed \cap Saved) \ written) :
             lines = [t \in written \cup cut |-> IF t \in cut THEN Nameless(t) ELSE values[t]]
  BY <1>3, SavedIsFound DEF GoodFile
<1> QED
  BY <1>1, <1>2, <1>3

\* Start and end of the app.
LEMMA LifeKeeps ==
  ASSUME IInv, \/ BackToMenu \/ Boot \/ AutostartEnds \/ AutostartCancelled
               \/ exit_callback \/ SaveEnds \/ Crash
  PROVE  IInv' /\ doing' \cap spent = {}
<1>1. Ranged /\ GoodStack(stack) /\ GoodValues(values) /\ GoodFile(file) /\ PressInv
      /\ AddressSignalled
  BY DEF IInv
<1>2. GoodStack(<<>>) /\ GoodFile(<<>>)
  BY EmptyIsGood
<1>3. app \in {"off", "dead", "autostart", "saving"} => spent = {}
  BY <1>1 DEF PressInv
<1>4. CASE BackToMenu
  <2>1. /\ app' = "main" /\ Open(<<>>, "main") /\ old' = {} /\ doing' = {} /\ spent' = {}
        /\ UNCHANGED <<sessionVars, values, file>>
    BY <1>4 DEF BackToMenu
  <2>2. /\ GoodStack(stack') /\ before' \in Pads /\ ok' \in {"cross", "circle"} /\ PressInv'
    BY <2>1, OpenKeeps
  <2>3. Ranged'
    BY <1>1, <2>1, <2>2 DEF Ranged, sessionVars
  <2> QED
    BY <1>1, <2>1, <2>2, <2>3 DEF IInv, sessionVars, AddressSignalled
<1>5. CASE AutostartCancelled
  <2>1. /\ app' = "main" /\ Open(<<>>, "main") /\ spent' = {} /\ spent = {}
        /\ UNCHANGED <<old, sessionVars, values, file, doing>>
    BY <1>3, <1>5 DEF AutostartCancelled
  <2>2. /\ GoodStack(stack') /\ before' \in Pads /\ ok' \in {"cross", "circle"} /\ PressInv'
    BY <2>1, OpenKeeps
  <2>3. Ranged'
    BY <1>1, <2>1, <2>2 DEF Ranged, sessionVars
  <2> QED
    BY <1>1, <2>1, <2>2, <2>3 DEF IInv, sessionVars, AddressSignalled
<1>6. CASE Boot
  <2>1. GoodValues(values')
    <3>1. values' = [s \in Followed |-> values'[s]]
          /\ \A s \in Followed : values'[s] \in Loaded(s)
      BY <1>6 DEF Boot
    <3> QED
      BY <3>1, LoadedWithin DEF GoodValues
  <2>2. /\ spent = {} /\ UNCHANGED <<old, sessionVars, file, doing, spent>>
        /\ ok' \in {"cross", "circle"} /\ app' \in {"autostart", "main"}
    BY <1>3, <1>6, OkFollows DEF Boot
  <2>3. GoodStack(stack') /\ before' \in Pads \cup {{}}
    <3>1. CASE UNCHANGED <<stack, before>>
      BY <1>1, <3>1 DEF Ranged
    <3>2. CASE stack' = <<Opened("main")>> /\ before' \in Pads
      <4>1. <<Opened("main")>> = Append(<<>>, Opened("main"))
        OBVIOUS
      <4>2. GoodLoop(Opened("main"), 1) /\ Len(<<>>) <= 1 /\ Len(<<>>) + 1 = 1
        BY PageNames, OpenedIsGood, EmptySeq
      <4> QED
        BY <1>2, <3>2, <4>1, <4>2, Pushed
    <3> QED
      BY <1>6, <3>1, <3>2 DEF Boot
  <2>4. Ranged'
    BY <1>1, <2>2, <2>3 DEF Ranged, sessionVars
  <2>5. PressInv' /\ GoodFile(file') /\ AddressSignalled'
    BY <1>1, <2>2 DEF PressInv, sessionVars, AddressSignalled
  <2> QED
    BY <2>1, <2>2, <2>3, <2>4, <2>5 DEF IInv
<1>7. CASE AutostartEnds
  <2>1. PICK mode \in {"usb", "wlan"} : Enter(mode)
    BY <1>7 DEF AutostartEnds
  <2>2. doing' = {}
    BY <1>7 DEF AutostartEnds
  <2>3. Ranged'
    BY <1>1, <2>1, <2>2 DEF Enter, Ranged
  <2>4. PressInv' /\ AddressSignalled'
    BY <2>1 DEF Enter, PressInv, AddressSignalled
  <2>5. GoodStack(stack') /\ GoodValues(values') /\ GoodFile(file')
    BY <1>1, <1>2, <2>1 DEF Enter
  <2> QED
    BY <2>2, <2>3, <2>4, <2>5 DEF IInv
<1>8. CASE exit_callback
  <2>1. Ranged'
    BY <1>1, <1>8 DEF exit_callback, Off, Ranged
  <2>2. PressInv' /\ AddressSignalled' /\ doing' = {}
    BY <1>8 DEF exit_callback, Off, PressInv, AddressSignalled
  <2>3. GoodStack(stack') /\ GoodValues(values') /\ GoodFile(file')
    BY <1>1, <1>2, <1>8 DEF exit_callback, Off
  <2> QED
    BY <2>1, <2>2, <2>3 DEF IInv
<1>9. CASE SaveEnds
  <2>1. Ranged'
    BY <1>1, <1>9 DEF SaveEnds, Ranged, menuVars, sessionVars
  <2>2. GoodFile(file')
    BY <1>1, <1>9, SavedIsFound DEF SaveEnds, GoodFile
  <2>3. PressInv' /\ AddressSignalled' /\ spent = {}
    BY <1>1, <1>3, <1>9 DEF SaveEnds, PressInv, AddressSignalled, sessionVars
  <2>4. GoodStack(stack') /\ GoodValues(values')
    BY <1>1, <1>9 DEF SaveEnds, menuVars
  <2> QED
    BY <2>1, <2>2, <2>3, <2>4 DEF IInv
<1>10. CASE Crash
  <2>1. Ranged'
    BY <1>1, <1>10 DEF Crash, Off, Ranged
  <2>2. GoodFile(file')
    <3>1. CASE app = "saving"
      BY <1>10, <3>1, TornIsGood DEF Crash
    <3>2. CASE app # "saving"
      BY <1>1, <1>10, <3>2 DEF Crash
    <3> QED
      BY <3>1, <3>2
  <2>3. PressInv' /\ AddressSignalled' /\ doing' = {}
    BY <1>10 DEF Crash, Off, PressInv, AddressSignalled
  <2>4. GoodStack(stack') /\ GoodValues(values')
    BY <1>1, <1>2, <1>10 DEF Crash, Off
  <2> QED
    BY <2>1, <2>2, <2>3, <2>4 DEF IInv
<1> QED
  BY <1>4, <1>5, <1>6, <1>7, <1>8, <1>9, <1>10

\* Every step keeps the invariant and acts on no spent button.
LEMMA NextKeeps ==
  ASSUME IInv, Next
  PROVE  IInv' /\ doing' \cap spent = {}
<1>1. ASSUME InMenu, NEW b \in Pads, NEW k, k = Command(b),
             \/ Idle(b, k) \/ Turn(b, k) \/ Choose(b, k) \/ Change(b, k) \/ Restore(b, k)
             \/ Type(b, k) \/ Preset(b, k) \/ OpenNested(b, k) \/ CloseNested(b, k)
             \/ Resume(b, k) \/ QuitSession(b, k) \/ Quit(b, k) \/ StartSession(b, k)
      PROVE  IInv' /\ doing' \cap spent = {}
  BY <1>1, MovesKeep, SettingsKeep, NestedKeeps, ClosesKeep
<1> QED
  BY <1>1, PollKeeps, SessionKeeps, LifeKeeps DEF Next

LEMMA StutterKeeps ==
  ASSUME IInv, UNCHANGED vars
  PROVE  IInv'
<1> USE DEF vars, menuVars, sessionVars
<1>1. Ranged' /\ PressInv' /\ AddressSignalled'
  <2>1. Ranged'
    BY DEF IInv, Ranged
  <2>2. PressInv'
    BY DEF IInv, PressInv, Top
  <2>3. AddressSignalled'
    BY DEF IInv, AddressSignalled
  <2> QED
    BY <2>1, <2>2, <2>3
<1>2. GoodStack(stack)' /\ GoodValues(values)' /\ GoodFile(file)'
  <2>1. stack' = stack /\ values' = values /\ file' = file
    OBVIOUS
  <2> QED
    BY <2>1 DEF IInv, GoodStack, GoodValues, GoodFile
<1> QED
  BY <1>1, <1>2 DEF IInv

LEMMA Starts == Init => IInv
<1> SUFFICES ASSUME Init PROVE IInv
  OBVIOUS
<1>1. GoodStack(stack) /\ GoodFile(file)
  BY EmptyIsGood DEF Init
<1>2. GoodValues(values)
  <2>1. \A s \in Followed : DefaultOf(Option[s]) \in Limits(Option[s])
    BY MenuAssumption, OptionsSound, DefaultWithin
  <2> QED
    BY <2>1 DEF Init, GoodValues, Defaults, Held
<1> QED
  BY <1>1, <1>2, MenuAssumption DEF Init, IInv, Ranged, PressInv, AddressSignalled

LEMMA Invariant == Spec => []IInv
<1>1. IInv /\ [Next]_vars => IInv'
  BY NextKeeps, StutterKeeps
<1> QED
  BY Starts, <1>1, PTL DEF Spec

\* Wherever a number comes from, a line of the file cut short in its digits included,
\* it is one its entry allows, and a selection is on an entry, for all bounds and pads.
\* Strings only where no crash has cut their line short.
THEOREM TypeCorrect == Spec => []TypeOK
BY Invariant, TypesFollow, PTL

\* A changed address of the server is signalled while WLAN connects (menu.c:1200).
THEOREM ChangesAreSignalled == Spec => []AddressSignalled
<1>1. IInv => AddressSignalled
  BY DEF IInv
<1> QED
  BY Invariant, <1>1, PTL

\* A press that closes a menu does nothing else while it lasts (menu.c:892).
THEOREM OnePressOneLevel == Spec => OneLevelPerPress
<1>1. IInv /\ [Next]_vars => [doing' \cap spent = {}]_vars
  BY NextKeeps
<1> QED
  BY Invariant, <1>1, PTL DEF Spec, OneLevelPerPress

-----------------------------------------------------------------------------
(* The settings through end and start *)

\* Every setting that changes is in the file, and no string is cut by the loader.
AllKept == Followed \subseteq Saved /\ Spaced \notin Words

\* Between two runs the file says what the settings were.
Restored == app = "off" => \A s \in Followed : Spoiled(s) \/ Loaded(s) = {values[s]}

\* What has just been written is read back as it was.
LEMMA SaveRestores ==
  ASSUME AllKept, IInv, SaveEnds
  PROVE  Restored'
<1> SUFFICES ASSUME NEW s \in Followed, ~Spoiled(s) PROVE Loaded(s)' = {values[s]}
  BY DEF Restored, SaveEnds, Spoiled
<1>1. s \in DOMAIN file' /\ file'[s] = values[s]
  BY DEF SaveEnds, AllKept
<1>2. s \in Settings
  BY MenuAssumption
<1> DEFINE o == Option[s]
<1>3. Sound(o) /\ o.name = s /\ Agrees(o)
  BY <1>2, OptionsSound, OptionsAgree
<1>4. values[s] \in Limits(o)
  BY DEF IInv, GoodValues, Held, Spoiled
<1> HIDE DEF o
<1>5. CASE s \in DOMAIN FileNumbers
  <2>1. o.kind = "number" /\ FileNumbers[s] = InFile(o.default, o.min, o.max)
    BY <1>3, <1>5 DEF Agrees
  <2>2. FileNumbers[s].min = o.min /\ FileNumbers[s].max = o.max
    BY <2>1 DEF InFile
  <2>3. values[s] \in o.min .. o.max /\ o.min \in Int /\ o.max \in Int
    BY <1>3, <1>4, <2>1 DEF Sound, Limits
  <2>4. InRange(s, values[s])
    BY <2>2, <2>3 DEF InRange
  <2>5. LoadedNumbers(s)' = {values[s]}
    BY <1>1, <2>4 DEF LoadedNumbers
  <2> QED
    BY <1>5, <2>5 DEF Loaded
<1>6. CASE s \notin DOMAIN FileNumbers
  <2>1. s \in FileStrings
    BY <1>6 DEF AllKept, Saved
  <2>2. values[s] \in Words /\ values[s] # Spaced
    BY <1>3, <1>4, <2>1 DEF Agrees, Limits, AllKept
  <2>3. AsRead(values[s]) = values[s]
    BY <2>2 DEF AsRead
  <2>4. LoadedStrings(s)' = {values[s]}
    BY <1>1, <2>1, <2>3 DEF LoadedStrings, Spoiled
  <2> QED
    BY <1>6, <2>1, <2>4 DEF Loaded
<1> QED
  BY <1>5, <1>6

\* Without a file, the loader's defaults are the menu's.
LEMMA DefaultsRestored ==
  ASSUME AllKept, Init
  PROVE  Restored
<1> SUFFICES ASSUME NEW s \in Followed PROVE Loaded(s) = {values[s]}
  BY DEF Restored
<1>1. s \notin DOMAIN file
  BY DEF Init
<1> DEFINE o == Option[s]
<1>2. values[s] = DefaultOf(o)
  BY DEF Init, Defaults
<1>3. s \in Settings
  BY MenuAssumption
<1>4. Sound(o) /\ o.name = s /\ Agrees(o)
  BY <1>3, OptionsSound, OptionsAgree
<1> HIDE DEF o
<1>5. CASE s \in DOMAIN FileNumbers
  <2>1. o.kind = "number" /\ FileNumbers[s].default = o.default
    BY <1>4, <1>5 DEF Agrees, InFile
  <2>2. LoadedNumbers(s) = {o.default}
    BY <1>1, <2>1 DEF LoadedNumbers
  <2> QED
    BY <1>2, <1>5, <2>1, <2>2 DEF Loaded, DefaultOf
<1>6. CASE s \notin DOMAIN FileNumbers
  <2>1. s \in FileStrings
    BY <1>6 DEF AllKept, Saved
  <2>2. o.kind = "word" /\ o.word = StringDefault(s)
    BY <1>4, <2>1 DEF Agrees
  <2>3. LoadedStrings(s) = {StringDefault(s)}
    BY <1>1 DEF LoadedStrings
  <2> QED
    BY <1>2, <1>6, <2>1, <2>2, <2>3 DEF Loaded, DefaultOf
<1> QED
  BY <1>5, <1>6

LEMMA RestoredStep ==
  ASSUME AllKept, IInv, Restored, [Next]_vars
  PROVE  Restored'
<1>1. app' # "off" \/ SaveEnds \/ UNCHANGED <<app, values, file>>
  <2>1. ASSUME InMenu, NEW b \in Pads, NEW k,
               \/ Idle(b, k) \/ Turn(b, k) \/ Choose(b, k) \/ Change(b, k) \/ Restore(b, k)
               \/ Type(b, k) \/ Preset(b, k) \/ OpenNested(b, k) \/ CloseNested(b, k)
               \/ Resume(b, k) \/ QuitSession(b, k) \/ Quit(b, k) \/ StartSession(b, k)
        PROVE  app' # "off"
    BY <2>1 DEF InMenu, Idle, Turn, Choose, Change, Restore, Type, Preset, OpenNested,
                CloseNested, Resume, QuitSession, Quit, StartSession, Enter, Rest
  <2>2. ASSUME \/ PollOpens \/ PollReads \/ NetDialog \/ NetDialogEnds \/ ReadAddress
               \/ CheckAddress \/ ConnectionLost \/ SessionEnds
        PROVE  UNCHANGED <<app, values, file>>
    BY <2>2 DEF PollOpens, PollReads, NetDialog, NetDialogEnds, ReadAddress, CheckAddress,
                ConnectionLost, SessionEnds
  <2>3. ASSUME \/ BackToMenu \/ Boot \/ AutostartEnds \/ AutostartCancelled
               \/ exit_callback \/ Crash
        PROVE  app' # "off"
    BY <2>3 DEF BackToMenu, Boot, AutostartEnds, AutostartCancelled, exit_callback, Crash,
                Enter
  <2> QED
    BY <2>1, <2>2, <2>3 DEF Next, vars
<1>2. CASE UNCHANGED <<app, values, file>>
  <2>1. \A s : UNCHANGED Loaded(s)
    BY <1>2 DEF Loaded, LoadedNumbers, LoadedStrings
  <2> QED
    BY <1>2, <2>1 DEF Restored, Spoiled
<1> QED
  BY <1>1, <1>2, SaveRestores DEF Restored

\* Settings survive a normal end of the app and a restart, whatever the menu and
\* the keyboard made of them, as far as the file has them at all (Followed is within
\* Saved) and except for texts with a blank, which the loader cuts, and texts that an
\* earlier crash cut.
THEOREM SettingsSurvive == AllKept /\ Spec => SettingsKept
<1>1. AllKept /\ Init => Restored
  BY DefaultsRestored
<1>2. AllKept /\ IInv /\ Restored /\ [Next]_vars => Restored'
  BY RestoredStep
<1>3. IInv /\ Restored /\ [Next]_vars
       => [app = "off" /\ app' # "off" =>
             \A s \in DOMAIN values : ~Spoiled(s) => values'[s] = values[s]]_vars
  <2>3. IInv => DOMAIN values = Followed
    BY DEF IInv, GoodValues
  <2> SUFFICES ASSUME IInv, Restored, Next, app = "off", app' # "off"
               PROVE  \A s \in Followed : ~Spoiled(s) => values'[s] = values[s]
    BY <2>3
  <2>1. Boot
    BY DEF Next, InMenu, PollOpens, PollReads, NetDialog, NetDialogEnds, ReadAddress,
           CheckAddress, ConnectionLost, SessionEnds, BackToMenu, AutostartEnds,
           AutostartCancelled, exit_callback, SaveEnds, Crash
  <2>2. values' = [s \in Followed |-> values'[s]]
        /\ \A s \in Followed : values'[s] \in Loaded(s)
    BY <2>1 DEF Boot
  <2> QED
    BY <2>2 DEF Restored
<1>4. AllKept => AllKept'
  OBVIOUS
<1> QED
  BY <1>1, <1>2, <1>3, <1>4, Invariant, PTL DEF Spec, SettingsKept

-----------------------------------------------------------------------------
(* The sockets of WLAN mode *)

\* Where a socket is waited for, under an alarm.
Waits == {"resolve", "connect", "recv"}

\* From the connection to netDisconnect.
InSession == {"password", "loop", "recv", "respond", "send", "leave"}

\* Where the last socket's number may have become the wake-up packet's.
Waking == {"waking", "socket"}

\* The watchdog runs only for an alarm, or to end.
DogInv ==
  /\ alarm => mpc \in Waits
  /\ Preempted => mpc \in Waits \cup {"ending"}

\* The session's socket is that of the last attempt, and its number is nobody else's.
SocketInv ==
  /\ open \in [Numbers -> {"free", "tcp", "wol", "lost"}]
  /\ netSocket \in Numbers \cup {None} /\ temp \in Numbers \cup {None}
  /\ netSocket # None => netSocket = temp /\ mpc \in InSession
  /\ temp # None /\ mpc \notin Waking => open[temp] \in {"tcp", "free"}

OwnInv == DogInv /\ SocketInv

-----------------------------------------------------------------------------
LEMMA CloseTypes ==
  ASSUME OwnInv, NEW s \in Numbers \cup {None}, Close(s)
  PROVE  /\ open' \in [Numbers -> {"free", "tcp", "wol", "lost"}]
         /\ \A r \in Numbers : open'[r] \in {open[r], "free"}
<1>1. open \in [Numbers -> {"free", "tcp", "wol", "lost"}]
  BY DEF OwnInv, SocketInv
<1>2. CASE s = None
  BY <1>1, <1>2 DEF Close
<1>3. CASE s # None
  <2>1. open' = [open EXCEPT ![s] = "free"]
    BY <1>3 DEF Close
  <2>2. s \in Numbers
    BY <1>3
  <2> QED
    BY <1>1, <2>1, <2>2
<1> QED
  BY <1>2, <1>3

\* Steps of the main thread that keep the sockets as they are.
LEMMA MainKeeps ==
  ASSUME OwnInv,
         \/ EnterSession \/ NetInit \/ GiveUp \/ ConnectAp \/ ServerLoop \/ Round
         \/ RoundEnds \/ Resolve \/ Password \/ Listen \/ Recv \/ RecvFails \/ Respond
         \/ Send \/ SendFails \/ Again \/ TermBegin
  PROVE  OwnInv'
<1> USE DEF OwnInv, DogInv, SocketInv, Waits, InSession, Waking, Preempted, At, Goto,
            None, flagVars, sockVars, dogVars, nameVars
<1>1. CASE EnterSession \/ NetInit \/ GiveUp \/ ConnectAp \/ ServerLoop
  BY <1>1 DEF EnterSession, NetInit, GiveUp, ConnectAp, ServerLoop
<1>2. CASE Round
  <2>1. UNCHANGED <<sockVars, sema, dog>> /\ mpc = "round" /\ mpc' \in {"wake", "resolve"}
    BY <1>2 DEF Round
  <2>2. mpc' = "wake" => ~alarm'
    BY <1>2 DEF Round
  <2> QED
    BY <1>2, <2>1, <2>2 DEF Round
<1>7. CASE RoundEnds \/ Resolve
  BY <1>7 DEF RoundEnds, Resolve
<1>3. CASE Password \/ Listen
  BY <1>3 DEF Password, Listen
<1>4. CASE Recv \/ RecvFails
  BY <1>4 DEF Recv, RecvFails, CancelAlarm
<1>5. CASE Respond \/ Send \/ SendFails
  BY <1>5 DEF Respond, Send, SendFails
<1>6. CASE Again \/ TermBegin
  BY <1>6 DEF Again, TermBegin, SignalDog
<1> QED
  BY <1>1, <1>2, <1>3, <1>4, <1>5, <1>6, <1>7

\* Steps that open or close a socket.
LEMMA SocketsKeep ==
  ASSUME OwnInv,
         \/ Wake \/ Woken \/ NewSocket \/ OutOfSockets \/ ConnectOk \/ ConnectFails
         \/ Leave \/ TermEnd \/ Watchdog \/ Callback
  PROVE  OwnInv'
<1> USE DEF OwnInv, DogInv, SocketInv, Waits, InSession, Waking, Preempted, At, Goto,
            None, flagVars, sockVars, dogVars, nameVars, mainVars
<1>1. CASE Wake
  BY <1>1 DEF Wake, Fresh
<1>2. CASE Woken
  BY <1>2 DEF Woken
<1>3. CASE NewSocket
  BY <1>3 DEF NewSocket, Fresh
<1>4. CASE OutOfSockets \/ ConnectOk
  BY <1>4 DEF OutOfSockets, ConnectOk, CancelAlarm
<1>5. CASE ConnectFails
  BY <1>5, CloseTypes DEF ConnectFails, CancelAlarm
<1>6. CASE Leave
  BY <1>6, CloseTypes DEF Leave, ForgetSocket
<1>7. CASE TermEnd
  BY <1>7 DEF TermEnd
<1>8. CASE Watchdog
  BY <1>8, CloseTypes DEF Watchdog
<1>9. CASE Callback
  BY <1>9, CloseTypes DEF Callback
<1> QED
  BY <1>1, <1>2, <1>3, <1>4, <1>5, <1>6, <1>7, <1>8, <1>9

\* The others do not touch a socket.
LEMMA OthersKeep ==
  ASSUME OwnInv,
         \/ AlarmFires \/ ApLost \/ ChangeServer \/ ChangeSetting \/ QuitWlan \/ HostStart
         \/ HostQuit \/ Accept \/ Authenticate \/ Drop \/ PumpFrame \/ ReadResponse
         \/ UNCHANGED wlanVars
  PROVE  OwnInv'
<1> USE DEF OwnInv, DogInv, SocketInv, Preempted, mainVars, sockVars, dogVars, pspVars
<1>1. CASE AlarmFires
  BY <1>1 DEF AlarmFires
<1>2. CASE ApLost \/ ChangeServer \/ ChangeSetting \/ QuitWlan
  BY <1>2 DEF ApLost, ChangeServer, ChangeSetting, QuitWlan
<1>3. CASE HostStart \/ HostQuit \/ Accept \/ Authenticate
  BY <1>3 DEF HostStart, HostQuit, Accept, Authenticate
<1>4. CASE Drop \/ PumpFrame \/ ReadResponse
  BY <1>4 DEF Drop, PumpFrame, ReadResponse
<1>5. CASE UNCHANGED wlanVars
  BY <1>5 DEF wlanVars
<1> QED
  BY <1>1, <1>2, <1>3, <1>4, <1>5

LEMMA OwnStep == OwnInv /\ [WlanNext]_wlanVars => OwnInv'
BY MainKeeps, SocketsKeep, OthersKeep DEF WlanNext

\* Closes in the step what the property speaks of.
Takes(s) == open[s] # "free" /\ open'[s] = "free" /\ mpc' = mpc

LEMMA OnlyItsOwn ==
  ASSUME OwnInv, [WlanNext]_wlanVars, NEW s \in Numbers, Takes(s)
  PROVE  open[s] = "tcp" /\ mpc # "waking"
<1> USE DEF Takes
<1>1. CASE Watchdog
  <2>1. s = temp /\ temp # None /\ mpc \in Waits \cup {"ending"}
    BY <1>1 DEF Watchdog, Close, OwnInv, DogInv, SocketInv
  <2> QED
    BY <2>1 DEF OwnInv, SocketInv, Waits, Waking
<1>2. CASE Callback
  <2>1. s = netSocket /\ netSocket # None
    BY <1>2 DEF Callback, Close, OwnInv, SocketInv
  <2> QED
    BY <2>1 DEF OwnInv, SocketInv, InSession, Waking
<1>3. CASE Main
  <2>1. CASE open' = open
    BY <2>1
  <2>2. CASE Wake \/ NewSocket
    BY <2>2 DEF Wake, NewSocket, Fresh, OwnInv, SocketInv
  <2>3. CASE Woken \/ ConnectFails \/ Leave \/ TermEnd
    BY <2>3 DEF Woken, ConnectFails, Leave, TermEnd, At, Goto
  <2>4. Main => \/ open' = open \/ Wake \/ NewSocket \/ Woken \/ ConnectFails \/ Leave
                \/ TermEnd
    BY DEF Main, EnterSession, NetInit, GiveUp, ConnectAp, ServerLoop, Round, RoundEnds,
       Resolve, OutOfSockets, ConnectOk, Password, Listen, Recv, RecvFails, Respond, Send,
       SendFails, Again, TermBegin, sockVars
  <2> QED
    BY <1>3, <2>1, <2>2, <2>3, <2>4
<1>4. WlanNext => open' = open \/ Watchdog \/ Callback \/ Main
  BY DEF WlanNext, Main, AlarmFires, ApLost, ChangeServer, ChangeSetting, QuitWlan,
         HostStart, HostQuit, Accept, Authenticate, Drop, PumpFrame, ReadResponse, sockVars,
         pspVars
<1> QED
  BY <1>1, <1>2, <1>3, <1>4 DEF wlanVars, sockVars

\* What the watchdog and the network's callback close is the session's socket or the one
\* being connected, and never a number given out again meanwhile (wlan.c).
THEOREM SocketsStayOwn == WlanSpec => ClosesOwn
<1>1. WlanInit => OwnInv
  BY DEF WlanInit, OwnInv, DogInv, SocketInv, Preempted, None, Waits
<1>2. OwnInv /\ [WlanNext]_wlanVars =>
        [\A s \in Numbers :
           open[s] # "free" /\ open'[s] = "free" /\ mpc' = mpc
             => open[s] = "tcp" /\ mpc # "waking"]_wlanVars
  BY OnlyItsOwn DEF Takes
<1> QED
  BY <1>1, <1>2, OwnStep, PTL DEF WlanSpec, ClosesOwn

=============================================================================
