\* An angle, a byte, a range, a classification, targets; ten packets.
CONSTANTS
  Keys <- MCKeys
  Wanted <- MCWanted
  KLV_MAX_NUMBER_OF_TARGETS = 2
  Packets <- MCPackets
SPECIFICATION FairSpec
INVARIANT KlvOK
PROPERTY ImagesResume
