SPECIFICATION CampaignSpec
CONSTANTS
  Workers = 2
  MaxFaults = 2
INVARIANTS FollowUpIsKept
  NothingUnrouted
